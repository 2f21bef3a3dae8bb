SPECIFICATION FairSpec
CONSTANTS
    StreamLength = 13
    Capacity = 7
    HALF = 8
    M64 = 64
    Isn = 10
    Pieces <- FixedPieces
    WindowRespected = TRUE
    BareFin = FALSE
    Byte <- MCByte
    Stream <- MCStream
INVARIANTS
    AckIsFirstMissing
PROPERTIES
    EdgeNeverShrinks
    EventuallyEof
