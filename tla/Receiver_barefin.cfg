SPECIFICATION Spec
CONSTANTS
    StreamLength = 4
    Capacity = 4
    HALF = 12
    M64 = 72
    Isn = 3
    Pieces <- FixedPieces
    WindowRespected = TRUE
    BareFin = TRUE
    Byte <- MCByte
    Stream <- MCStream
INVARIANTS
    EofOnlyAtEnd
