SPECIFICATION Spec
CONSTANTS
    StreamLength = 7
    Capacity = 4
    HALF = 12
    M64 = 72
    Isn = 20
    Pieces <- AnyPieces
    WindowRespected = TRUE
    BareFin = FALSE
    Byte <- MCByte
    Stream <- MCStream
INVARIANTS
    TypeOK
    Inv
    OutputIsPrefix
    AckNeverAhead
PROPERTIES
    AckNeverRetreats
