SPECIFICATION Spec
CONSTANTS
    StreamLength = 8
    Capacity = 5
    MaxUnassembled = 16
    WindowRespected = FALSE
    BareFin = TRUE
    Byte <- MCByte
    Stream <- MCStream
INVARIANTS
    OutputIsPrefix
    BlocksSeparated
    UnassembledExact
    WithinCapacity
    EofOnlyAtEnd
PROPERTIES
    ImplementsSpec
