SPECIFICATION Spec
CHECK_DEADLOCK FALSE
CONSTANTS
    StreamLength = 4
    Capacity = 3
    HALF = 8
    M64 = 64
    Isn = 13
    MAX_PAYLOAD_SIZE = 2
    RTO = 4
    TickSize = 2
    MaxWindow = 3
    MaxIdle = 6
    MaxRetx = 1
    Byte <- MCByte
    Stream <- MCStream
INVARIANTS
    StaleAcksHarmless
