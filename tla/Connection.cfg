SPECIFICATION FairSpec
CHECK_DEADLOCK FALSE
CONSTANTS
    HALF = 8
    M64 = 64
    MAX_PAYLOAD_SIZE = 2
    RTO = 1
    MAX_RETX_ATTEMPTS = 4
    RecvCapacity = 1
    SendCapacity = 2
    Side <- MCSide
    Openers = {"x", "y"}
    Byte = {1, 2, 11}
    Data <- MCData
    Isn <- MCIsn
    TickSize = 1
    MaxFaults = 1
    MaxIdle = 0
INVARIANTS
    DeliveredIsPrefix
    AckedIsReceived
    CleanCloseComplete
    NoNeedlessReset
PROPERTIES
    ResetOnce
    StatesAdvance
    EventuallyClosed
