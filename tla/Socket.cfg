SPECIFICATION Spec
CHECK_DEADLOCK FALSE
CONSTANTS
    N = 3
    M = 3
    AppCapacity = 3
    PipeCapacity = 1
    TcpCapacity = 2
INVARIANTS
    FinAfterLastByte
    OutputComplete
    NoBrokenPipe
PROPERTIES
    EventuallyDone
