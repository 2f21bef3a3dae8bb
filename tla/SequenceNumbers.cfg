SPECIFICATION NumbersSpec
CONSTANTS
    HALF = 4
    M64 = 40
INVARIANTS
    ListenerAgrees
    UnwrapClosest
