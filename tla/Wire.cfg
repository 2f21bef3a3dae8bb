SPECIFICATION Spec
CONSTANTS
    W = 32
    Addr <- MCAddr
    Eth <- MCEth
    Segments <- MCSegments
    Damages <- MCDamages
INVARIANTS
    Unforged
    PeerIsCaller
PROPERTIES
    NothingRefused
