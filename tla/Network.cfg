SPECIFICATION Spec
CHECK_DEADLOCK FALSE
CONSTANTS
    MAPPING_TTL = 2
    REQUEST_TTL = 1
    AddressBits = 3
    RouterIfcs <- MCRouterIfcs
    Hosts = {"a", "b"}
    Ip <- MCIp
    NextHop <- MCNextHop
    Links <- MCLinks
    Candidates <- MCCandidates
    Table <- MCTable
    Traffic <- MCTraffic
    MaxSent = 2
    MaxLoss = 1
INVARIANTS
    LongestPrefix
    MappingsTrue
    Conserved
    ArrivesRight
PROPERTIES
    EventuallyArrives
