SPECIFICATION RpcSpec
CONSTANTS
    Shares <- ThreeShares
    ServerName <- HostName
    MaxRounds = 2
    MaxWrite = 20
    PduCap = 2
    StubCap = 100
    Cuts = {5, 30}
    Fids = {1, 2}
CHECK_DEADLOCK FALSE
INVARIANTS
    WholeList
    PipesReleased
PROPERTIES
    EnumerationEnds
