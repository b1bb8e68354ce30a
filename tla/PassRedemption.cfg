SPECIFICATION ClientSpec
INVARIANTS
    PassInv
    LaunchInv
PROPERTIES
    LostAnswerIsRetried
CHECK_DEADLOCK FALSE
CONSTANTS
    Passes <- MCPasses
    Nodes = {"n1", "n2"}
    PqNodes = {"n2"}
    PathHops = 2
    GrantTtl = 3
    PassLife = 5
    MaxClock = 5
    MaxFaults = 4
    FaultSets <- MCFaultSets
