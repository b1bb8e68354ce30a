SPECIFICATION DatapathSpec
INVARIANTS
    HostInv
    DesktopNetInv
    AndroidInv
    AppleInv
PROPERTIES
    FirewallReleasedLast
    EngineSettles
CHECK_DEADLOCK FALSE
CONSTANTS
    Originals <- MCOriginals
    Replaced <- MCReplaced
    Addresses <- MCAddresses
    HadRoute = {"fallback"}
    MaxFails = 3
    MaxConnects = 2
    FaultSets <- MCFaultSets
