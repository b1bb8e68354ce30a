SPECIFICATION DatapathSpec
PROPERTIES
    FirewallReleasedLast
CHECK_DEADLOCK FALSE
CONSTANTS
    Originals <- MCOriginals
    Replaced <- MCReplaced
    Addresses <- MCSameHost
    HadRoute = {"fallback"}
    MaxFails = 3
    MaxConnects = 2
    FaultSets <- MCDownFails
