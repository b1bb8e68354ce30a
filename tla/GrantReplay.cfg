SPECIFICATION Spec
INVARIANTS
    ReuseWindow
    OncePerProcess
PROPERTIES
    CapacityMeansLive
SYMMETRY MCSymmetry
CHECK_DEADLOCK FALSE
CONSTANTS
    g1 = g1
    g2 = g2
    g3 = g3
    Grants <- MCGrants
    Ttl = 2
    MaxTtl = 2
    MaxSkew = 1
    Capacity = 2
    Skews <- MCSkews
    MaxClock = 3
    MaxBoots = 1
    FaultSets <- MCFaultSets
