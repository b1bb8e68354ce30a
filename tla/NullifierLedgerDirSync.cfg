SPECIFICATION Spec
INVARIANTS
    OneResponsePerPass
CONSTANTS
    r1 = r1
    r2 = r2
    r3 = r3
    k1 = k1
    k2 = k2
    k3 = k3
    Requests <- MCRequests
    Keys <- MCKeys
    KeyOf <- MCKeyOf
    LegacyKeys <- MCLegacy
    GrantTtl = 1
    CipherKeys = {"keyA", "keyB"}
    MaxClock = 2
    FaultSets <- MCUncertainMedia
