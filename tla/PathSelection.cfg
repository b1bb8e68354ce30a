SPECIFICATION PathSpec
INVARIANTS
    SearchInv
    PathIsDiverse
    NoneMeansNoPath
    SelectorInv
    OnionInv
PROPERTIES
    SearchEnds
    PathSettles
    DeadTunnelSurfaces
CHECK_DEADLOCK FALSE
CONSTANTS
    Registry <- MCRegistry
    RoleOf <- MCRoleOf
    OperatorOf <- MCOperatorOf
    JurisdictionOf <- MCJurisdictionOf
    HostOf <- MCHostOf
    EndpointOf <- MCEndpointOf
    Hops = 3
    Fast <- MCFast
    Resistant <- MCResistant
    PqRungs = {"pqwg"}
    MaxConnects = 2
    PathHops = 3
    PqHops = {1, 3}
    Failing = {1, 2, 3}
    MaxFaults = 2
