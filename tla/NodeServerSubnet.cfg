SPECIFICATION Spec
INVARIANTS
    AssignedInSubnet
CONSTANTS
    c1 = c1
    c2 = c2
    c3 = c3
    p1 = p1
    p2 = p2
    p3 = p3
    g1 = g1
    g2 = g2
    g3 = g3
    Conns <- MCConns
    Peers <- MCPeers
    Grants <- MCGrants
    NextHop <- MCNextHop
    Targets = {"hopA", "hopB"}
    First = 1
    Gateway = 1
    Subnet <- MCSubnet
    Strangers <- MCStranger
    MaxConnections = 2
    MaxPerIp = 1
    MaxLearned = 1
    Setups <- MCWide
CHECK_DEADLOCK FALSE
