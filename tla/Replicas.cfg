SPECIFICATION ReplicasSpec
INVARIANTS
    ClusterInv
    MintInv
    PgInv
PROPERTIES
    ClusterKeepsPromise
    PgKeepsPromise
CHECK_DEADLOCK FALSE
CONSTANTS
    r1 = r1
    r2 = r2
    r3 = r3
    r4 = r4
    r5 = r5
    r6 = r6
    k1 = k1
    k2 = k2
    k3 = k3
    k4 = k4
    h1 = h1
    h2 = h2
    h3 = h3
    h4 = h4
    h5 = h5
    east = east
    west = west
    a1 = a1
    a2 = a2
    a3 = a3
    a4 = a4
    f1 = f1
    f2 = f2
    f3 = f3
    i1 = i1
    i2 = i2
    i3 = i3
    p1 = p1
    account = account
    Replicas = {"east", "west"}
    Requests <- MCAsked
    PassOf <- MCPassOf
    SpellingOf <- MCSpellingOf
    EpochOf <- MCEpochOf
    ExpiryOf <- MCExpiryOf
    ReplicaOf <- MCReplicaOf
    PeerOf <- MCPeerOf
    HeaderOf <- MCHeaderOf
    Proxy = "proxy"
    Clients = {"c1"}
    Rollout <- MCRollout
    Validity = 2
    Cutoff = 1
    GrantTtl = 1
    RateMax = 1
    RateWindow = 1
    MaxClock = 2
    Scenarios <- MCScenarios
    Batches <- MCBatches
    KeyOf <- MCKeyOf
    HashOf <- MCHashOf
    CostOf <- MCCostOf
    PortalOf <- MCPortalOf
    MaxTokens = 3
    Window = 2
    ResultTtl = 2
    ActiveUntil = 2
    Horizon = 2
    MintScenarios <- MCMintScenarios
