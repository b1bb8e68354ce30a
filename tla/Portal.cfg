SPECIFICATION PortalSpec
INVARIANTS
    StoreInv
    OneTokenPerPayment
    SetInv
PROPERTIES
    KeepsPromise
CONSTANTS
    i1 = i1
    i2 = i2
    i3 = i3
    p1 = p1
    a1 = a1
    a2 = a2
    a3 = a3
    f1 = f1
    f2 = f2
    blindA = blindA
    blindB = blindB
    k1 = k1
    k2 = k2
    k3 = k3
    Issues <- MCIssues
    Payments <- MCPayments
    PaymentOf <- MCPaymentOf
    MessageOf <- MCMessageOf
    Activations <- MCActivations
    References <- MCReferences
    ReferenceOf <- MCReferenceOf
    ResultTtl = 1
    Period = 2
    MaxClock = 3
    Scenarios <- MCScenarios
