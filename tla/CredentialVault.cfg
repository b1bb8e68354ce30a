SPECIFICATION VaultsSpec
INVARIANTS
    VaultInv
    SecureStoreInv
PROPERTIES
    ChangeCompletes
CONSTANTS
    a1 = a1
    a2 = a2
    p1 = p1
    c1 = c1
    c2 = c2
    Accounts <- MCAccounts
    Payments <- MCPayments
    Connects <- MCConnects
    RefillTarget = 2
    RefillLowWatermark = 1
    MaxStored = 4
    Life = 1
    MaxRequests = 3
    MaxChanges = 1
    MaxClock = 1
    Scenarios <- MCScenarios
