SPECIFICATION FairSpec
CONSTANTS
    t1 = t1
    t2 = t2
    e1 = e1
    e2 = e2
    e3 = e3
    g1 = g1
    Threads <- MCThreads
    Effects <- MCEffects
    Grants <- MCGrants
    GrantOf <- MCGrantOf
    LimitOf <- MCLimitOf
    MaxCalls = 2
    MaxCrashes = 1
    None = None
INVARIANTS
    TypeOK
    CapHolds
    OneCommitPerEffect
PROPERTIES
    ImplementsLedger
    RequestsAnswered
CHECK_DEADLOCK FALSE
