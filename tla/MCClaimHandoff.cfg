SPECIFICATION FairSpec
CONSTANTS
    c1 = c1
    c2 = c2
    Issuers <- MCIssuers
    InputOrder <- MCInputOrder
    Resolved <- MCResolved
    Projected <- MCProjected
    Bound <- MCBound
    Matched <- MCMatched
    Versions = {1, 2}
    MaxCalls = 1
    MaxWrites = 1
    MaxBypass = 1
    None = None
INVARIANTS
    TypeOK
    NoInvalidationLost
    SnapshotWitnessed
PROPERTIES
    EffectWhileValid
    ProvisionedWhileValid
    CallsReturn
CHECK_DEADLOCK FALSE
