SPECIFICATION Spec
CONSTANTS
    v1 = v1
    v2 = v2
    v0 = v0
    Inputs <- MCInputs
    Needs <- MCNeeds
    BoundTo <- MCBoundTo
    Versions <- MCVersions
    MaxAge <- MCMaxAge
    Tolerance = 1
    MaxSkew = 1
    NotBefore = 1
    ExpiresAt = 3
    Obligations <- MCObligations
    MaxTime = 2
    None = None
SYMMETRY Symmetry
INVARIANTS
    TypeOK
    AuthorizedRecentlyTrue
PROPERTIES
    WaitingAuthorizesNothing
