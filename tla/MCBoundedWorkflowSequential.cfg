SPECIFICATION Spec
CONSTANTS
    c1 = c1
    c2 = c2
    p1 = p1
    p2 = p2
    v1 = v1
    v2 = v2
    Callers <- OneCaller
    Proposals <- OneProposal
    InputOrder <- MCInputOrder
    Versions <- MCVersions
    Limit = 1
    MaxCalls = 4
    MaxChanges = 2
    MaxAborts = 1
    None = None
SYMMETRY Symmetry
INVARIANTS
    RevalidatedWithinCall
    OneDispatchPerEffect
    OutcomesTrue
CHECK_DEADLOCK FALSE
