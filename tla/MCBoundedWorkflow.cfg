SPECIFICATION Spec
CONSTANTS
    c1 = c1
    c2 = c2
    p1 = p1
    p2 = p2
    v1 = v1
    v2 = v2
    Callers <- MCCallers
    Proposals <- MCProposals
    InputOrder <- OneInput
    Versions <- OneVersion
    Limit = 1
    MaxCalls = 2
    MaxChanges = 1
    MaxAborts = 1
    None = None
SYMMETRY Symmetry
INVARIANTS
    TypeOK
    WriteAhead
    NoResubmission
    ReconciliationBacked
CHECK_DEADLOCK FALSE
