SPECIFICATION Spec
CONSTANTS
    c1 = c1
    c2 = c2
    p1 = p1
    p2 = p2
    v1 = v1
    v2 = v2
    Callers <- MCCallers
    Proposals <- OneProposal
    InputOrder <- OneInput
    Versions <- OneVersion
    Limit = 1
    MaxCalls = 2
    MaxChanges = 0
    MaxAborts = 0
    None = None
INVARIANTS
    PartialNeverAcknowledged
CHECK_DEADLOCK FALSE
