SPECIFICATION Spec
CONSTANTS
    c1 = c1
    c2 = c2
    Callers <- OneCaller
    Proposals <- FewProposals
    Frames <- OneFrame
    Grants <- MCGrants
    MaxRuns = 2
    MaxActions = 1
    MaxDecisions = 1
    MaxGrants = 1
    MaxTime = 1
    Never = Never
INVARIANTS
    RecordsOneRun
CHECK_DEADLOCK FALSE
