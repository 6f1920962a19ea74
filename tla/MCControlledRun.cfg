SPECIFICATION Spec
CONSTANTS
    c1 = c1
    c2 = c2
    Callers <- MCCallers
    Proposals <- MCProposals
    Frames <- TwoFrames
    Grants <- MCGrants
    MaxRuns = 2
    MaxActions = 2
    MaxDecisions = 2
    MaxGrants = 1
    MaxTime = 1
    Never = Never
SYMMETRY Symmetry
INVARIANTS
    TypeOK
    RecordValid
    FingerprintDetermines
    
    AllowBacked
CHECK_DEADLOCK FALSE
