SPECIFICATION Spec
CONSTANTS
    o1 = o1
    o2 = o2
    s1 = s1
    s2 = s2
    law = law
    memo = memo
    a = a
    b = b
    Ids = {o1, o2}
    Payloads <- MCPayloads
    Policies <- MCPolicies
    Origin = law
    Items <- MCItems
    MaxItems = 2
    MaxTime = 2
    Issued <- MCIssued
    None = None
INVARIANTS
    TypeOK
    StatusByPrecedence
    PinsHonoured
PROPERTIES
    NothingRevives
    TimeOnlyAges
