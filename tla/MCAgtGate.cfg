SPECIFICATION Spec
CONSTANTS
    Calls = {c1, c2}
    Payloads = {p1, p2}
    Terms = {t1, t2}
    MaxEdits = 2
    None = None
SYMMETRY Symmetry
INVARIANTS
    TypeOK
    AuthorizedByBoth
    TransformedResultStands
CHECK_DEADLOCK FALSE
