CONSTANTS
    Names = {n1}
    Passwords = {p1, p2}
    Requests = {r1, r2}
    RequestTimeout = 1
    AccessTTL = 1
    MaxTime = 4
    MaxChanges = 2
    None = None
SYMMETRY Symmetry
SPECIFICATION Spec
INVARIANTS
    TypeOK
    ConfirmedOnce
    AdminEnds
CHECK_DEADLOCK FALSE
