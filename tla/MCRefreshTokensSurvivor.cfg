CONSTANTS
    Users = {u1}
    Tokens = {t1, t2, t3}
    Requests = {r1, r2, r3}
    RefreshTTL = 1
    MaxTime = 0
    None = None
SYMMETRY Symmetry
SPECIFICATION Spec
INVARIANT RevokesEntireFamily
CHECK_DEADLOCK FALSE
