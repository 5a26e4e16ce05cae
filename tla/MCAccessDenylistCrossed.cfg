CONSTANTS
    Users = {u1}
    Tokens = {t1, t2, t3}
    Requests = {r1, r2}
    TicksPerSecond = 2
    AccessTTL = 4
    MaxTime = 4
    None = None
SYMMETRY Symmetry
SPECIFICATION Spec
PROPERTY CutoffNeverForgotten
CHECK_DEADLOCK FALSE
