CONSTANTS
    Users = {u1}
    Tokens = {t1, t2}
    Requests = {r1, r2}
    TicksPerSecond = 2
    AccessTTL = 3
    MaxTime = 5
    None = None
SYMMETRY Symmetry
SPECIFICATION Spec
INVARIANT TypeOK
PROPERTIES
    DeniedTokenRefused
    LoggedOutUserRefused
CHECK_DEADLOCK FALSE
