CONSTANTS
    Users = {u1, u2}
    Tokens = {t1, t2, t3}
    Requests = {r1, r2}
    RefreshTTL = 1
    MaxTime = 2
    None = None
SYMMETRY Symmetry
SPECIFICATION Spec
INVARIANTS
    TypeOK
    OneLivePerFamily
    RotationAtomic
    NoFalseAlarm
    RevokedStaysDead
    LogoutOwnRowsOnly
PROPERTY ImplementsSessions
CHECK_DEADLOCK FALSE
