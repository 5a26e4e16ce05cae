CONSTANTS
    Users = {u1}
    Tokens = {t1, t2, t3}
    Requests = {r1, r2}
    RefreshTTL = 1
    MaxTime = 0
    None = None
SPECIFICATION FairSpec
PROPERTY RequestsFinish
CHECK_DEADLOCK FALSE
