CONSTANTS
    Readers = {r1, r2}
    Writers = {w1, w2}
    Instances = {i1, i2}
    PageTTL = 1
    RequestTimeout = 1
    MaxVersion = 2
    MaxTime = 3
    MaxFaults = 1
    None = None
SYMMETRY Symmetry
SPECIFICATION MCSpec
INVARIANTS
    TypeOK
    FollowersHaveALeader
PROPERTIES
    AnswerAgeBounded
    ListSeesBumpedMutations
    
CHECK_DEADLOCK FALSE
