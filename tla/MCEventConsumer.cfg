CONSTANTS
    Consumers = {c1, c2}
    MaxEvents = 2
    MaxCopies = 2
    MaxRestarts = 1
    MaxRebalances = 1
    MaxFailures = 1
    None = None
SPECIFICATION FairSpec
INVARIANTS
    TypeOK
    NothingLostBehindTheOffset
    RepeatsBounded
PROPERTY
    EveryEventHandled
CHECK_DEADLOCK FALSE
