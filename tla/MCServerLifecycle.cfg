CONSTANTS
    Handlers = {h1, h2}
    MaxConns = 1
    QueueSize = 1
    Attempts = 2
    MaxRequests = 2
SPECIFICATION FairSpec
INVARIANTS
    TypeOK
    GraceProtects
    ClientsOutliveStatements
    EntriesAccounted
PROPERTIES
    EndsLeaveNothingOpen
    StartsAndStops
CHECK_DEADLOCK FALSE
