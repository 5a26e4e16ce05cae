CONSTANTS
    Users = {u1, u2}
    Titles = {v1, v2}
    Authors = {a1}
    Requests = {r1, r2}
    MaxCopies = 1
    MaxId = 1
    Late = {2}
    MaxCommits = 4
    None = None
SYMMETRY Symmetry
SPECIFICATION Spec
INVARIANTS
    TypeOK
    NoFieldUndone
    DeletedOnce
    EventsReportCommits
    EventsFollowAnswers
PROPERTIES
    OnlyTheOwnerWrites
CHECK_DEADLOCK FALSE
