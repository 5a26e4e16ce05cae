CONSTANTS
    Books <- SomeBooks
    Rank <- TextRank
    ToLower <- GoLower
    LOWER <- PgLower
    Ascii <- Characters
    RawQueries <- AllQueries
    DefaultLimit = 2
    MaxLimit = 3
    MaxInt = 4
    MaxId = 3
    Bad = Bad
    Nil = Nil
SPECIFICATION WalkSpec
INVARIANTS
    WalkIsExact
    KeyDeterminesPage
CHECK_DEADLOCK FALSE
