SPECIFICATION Spec
CONSTANTS
    Assets = {"A", "B"}
    Capacity = 1
    Start = 3
    End = 8
    Inclusive = TRUE
    Period = 2
    Feeds <- MCFeeds
INVARIANTS
    TypeOK
    EveryPriceInOneBar
    NothingMissing
PROPERTIES
    RunEnds
    JobsStop
CHECK_DEADLOCK FALSE
