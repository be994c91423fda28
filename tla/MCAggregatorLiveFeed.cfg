SPECIFICATION Spec
CONSTANTS
    Assets = {"A", "B"}
    Capacity = 1
    Start = 1
    End = 4
    Inclusive = TRUE
    Period = 2
    FirstEnd = 2
    LastEnd = 6
    Feeds <- MCFeeds
INVARIANTS
    TypeOK
    NoPriceTwice
    NothingMissing
CHECK_DEADLOCK FALSE
PROPERTIES
    PricesArrive
    PlayStops
