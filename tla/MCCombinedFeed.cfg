SPECIFICATION Spec
CONSTANTS
    Combinations <- MCCombinations
    MaxFeeds = 3
    ChannelCapacity = 1
    MainCapacity = 1
    Start = 2
    End = 4
    Inclusive = FALSE
INVARIANTS
    TypeOK
    HoldsOnePerFeed
    NothingLeftBehind
    BoundedLead
PROPERTIES
    MergesStreams
CHECK_DEADLOCK FALSE
