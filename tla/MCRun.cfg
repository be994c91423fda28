SPECIFICATION Spec
CONSTANTS
    Capacity = 2
    Start = 2
    End = 3
    Inclusive = TRUE
    Feeds <- MCFeeds
    MaxClock = 4
    MaxHeartbeats = 3
INVARIANTS
    TypeOK
    BoundedQueue
    LossesShow
PROPERTIES
    StreamsEvents
    FeedStops
CHECK_DEADLOCK FALSE
