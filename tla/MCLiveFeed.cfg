SPECIFICATION Spec
CONSTANTS
    f1 = f1
    f2 = f2
    r1 = r1
    r2 = r2
    LiveFeeds = {f1}
    Runs = {r1, r2}
    Plays <- MCShared
    CombinedRuns = {r2}
    Capacity = 1
    Start = 1
    End = 3
    Inclusive = FALSE
    LastTime <- MCLastTime
INVARIANTS
    TypeOK
    NoSilentLoss
    InOrder
PROPERTIES
    SendersGoOn
    JobsStop
CHECK_DEADLOCK FALSE
