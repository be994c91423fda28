SPECIFICATION Spec
CONSTANTS
    Assets = {"A"}
    DayLength = 2
    Catalogue <- MCCatalogue
    Updates <- MCUpdates
    Prices = {2, 4, 6}
    Deposit = 10
    FeePercent = 50
    MaxOrders = 2
    MaxTime = 3
    LastPlacement = 1
    MaxWall = 4
INVARIANTS
    TypeOK
    
    OneCancelsOther
    SecondaryAfterPrimary
    OneBracketExit
    LedgerBalances
    ProfitAddsUp
    CompletedMeansTraded
    OpenOrdersHaveExecutors
    TradesInForce
PROPERTIES
    ClosedOrdersStayClosed
