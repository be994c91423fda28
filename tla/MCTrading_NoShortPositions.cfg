SPECIFICATION Spec
CONSTANTS
    Assets = {"A", "B"}
    Prices = {1, 3}
    Configs <- MCConfigs
    Outputs <- MCOutputs
    Deposit = 22
    OrderPercentage = 55
    SafetyMargin = 10
    LimitPercentage = 10
    Shorting = FALSE
    MaxOrders = 2
    Period = 1
    MaxTime = 2
    MaxEvents = 5
INVARIANT
    NoShortPositions
CHECK_DEADLOCK FALSE
