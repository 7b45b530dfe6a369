SPECIFICATION FairSpec
CONSTANTS
    o1 = o1
    o2 = o2
    NoOrder = NoOrder
    Orders <- TwoOrders
    Req <- SingleTrade
    ExpectedChoices <- NoExpectation
    UseStore = FALSE
    Soak = TRUE
    CanSubmitOrders = FALSE
    MaxBlocked = 8
    MaxRounds = 3
    MaxAttempts = 3
    MaxStream = 2
    Faults = {"miss", "cancel"}
CHECK_DEADLOCK FALSE
PROPERTIES FilledIsCredited PassEnds
