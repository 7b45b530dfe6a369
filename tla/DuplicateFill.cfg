SPECIFICATION Spec
CONSTANTS
    o1 = o1
    o2 = o2
    NoOrder = NoOrder
    Orders <- OneOrder
    Req <- SingleTrade
    ExpectedChoices <- NoExpectation
    UseStore = TRUE
    Soak = FALSE
    CanSubmitOrders = FALSE
    MaxBlocked = 3
    MaxRounds = 3
    MaxAttempts = 3
    MaxStream = 2
    Faults = {"duplicate"}
CHECK_DEADLOCK FALSE
INVARIANTS NoDoubleCredit
