SPECIFICATION Spec
CONSTANTS
    o1 = o1
    o2 = o2
    NoOrder = NoOrder
    Orders <- TwoOrders
    Req <- TwoTrades
    ExpectedChoices <- NoExpectation
    UseStore = FALSE
    Soak = TRUE
    CanSubmitOrders = FALSE
    MaxBlocked = 3
    MaxRounds = 3
    MaxAttempts = 3
    MaxStream = 2
    Faults = {"miss", "reconnect", "duplicate", "crash"}
CHECK_DEADLOCK FALSE
INVARIANTS TypeOK NoDoubleCredit WholeTradeIsCredited
PROPERTIES LedgerSpec
