SPECIFICATION Spec
CONSTANTS
    o1 = o1
    o2 = o2
    NoOrder = NoOrder
    Orders <- TwoOrders
    Req <- SingleTrade
    ExpectedChoices <- AnyExpectation
    UseStore = TRUE
    Soak = FALSE
    CanSubmitOrders = FALSE
    MaxBlocked = 3
    MaxRounds = 3
    MaxAttempts = 3
    MaxStream = 1
    Faults = {"miss", "terminate", "malformed"}
SYMMETRY OrderSymmetry
CHECK_DEADLOCK FALSE
INVARIANTS ManualAttentionIsUnresolved
PROPERTIES NoMutationWhileUnresolved
