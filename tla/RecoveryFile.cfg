SPECIFICATION Spec
CONSTANTS
    o1 = o1
    o2 = o2
    Orders <- TwoOrders
    Tagged <- TwoOrders
    Unparsable <- OnlyFirst
    BatchChoices <- AnyBatch
    Expectations <- ExpectNoneOrFirst
    Misses <- OneMiss
    MaxRounds = 2
    MaxAttempts = 2
INVARIANTS TypeOK AttemptNumbersAreUnique ResumeListHoldsExchangeIds ManualAttentionIsExplained ConvergedMeansSettled
PROPERTIES AttemptsAreStable OrdersLeaveWithEvidence
CHECK_DEADLOCK FALSE
