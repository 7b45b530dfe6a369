SPECIFICATION Spec
CONSTANTS
    Durations <- TwoSessions
    MaxCycles = 3
    MaxBlocked = 2
    Intervals <- NoneOrOne
    CycleTimes <- Fast
    InputChoices <- SomeInputs
    PassChoices <- SomePasses
    StreamChoices <- SomeStreams
INVARIANTS TypeOK CountsAreOfPasses RateTellsConvergence CompletedIsClean
PROPERTY CampaignEnds
CHECK_DEADLOCK FALSE
