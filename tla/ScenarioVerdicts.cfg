SPECIFICATION Spec
CONSTANTS
    MaxRuns = 3
    Selections <- SomeSelections
INVARIANT AllScenariosPass
PROPERTY SummaryIsRepeatable
CHECK_DEADLOCK FALSE
