CONSTANTS
    Bars <- MCBars
    MaxRuns = 2
    MaxCycles = 3
    FeeBps = 10
    MaxNotional = 1000000
    InitialCash = 2500000
SPECIFICATION Spec
INVARIANT TypeOK
INVARIANT SessionIsExplained
INVARIANT BooksBalance
INVARIANT DriftIsRefusal
INVARIANT VerdictIsOnDisk
CHECK_DEADLOCK FALSE
