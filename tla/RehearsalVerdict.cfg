SPECIFICATION Spec
CONSTANTS
    Plan <- TwoWindows
    FillWindows <- FirstFills
    LatePolicies <- Policies
    RunType = "bounded"
    RunChoices <- CleanOrManual
    MaxSessions = 2
INVARIANTS TypeOK SuccessLeavesNoOrder ExitCodeTellsEvidence ExerciseSuccessIsFresh
PROPERTIES PassIsBackedByArtifacts PassIsBackedByWindows ManualAttentionSticks
CHECK_DEADLOCK FALSE
