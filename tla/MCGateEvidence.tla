--------------------------- MODULE MCGateEvidence ---------------------------
(* Two windows, the first with a fill attempt, and two sessions.           *)
EXTENDS GateEvidence

TwoWindows == <<"a1", "a2">>
FirstFills == {"a1"}
Policies == {"abort", "skip"}

CleanRun == [reason |-> "completed", blocked |-> FALSE, manual |-> FALSE,
             churn |-> FALSE]
ManualRun == [reason |-> "fatal_exchange_health", blocked |-> TRUE,
              manual |-> TRUE, churn |-> TRUE]
CleanOrManual == {CleanRun, ManualRun}
=============================================================================
