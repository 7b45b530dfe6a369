--------------------------- MODULE MCOfflineRuns ----------------------------
EXTENDS OfflineRuns

\* A price whose averages, and whose fee of 10 basis points, are integers.
Price == 360000
MCBars ==
    {[valid |-> TRUE, price |-> p * Price, plan |-> plan] :
        p \in {1, 3}, plan \in {"enter", "exit", "notional"}}
    \cup {[valid |-> v, price |-> Price, plan |-> plan] :
        v \in BOOLEAN, plan \in {"watch", "oversize", "enter"}}

\* What the theorem about the books of a session assumes holds here.
ASSUME MCAverages == ExactAverages(<<720, 60, 1>>)
=============================================================================
