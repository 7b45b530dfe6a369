--------------------------- MODULE MCRecoveryStore ---------------------------
(***************************************************************************)
(* Instances of RecoveryStore for TLC.                                     *)
(***************************************************************************)
EXTENDS RecoveryStore

CONSTANTS o1, o2

TwoOrders == {o1, o2}
OnlyFirst == {o1}
NoOrders == {}
AnyBatch == SUBSET Orders
ExpectNoneOrFirst == {{}, {o1}}
OneMiss == {"does not exist"}
TwoMisses == {"does not exist", "timed out"}
=============================================================================
