-------------------------- MODULE MCRestrictedLive --------------------------
(***************************************************************************)
(* Instances of RestrictedLive for TLC.                                    *)
(***************************************************************************)
EXTENDS RestrictedLive, TLC

CONSTANTS o1, o2

TwoOrders == {o1, o2}
OneOrder == {o1}

\* Every order executes in one trade.
SingleTrade == [o \in Orders |-> 1]
\* The first order may execute in two trades, the others in one.
TwoTrades == [o \in Orders |-> IF o = o1 THEN 2 ELSE 1]

\* The soak passes no expected ids; a rehearsal plan may pass any.
NoExpectation == {{}}
AnyExpectation == SUBSET Orders

\* Orders of equal size are interchangeable: an order id is only compared.
OrderSymmetry == Permutations(Orders)
=============================================================================
