----------------------------- MODULE FillLedger -----------------------------
(***************************************************************************)
(* What the portfolio owes to the account, with everything that makes it   *)
(* hard left out: no stream, no lookups, no fill ids.  The venue executes  *)
(* orders in steps.  The portfolio decides about an order at most once in  *)
(* a run: it takes over an order that has executed completely, and takes   *)
(* it over whole, or it leaves the order to an operator.  A restart starts *)
(* from the account and forgets the decisions.                             *)
(***************************************************************************)
EXTENDS Naturals

CONSTANTS Orders, Req

VARIABLES executed,  \* quantity of each order the venue has executed
          credited,  \* quantity of each order the portfolio holds
          decided    \* orders this run has decided about

ledger == <<executed, credited, decided>>

LedgerInit ==
    /\ executed = [o \in Orders |-> 0]
    /\ credited = [o \in Orders |-> 0]
    /\ decided = {}

LedgerExecute(o) ==
    /\ \E q \in 1 .. Req[o] :
          /\ executed[o] + q <= Req[o]
          /\ executed' = [executed EXCEPT ![o] = @ + q]
    /\ UNCHANGED <<credited, decided>>

\* Completely executed orders nothing is known of yet.
Due == {o \in Orders \ decided : executed[o] = Req[o] /\ credited[o] = 0}

\* S is decided about; of S, the orders in C are taken over.
LedgerDecide(S, C) ==
    /\ S # {}
    /\ decided' = decided \cup S
    /\ credited' = [o \in Orders |-> IF o \in C THEN Req[o] ELSE credited[o]]
    /\ UNCHANGED executed

LedgerRestart ==
    /\ credited' = executed /\ decided' = {}
    /\ UNCHANGED executed

LedgerNext ==
    \/ \E o \in Orders : LedgerExecute(o)
    \/ \E S \in SUBSET Orders : \E C \in SUBSET (S \cap Due) : LedgerDecide(S, C)
    \/ LedgerRestart

LedgerSpec == LedgerInit /\ [][LedgerNext]_ledger
=============================================================================
