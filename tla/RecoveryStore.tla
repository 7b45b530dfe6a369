---------------------------- MODULE RecoveryStore ----------------------------
(***************************************************************************)
(* What the snapshot file of the reconciliation store remembers across     *)
(* passes, lookups and crashes.                                            *)
(*                                                                         *)
(*   app/storage/reconciliation_state.py         the file                  *)
(*   app/exchanges/binance/reconciliation.py     one pass over it          *)
(*   app/exchanges/binance/reconciliation_coordinator.py   its order states*)
(*                                                                         *)
(* RestrictedLive follows fills into the portfolio and looks every order   *)
(* up by one id.  Here an order has the two ids the venue gives it: a      *)
(* payload about an order nobody expects is looked up by client id first   *)
(* and by exchange id when that does not settle it, the results are        *)
(* registered with replay-safe attempt numbers in one write of the file,   *)
(* the order lists in a second one.  Each write truncates the file before  *)
(* it fills it, and the process may die at any point.                      *)
(***************************************************************************)
EXTENDS Integers, Sequences, FiniteSets, FiniteSetsExt

CONSTANTS
    Orders,        \* orders of the account
    Tagged,        \* those whose payloads carry a client order id
    Unparsable,    \* those whose lookup payload gives no canonical order state
    BatchChoices,  \* sets of orders one batch of payloads may be about
    Expectations,  \* sets of orders a caller may expect
    Misses,        \* alerts of a lookup that did not find its order
    MaxRounds,     \* max_automatic_recovery_rounds
    MaxAttempts    \* max_recovery_attempts

ASSUME OrdersAssumption == IsFiniteSet(Orders)
ASSUME KindsAssumption == Tagged \subseteq Orders /\ Unparsable \subseteq Orders
ASSUME ChoicesAssumption ==
    BatchChoices \subseteq SUBSET Orders /\ Expectations \subseteq SUBSET Orders
ASSUME MissesAssumption == Misses \cap {"open", "done"} = {}
ASSUME LimitAssumption == MaxRounds \in Nat \ {0} /\ MaxAttempts \in Nat \ {0}

VARIABLES
    venue,      \* the exchange: is the order still open there
    file,       \* the snapshot file
    phase,      \* where the pass stands
    batch,      \* orders the private payloads of the pass are about
    awaited,    \* orders expected or resumed from the file
    gap,        \* gap_detected
    round,      \* lookup round
    asked,      \* orders already asked about in this round
    switched,   \* switched_unknown_lookup_values
    answers     \* lookup_results: outcomes per looked-up id, oldest first

memory == <<batch, awaited, gap, round, asked, switched, answers>>
vars == <<venue, file, phase, batch, awaited, gap, round, asked, switched,
          answers>>

-----------------------------------------------------------------------------
\* An order is looked up by one of its two ids.
Key == Orders \X {"exchange", "client"}
ExchangeId(o) == <<o, "exchange">>
ClientId(o) == <<o, "client">>

Outcome == {"open", "done"} \cup Misses

\* BinancePersistedRecoveryAttempt.  The fingerprint of a lookup is its id and
\* its outcome: the passes give no cursor, and the source is always the same.
Attempt == [key : Key, outcome : Outcome, number : Nat \ {0}]

Convergence == {"none", "not_required", "pending", "converged_terminal",
                "manual_attention"}

\* `torn`: the write in progress has truncated the file.  The other fields are
\* then no longer on disk: they are what the writer loaded and fills the file
\* with, and the process takes them with it when it dies.
Snapshot ==
    [torn : BOOLEAN, attempts : SUBSET Attempt, unresolved : SUBSET Key,
     manual : SUBSET Key, gap : BOOLEAN, convergence : Convergence]

Phases == {"idle", "lookup", "register", "registering", "persist",
           "persisting", "dead"}

NoAnswers == [k \in Key |-> <<>>]

-----------------------------------------------------------------------------
(* The pass: reconcile and the recovery plan.                              *)

Matched == batch \cap awaited
Unknown == batch \ awaited
Missing == awaited \ batch
Requested == Unknown \cup Missing

\* An unknown order whose payload names its client id is asked for by that.
AsksByClientId(o) == o \in (Unknown \cap Tagged) \ switched

Answered == {k \in Key : answers[k] # <<>>}
Latest(k) == answers[k][Len(answers[k])]
FoundDone(k) == \E i \in DOMAIN answers[k] : answers[k][i] = "done"

\* register_lookup_results: a known fingerprint keeps its number; the new ones
\* of an id are numbered on from its highest, in the order they came in.
Registered(k) == {a \in file.attempts : a.key = k}

\* Mutant: the attempts of an id are numbered from zero.
HighestNumberOfNone(k) == Max({a.number : a \in Registered(k)} \cup {-1})

HighestNumber(k) == Max({0} \cup {a.number : a \in Registered(k)})

NewOutcomes(k) ==
    {answers[k][i] : i \in DOMAIN answers[k]} \ {a.outcome : a \in Registered(k)}

FirstIndex(k, outcome) ==
    CHOOSE i \in DOMAIN answers[k] :
        /\ answers[k][i] = outcome
        /\ \A j \in DOMAIN answers[k] : answers[k][j] = outcome => i <= j

RankAmongNew(k, outcome) ==
    Cardinality({x \in NewOutcomes(k) :
                    FirstIndex(k, x) <= FirstIndex(k, outcome)})

\* Mutant: the numbers of a new pass start over.
NewAttemptsNumberedFromOne ==
    UNION {{[key |-> k, outcome |-> x, number |-> RankAmongNew(k, x)] :
                x \in NewOutcomes(k)} : k \in Key}

NewAttempts ==
    UNION {{[key |-> k, outcome |-> x,
             number |-> HighestNumber(k) + RankAmongNew(k, x)] :
                x \in NewOutcomes(k)} : k \in Key}

\* coordinate: where the lookups of an id end.
LookupState(k) ==
    IF FoundDone(k) THEN "converged_terminal"
    ELSE IF Latest(k) # "open" /\ Len(answers[k]) >= MaxAttempts
         THEN "manual_attention"
         ELSE "pending"

\* The order that the state a terminal lookup ends in is filed under: the one
\* the recovered payload names, or the id asked for when it cannot be parsed.
FiledUnder(k) == IF k[1] \in Unparsable THEN k ELSE ExchangeId(k[1])

\* The last state persist_workflow_state sees of an id: lookups come after the
\* matched, unknown and missing orders, a lookup by exchange id after the
\* lookup by client id that settled the order in an earlier round.
FinalState(k) ==
    LET o == k[1]
        settledByClientId ==
            FoundDone(ClientId(o)) /\ FiledUnder(ClientId(o)) = k
    IN IF k \in Answered THEN LookupState(k)
       ELSE IF settledByClientId THEN "converged_terminal"
       ELSE IF o \in Requested THEN "pending"
       ELSE "converged_terminal"

\* The ids the workflow reports a state for.
Reported ==
    {ExchangeId(o) : o \in Matched \cup Requested}
      \cup {IF FoundDone(k) THEN FiledUnder(k) ELSE k : k \in Answered}

Unsettled == {k \in Reported : FinalState(k) # "converged_terminal"}
LeftToOperator == {k \in Reported : FinalState(k) = "manual_attention"}

\* Mutant: one order that converged speaks for all.
PassConvergenceOfAny ==
    LET states == {LookupState(k) : k \in Answered}
    IN IF states = {} THEN "not_required"
       ELSE IF "manual_attention" \in states THEN "manual_attention"
       ELSE IF "converged_terminal" \in states THEN "converged_terminal"
       ELSE "pending"

PassConvergence ==
    LET states == {LookupState(k) : k \in Answered}
    IN IF states = {} THEN "not_required"
       ELSE IF "manual_attention" \in states THEN "manual_attention"
       ELSE IF "pending" \in states THEN "pending"
       ELSE "converged_terminal"

-----------------------------------------------------------------------------
EmptySnapshot ==
    [torn |-> FALSE, attempts |-> {}, unresolved |-> {}, manual |-> {},
     gap |-> FALSE, convergence |-> "none"]

\* What a process that dies in a write leaves of the file.
TornSnapshot == [EmptySnapshot EXCEPT !.torn = TRUE]

Forgotten ==
    /\ batch' = {} /\ awaited' = {} /\ gap' = FALSE /\ round' = 0
    /\ asked' = {} /\ switched' = {} /\ answers' = NoAnswers

Init ==
    /\ venue \in [Orders -> {"open", "done"}]
    /\ file = EmptySnapshot
    /\ phase = "idle"
    /\ batch = {} /\ awaited = {} /\ gap = FALSE /\ round = 0
    /\ asked = {} /\ switched = {} /\ answers = NoAnswers

\* The venue ends an order: filled, cancelled, rejected or expired.
EndOrder(o) ==
    /\ venue[o] = "open"
    /\ venue' = [venue EXCEPT ![o] = "done"]
    /\ UNCHANGED <<file, phase, memory>>

\* load_snapshot raises on a file a crash left torn.
CannotLoad ==
    /\ phase = "idle" /\ file.torn
    /\ phase' = "dead"
    /\ UNCHANGED <<venue, file, memory>>

\* resume_expected_order_ids and the plan: a resumed id is expected, and asked
\* for as an exchange order id.
StartPass(seen, expectations, hasGap) ==
    /\ phase = "idle" /\ ~file.torn
    /\ batch' = seen
    /\ awaited' = expectations \cup {k[1] : k \in file.unresolved}
    /\ gap' = (hasGap \/ file.gap)
    /\ round' = 1 /\ asked' = {} /\ switched' = {} /\ answers' = NoAnswers
    /\ phase' = "lookup"
    /\ UNCHANGED <<venue, file>>

\* What a signed query may bring: what the venue says, or a miss.
MayAnswer(o, outcome) == outcome = venue[o] \/ outcome \in Misses

\* Mutant: a lookup by client id that settles nothing is kept as it is.
LookupByClientIdWithoutFallback(o, outcome) ==
    /\ phase = "lookup" /\ o \in Requested \ asked
    /\ AsksByClientId(o) /\ MayAnswer(o, outcome)
    /\ answers' = [answers EXCEPT ![ClientId(o)] = Append(@, outcome)]
    /\ asked' = asked \cup {o} /\ UNCHANGED switched
    /\ UNCHANGED <<venue, file, phase, batch, awaited, gap, round>>

\* A lookup by client id counts when it settles the order; otherwise the
\* exchange id of the payload is asked for at once, and from now on.
LookupByClientId(o, outcome) ==
    /\ phase = "lookup" /\ o \in Requested \ asked
    /\ AsksByClientId(o) /\ MayAnswer(o, outcome)
    /\ IF outcome = "done"
       THEN /\ answers' = [answers EXCEPT ![ClientId(o)] = Append(@, outcome)]
            /\ asked' = asked \cup {o} /\ UNCHANGED switched
       ELSE switched' = switched \cup {o} /\ UNCHANGED <<answers, asked>>
    /\ UNCHANGED <<venue, file, phase, batch, awaited, gap, round>>

LookupByExchangeId(o, outcome) ==
    /\ phase = "lookup" /\ o \in Requested \ asked
    /\ ~AsksByClientId(o) /\ MayAnswer(o, outcome)
    /\ answers' = [answers EXCEPT ![ExchangeId(o)] = Append(@, outcome)]
    /\ asked' = asked \cup {o}
    /\ UNCHANGED <<venue, file, phase, batch, awaited, gap, round, switched>>

LookupsOver ==
    round = MaxRounds \/ \A k \in Answered : Latest(k) = "done"

NextRound ==
    /\ phase = "lookup" /\ asked = Requested /\ ~LookupsOver
    /\ round' = round + 1 /\ asked' = {}
    /\ UNCHANGED <<venue, file, phase, batch, awaited, gap, switched, answers>>

\* Mutant: lookups that found nothing are not worth registering.
EndLookupsSkipsMisses ==
    /\ phase = "lookup" /\ asked = Requested /\ LookupsOver
    /\ phase' = IF \A k \in Answered : Latest(k) \in Misses
                THEN "persist" ELSE "register"
    /\ UNCHANGED <<venue, file, memory>>

EndLookups ==
    /\ phase = "lookup" /\ asked = Requested /\ LookupsOver
    /\ phase' = "register"
    /\ UNCHANGED <<venue, file, memory>>

\* _write_snapshot opens the file for writing, which empties it ...
Truncate(from, to) ==
    /\ phase = from
    /\ file' = [file EXCEPT !.torn = TRUE]
    /\ phase' = to
    /\ UNCHANGED <<venue, memory>>

\* Mutant: the attempts of a pass replace those on file.
RegisterLookupsAnew ==
    /\ phase = "registering"
    /\ file' = [file EXCEPT !.torn = FALSE, !.attempts = NewAttempts]
    /\ phase' = "persist"
    /\ UNCHANGED <<venue, memory>>

\* ... and then fills it.
RegisterLookups ==
    /\ phase = "registering"
    /\ file' = [file EXCEPT !.torn = FALSE, !.attempts = @ \cup NewAttempts]
    /\ phase' = "persist"
    /\ UNCHANGED <<venue, memory>>

\* Mutant: the lists are built anew from the orders of this pass alone, and
\* an order a lookup did not find is not on them.
PersistWorkflowForgetsMisses ==
    /\ phase = "persisting"
    /\ file' = [file EXCEPT
          !.torn = FALSE,
          !.unresolved =
              {k \in Unsettled : k \in Answered => Latest(k) = "open"},
          !.manual = LeftToOperator,
          !.gap = gap,
          !.convergence = PassConvergence]
    /\ phase' = "idle"
    /\ Forgotten
    /\ UNCHANGED venue

\* persist_workflow_state
PersistWorkflow ==
    /\ phase = "persisting"
    /\ file' = [file EXCEPT
          !.torn = FALSE,
          !.unresolved = (@ \ Reported) \cup Unsettled,
          !.manual = (@ \ Reported) \cup LeftToOperator,
          !.gap = gap,
          !.convergence = PassConvergence]
    /\ phase' = "idle"
    /\ Forgotten
    /\ UNCHANGED venue

\* The process dies and is started again.  A file it had truncated is empty.
Crash ==
    /\ phase \notin {"idle", "dead"}
    /\ phase' = "idle"
    /\ file' = IF file.torn THEN TornSnapshot ELSE file
    /\ Forgotten
    /\ UNCHANGED venue

Next ==
    \/ \E o \in Orders : EndOrder(o)
    \/ CannotLoad
    \/ \E seen \in BatchChoices, expectations \in Expectations, hasGap \in BOOLEAN :
          StartPass(seen, expectations, hasGap)
    \/ \E o \in Orders, outcome \in Outcome :
          LookupByClientId(o, outcome) \/ LookupByExchangeId(o, outcome)
    \/ NextRound \/ EndLookups
    \/ Truncate("register", "registering") \/ RegisterLookups
    \/ Truncate("persist", "persisting") \/ PersistWorkflow
    \/ Crash

Spec == Init /\ [][Next]_vars

-----------------------------------------------------------------------------
(* Properties.                                                             *)

TypeOK ==
    /\ venue \in [Orders -> {"open", "done"}]
    /\ file \in Snapshot
    /\ phase \in Phases
    /\ batch \subseteq Orders /\ awaited \subseteq Orders
    /\ gap \in BOOLEAN /\ round \in Nat
    /\ asked \subseteq Orders /\ switched \subseteq Orders
    /\ answers \in [Key -> Seq(Outcome)]

\* Attempt numbering is replay-safe: an id never has two attempts of one
\* number, nor one outcome under two numbers, whatever was repeated after a
\* crash (register_lookup_results).
AttemptNumbersAreUnique ==
    \A a, b \in file.attempts :
        a.key = b.key /\ (a.number = b.number \/ a.outcome = b.outcome) => a = b

\* The attempts of an id are numbered 1, 2, ... without a gap, so the highest
\* number is the number of attempts an operator reads it as.
NoAttemptNumberIsSkipped ==
    \A k \in Key :
        {a.number : a \in Registered(k)} = 1 .. Cardinality(Registered(k))

\* A registered attempt is never renumbered or dropped, by no later pass and
\* no restart.  Only a crash inside a write loses them, all at once and with the
\* file: it stays torn, no later start loads it, and nothing is numbered anew.
AttemptsAreStable ==
    [][file.attempts \subseteq file'.attempts \/ file' = TornSnapshot]_vars

\* What the file asks to resume can be asked for: resumed ids are sent as
\* exchange order ids, so no client id may ever get on the list.
ResumeListHoldsExchangeIds ==
    \A k \in file.unresolved \cup file.manual : k[2] = "exchange"

\* The two writes of a pass are ordered: an order handed to the operator has
\* the failed lookup that led there on file, even if the process died between
\* the writes.
ManualAttentionIsExplained ==
    \A k \in file.manual :
        /\ k \in file.unresolved
        /\ \E a \in file.attempts : a.key = k /\ a.outcome \in Misses

\* An order leaves the resume list only for a reason that can be shown: a
\* private payload about it in this pass, or a lookup on file that found it
\* finished.  Nothing that fails, repeats or dies makes the file forget one,
\* unless it dies inside a write and leaves no file that could be loaded.
OrdersLeaveWithEvidence ==
    [][file' # TornSnapshot => \A o \in Orders :
          ExchangeId(o) \in file.unresolved \ file'.unresolved =>
             \/ o \in batch
             \/ \E a \in file'.attempts :
                   a.key \in {ExchangeId(o), ClientId(o)} /\ a.outcome = "done"
      ]_vars

\* last_convergence_state can be trusted: when the file says the last pass
\* converged, no order is waiting, except one whose lookup payload could not
\* be parsed.
ConvergedMeansSettled ==
    file.convergence \in {"not_required", "converged_terminal"} =>
        \A k \in file.unresolved : k[1] \in Unparsable
=============================================================================
