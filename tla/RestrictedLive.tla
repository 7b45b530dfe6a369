--------------------------- MODULE RestrictedLive ---------------------------
(***************************************************************************)
(* The restricted-live reconciliation pass of runtime2, end to end: one    *)
(* private-stream payload is polled, the orders it leaves uncertain are    *)
(* looked up by signed REST query (in rounds), the outcome is persisted,   *)
(* and the portfolio gate decides whether the fills of the pass may        *)
(* change the portfolio.  The venue executes orders at any moment, so also *)
(* between two lookups of one pass; the stream may drop, repeat or garble  *)
(* payloads; the process may crash between any two steps.                  *)
(*                                                                         *)
(*   app/exchanges/binance/live_portfolio_gate.py      the gate            *)
(*   app/exchanges/binance/reconciliation.py           the lookups         *)
(*   app/exchanges/binance/reconciliation_coordinator.py  order states     *)
(*   app/storage/reconciliation_state.py               the snapshot file   *)
(*   app/portfolio/live.py                             fills to portfolio  *)
(*   app/monitoring/restricted_live_soak.py            the cycle loop      *)
(*                                                                         *)
(* Quantities are small naturals; a price is never compared by the code    *)
(* modelled here and is left out.  Every order buys the one instrument, so *)
(* the account's position is the sum of what its orders executed.          *)
(***************************************************************************)
EXTENDS Integers, Sequences, FiniteSets, Functions

CONSTANTS
    Orders,           \* exchange order ids
    NoOrder,          \* the order of a payload that names none
    Req,              \* requested quantity of each order
    ExpectedChoices,  \* what a caller may pass as expected_order_ids
    UseStore,         \* is a reconciliation_state_store wired into the gate
    Soak,             \* TRUE: the soak runner's loop; FALSE: the failure-injection campaign's
    CanSubmitOrders,  \* BinanceAdapterConfig.allow_order_submission
    MaxBlocked,       \* RestrictedLiveSoakStopCriteria.max_blocked_mutations
    MaxRounds,        \* max_automatic_recovery_rounds
    MaxAttempts,      \* max_recovery_attempts
    MaxStream,        \* bound of the model: payloads on the wire at once
    Faults            \* what may go wrong in this instance

FaultKinds == {"miss", "reconnect", "terminate", "malformed", "duplicate",
               "cancel", "crash"}

ASSUME OrdersAssumption == IsFiniteSet(Orders) /\ NoOrder \notin Orders
ASSUME ReqAssumption == Req \in [Orders -> Nat \ {0}]
ASSUME CallerAssumption == ExpectedChoices \subseteq SUBSET Orders
ASSUME WiringAssumption ==
    UseStore \in BOOLEAN /\ Soak \in BOOLEAN /\ CanSubmitOrders \in BOOLEAN
ASSUME LimitAssumption ==
    /\ MaxBlocked \in Nat \ {0} /\ MaxRounds \in Nat \ {0}
    /\ MaxAttempts \in Nat \ {0} /\ MaxStream \in Nat \ {0}
ASSUME FaultAssumption == Faults \subseteq FaultKinds

VARIABLES
    venue,       \* the exchange: status and executed quantity of each order
    stream,      \* private payloads on the wire, oldest first
    phase,       \* where run_cycle stands
    payload,     \* the payload of the current, or else of the last, pass
    expected,    \* expected_order_ids of the pass
    awaited,     \* expected plus resumed order ids
    round,       \* lookup round of the pass
    switched,    \* orders asked for by exchange id after the client id failed
    answers,     \* lookup results of the pass, per order
    unresolved,  \* snapshot file: unresolved_order_ids
    manual,      \* snapshot file: manual_attention_order_ids
    credited,    \* what the portfolio holds of each order's execution
    appliedIds,  \* already_applied_fill_ids
    blocked,     \* blocked_mutation_count
    verdict      \* outcome of the last pass

environment == <<venue, stream>>
pass == <<payload, expected, awaited, round, switched, answers>>
disk == <<unresolved, manual>>
loop == <<credited, appliedIds, blocked, verdict>>
vars == <<venue, stream, phase, payload, expected, awaited, round, switched,
          answers, unresolved, manual, credited, appliedIds, blocked, verdict>>

-----------------------------------------------------------------------------
(* Data.                                                                   *)

VenueStatus == {"absent", "new", "partially_filled", "filled", "canceled"}

OrderStatus == {"new", "acknowledged", "partially_filled", "filled",
                "canceled", "recovering", "unreconciled"}

\* Mutant: a filled order is not recognised as finished.
TerminalStatusOmitsFilled == {"canceled"}

TerminalStatus == {"filled", "canceled"}

ReconciliationState == {"none", "submit_sent", "unknown_execution",
    "status_query_pending", "manual_attention", "recovered_terminal_state"}

Verdicts == {"none", "applied", "applied_with_pending", "malformed",
             "invalidated", "unresolved", "clock", "ambiguous", "snapshot"}

BlockedVerdicts == Verdicts \ {"none", "applied", "applied_with_pending"}

Phases == {"idle", "lookup", "persist", "gate", "stopped"}

Quantities == [Orders -> Nat]
Nothing == [o \in Orders |-> 0]

\* A raw private payload.  `last` is the quantity of the trade it reports (0
\* when it reports none), `held` the account it describes.
Payload ==
    {p \in [kind : {"execution", "account", "terminated"},
            wellFormed : BOOLEAN,
            order : Orders \cup {NoOrder},
            status : VenueStatus,
            cum : Nat, last : Nat, held : Quantities] :
        p.kind = "execution" => p.order \in Orders}

ExecutionReport(o, status, cum, last) ==
    [kind |-> "execution", wellFormed |-> TRUE, order |-> o,
     status |-> status, cum |-> cum, last |-> last, held |-> Nothing]

Notice(kind, held) ==
    [kind |-> kind, wellFormed |-> TRUE, order |-> NoOrder,
     status |-> "absent", cum |-> 0, last |-> 0, held |-> held]

Terminated == Notice("terminated", Nothing)

\* A lookup result: the id of the order that was asked for, and the answer.
Answer == [id : {"client", "exchange"}, found : BOOLEAN,
           status : VenueStatus, filled : Nat]
NotFound ==
    [id |-> "exchange", found |-> FALSE, status |-> "absent", filled |-> 0]
NoAnswers == [o \in Orders |-> <<>>]

\* A fill id: a trade is named by the order and the cumulative quantity it
\* reaches (the trade id), the fill a lookup recovers by the order alone.
FillId == Orders \X {"trade", "recovered"} \X Nat
TradeId(o, cum) == <<o, "trade", cum>>
RecoveredId(o) == <<o, "recovered", 0>>

Executed == [o \in Orders |-> venue[o].filled]

-----------------------------------------------------------------------------
(* Classification of the polled payload against the awaited orders.        *)

\* The order ids that events_for_reconciliation keeps of the batch.
Seen == IF payload.kind = "execution" THEN {payload.order} ELSE {}

Matched == awaited \cap Seen
Missing == awaited \ Seen
Unknown == Seen \ awaited
Queried == Missing \cup Unknown
Observed == Matched \cup Queried

-----------------------------------------------------------------------------
(* Order states of the coordinator.                                        *)

OrderState == [known : BOOLEAN, status : OrderStatus, requested : Nat,
               filled : Nat, remaining : Int, recon : ReconciliationState]

\* _make_order_state: UNKNOWN instrument and zero quantities.
Blank(status, recon) ==
    [known |-> FALSE, status |-> status, requested |-> 0, filled |-> 0,
     remaining |-> 0, recon |-> recon]

TerminalAttempts(o) ==
    {i \in DOMAIN answers[o] :
        answers[o][i].found /\ answers[o][i].status \in TerminalStatus}

LatestTerminal(o) ==
    answers[o][CHOOSE i \in TerminalAttempts(o) :
                  \A j \in TerminalAttempts(o) : j <= i]

LatestAnswer(o) == answers[o][Len(answers[o])]

\* The results are filed under the id asked for.  Once the client id of an
\* order has failed only its exchange id is asked for, so the id asked for
\* last is the one whose state comes last.
LatestAttempts(o) ==
    {i \in DOMAIN answers[o] : answers[o][i].id = LatestAnswer(o).id}

FoundFinished(o) == TerminalAttempts(o) \cap LatestAttempts(o) # {}

\* The state a matched, an unknown and a missing order start the pass with.
OpeningState(o) ==
    CASE o \in Matched -> Blank("acknowledged", "submit_sent")
      [] o \in Unknown -> Blank("recovering", "unknown_execution")
      [] OTHER         -> Blank("recovering", "status_query_pending")

\* The state the lookups of an order end in: a terminal answer wins even when
\* a later attempt under the same id failed, an order found open keeps
\* recovering, and one that was never found is handed to an operator after
\* MaxAttempts attempts.
LookupState(o) ==
    IF FoundFinished(o) THEN
        LET a == LatestTerminal(o)
        IN [known |-> TRUE, status |-> a.status, requested |-> Req[o],
            filled |-> a.filled, remaining |-> Req[o] - a.filled,
            recon |-> "recovered_terminal_state"]
    ELSE IF /\ ~LatestAnswer(o).found
            /\ Cardinality(LatestAttempts(o)) >= MaxAttempts
        THEN Blank("unreconciled", "manual_attention")
        ELSE Blank("recovering", "status_query_pending")

\* The last state the workflow reports for an order, which is what the
\* snapshot keeps.
WorkflowState(o) == IF o \in Queried THEN LookupState(o) ELSE OpeningState(o)

\* Mutant: an order left to the operator is no longer looked after.
IsPendingOmitsUnreconciled(s) == s.status = "recovering"

IsPending(s) ==
    \/ s.status \in {"recovering", "unreconciled"}
    \/ s.recon \in {"unknown_execution", "status_query_pending",
                    "manual_attention"}

-----------------------------------------------------------------------------
(* The gate's merged order states.                                         *)

\* translate_order_execution_update
TranslatedState ==
    [known |-> TRUE, status |-> payload.status,
     requested |-> Req[payload.order], filled |-> payload.cum,
     remaining |-> Req[payload.order] - payload.cum, recon |-> "none"]

\* One step of _merge_order_states.
Merge(existing, state) ==
    LET preferReconciled == ~existing.known \/ existing.requested = 0
        richer == \/ state.filled > existing.filled
                  \/ state.remaining < existing.remaining
                  \/ /\ state.status \in TerminalStatus
                     /\ existing.status \notin TerminalStatus
        quantities == IF preferReconciled \/ richer THEN state ELSE existing
    IN [known |-> IF preferReconciled THEN state.known ELSE existing.known,
        status |-> IF state.recon = "submit_sent" THEN existing.status
                   ELSE state.status,
        requested |-> quantities.requested,
        filled |-> quantities.filled,
        remaining |-> quantities.remaining,
        recon |-> state.recon]

\* The states of an order in turn.  A state filed under the client id is always
\* of a finished order, and so is the state under the exchange id that follows
\* it, or else that one decides that the order is pending.
MergedState(o) ==
    LET opened == IF o \in Seen THEN Merge(TranslatedState, OpeningState(o))
                  ELSE OpeningState(o)
    IN IF o \in Queried THEN Merge(opened, LookupState(o)) ELSE opened

-----------------------------------------------------------------------------
(* The fills of the pass and what the portfolio translator makes of them.  *)

HasTrade(o) == o \in Seen /\ payload.last > 0

HasRecovered(o) ==
    /\ o \in Queried
    /\ TerminalAttempts(o) # {}
    /\ LatestTerminal(o).status = "filled"

PassFillIds ==
    {TradeId(o, payload.cum) : o \in {x \in Orders : HasTrade(x)}}
      \cup {RecoveredId(o) : o \in {x \in Orders : HasRecovered(x)}}

FreshTrade(o) == HasTrade(o) /\ TradeId(o, payload.cum) \notin appliedIds
FreshRecovered(o) == HasRecovered(o) /\ RecoveredId(o) \notin appliedIds
HasFresh(o) == FreshTrade(o) \/ FreshRecovered(o)

\* A trade whose order was already credited through a recovered fill.
Superseded(o) ==
    /\ FreshTrade(o) /\ ~FreshRecovered(o)
    /\ MergedState(o).status = "filled"
    /\ RecoveredId(o) \in appliedIds
    /\ payload.last <= MergedState(o).filled

\* When a trade and a recovered fill of one order meet, the trade is used.
TradePreferred(o) ==
    FreshTrade(o) /\ FreshRecovered(o) /\ payload.last <= MergedState(o).filled

EffectiveIds(o) ==
    (IF FreshTrade(o) THEN {TradeId(o, payload.cum)} ELSE {}) \cup
    (IF FreshRecovered(o) /\ ~TradePreferred(o) THEN {RecoveredId(o)} ELSE {})

EffectiveQuantity(o) ==
    (IF FreshTrade(o) THEN payload.last ELSE 0) +
    (IF FreshRecovered(o) /\ ~TradePreferred(o) THEN LatestTerminal(o).filled
     ELSE 0)

\* Mutant: the recovered fill that a trade displaced is not remembered.
IgnoredIdsForgetDisplaced ==
    (PassFillIds \cap appliedIds)
      \cup {TradeId(o, payload.cum) : o \in {x \in Observed : Superseded(x)}}

IgnoredIds ==
    (PassFillIds \cap appliedIds)
      \cup {TradeId(o, payload.cum) : o \in {x \in Observed : Superseded(x)}}
      \cup {RecoveredId(o) : o \in {x \in Observed : TradePreferred(x)}}

\* Mutant: when a trade and a recovered fill meet, both are dropped.
AggregatedOmitsPreferred ==
    {o \in Observed : HasFresh(o) /\ ~Superseded(o) /\ ~TradePreferred(o)}

Aggregated == {o \in Observed : HasFresh(o) /\ ~Superseded(o)}

\* Mutant: a fill that falls short of a filled order is not suspicious.
AmbiguousIdsAllowShortFill ==
    {o \in Aggregated :
        LET s == MergedState(o)
        IN \/ s.status \in {"recovering", "unreconciled"}
           \/ EffectiveQuantity(o) > s.filled
           \/ EffectiveQuantity(o) > s.requested}
      \cup
    {o \in Observed : /\ ~HasFresh(o)
                      /\ MergedState(o).status = "filled"
                      /\ MergedState(o).filled > 0}

AmbiguousIds ==
    {o \in Aggregated :
        LET s == MergedState(o)
        IN \/ s.status \in {"recovering", "unreconciled"}
           \/ EffectiveQuantity(o) > s.filled
           \/ EffectiveQuantity(o) > s.requested
           \/ EffectiveQuantity(o) < s.filled /\ s.status = "filled"}
      \cup
    {o \in Observed : /\ ~HasFresh(o)
                      /\ MergedState(o).status = "filled"
                      /\ MergedState(o).filled > 0}

PendingIds ==
    {o \in Aggregated : \/ EffectiveQuantity(o) < MergedState(o).filled
                        \/ MergedState(o).status = "partially_filled"}
      \cup
    {o \in Observed : ~HasFresh(o) /\ MergedState(o).status = "partially_filled"}

\* Mutant: a buy is booked with the sign of a sell.
TranslatedPortfolioWrongSign ==
    [o \in Orders |-> IF o \in Aggregated THEN credited[o] - EffectiveQuantity(o)
                      ELSE credited[o]]

TranslatedPortfolio ==
    [o \in Orders |-> IF o \in Aggregated THEN credited[o] + EffectiveQuantity(o)
                      ELSE credited[o]]

AppliedFillIds == UNION {EffectiveIds(o) : o \in Aggregated}

\* The projected balance is compared with the last full account snapshot.
SnapshotAgrees ==
    payload.kind = "account" =>
        SumFunction(payload.held) = SumFunction(TranslatedPortfolio)

\* apply_with_details, in the order of its early returns.  Orders with a fill
\* count as confirmed whether the fill came by stream or by lookup; only the
\* caller's expected orders need a confirmation.
Confirmed == Seen \cup {o \in Orders : HasRecovered(o)}

Unconfirmed ==
    IF payload.kind = "terminated" THEN expected \ Confirmed ELSE {}

\* Mutant: only the orders of the polled payload are judged.
UnresolvedIdsOfPayload == {o \in Seen : IsPending(MergedState(o))}

UnresolvedIds == {o \in Observed : IsPending(MergedState(o))}

Refusal ==
    IF ~payload.wellFormed THEN "malformed"
    ELSE IF Unconfirmed # {} THEN "invalidated"
    ELSE IF UnresolvedIds # {} THEN "unresolved"
    ELSE IF CanSubmitOrders THEN "clock"
    ELSE "none"

-----------------------------------------------------------------------------
Init ==
    /\ venue = [o \in Orders |-> [status |-> "absent", filled |-> 0]]
    /\ stream = <<>>
    /\ phase = "idle"
    /\ payload = Notice("account", Nothing)
    /\ expected = {} /\ awaited = {} /\ round = 0
    /\ switched = {} /\ answers = NoAnswers
    /\ unresolved = {} /\ manual = {}
    /\ credited = Nothing /\ appliedIds = {} /\ blocked = 0
    /\ verdict = "none"

-----------------------------------------------------------------------------
(* The venue and the wire.  They move at any moment, whatever the phase.   *)

Push(p) == Len(stream) < MaxStream /\ stream' = Append(stream, p)

runtime == <<phase, pass, disk, loop>>

Place(o) ==
    /\ venue[o].status = "absent"
    /\ venue' = [venue EXCEPT ![o].status = "new"]
    /\ Push(ExecutionReport(o, "new", 0, 0))
    /\ UNCHANGED runtime

Execute(o, q) ==
    /\ venue[o].status \in {"new", "partially_filled"}
    /\ venue[o].filled + q <= Req[o]
    /\ LET cum == venue[o].filled + q
           status == IF cum = Req[o] THEN "filled" ELSE "partially_filled"
       IN /\ venue' = [venue EXCEPT ![o] = [status |-> status, filled |-> cum]]
          /\ Push(ExecutionReport(o, status, cum, q))
    /\ UNCHANGED runtime

Cancel(o) ==
    /\ "cancel" \in Faults
    /\ venue[o].status \in {"new", "partially_filled"}
    /\ venue' = [venue EXCEPT ![o].status = "canceled"]
    /\ Push(ExecutionReport(o, "canceled", venue[o].filled, 0))
    /\ UNCHANGED runtime

ReportAccount ==
    /\ Push(Notice("account", Executed))
    /\ UNCHANGED <<venue, runtime>>

\* The last polled payload arrives once more.
Redeliver ==
    /\ "duplicate" \in Faults
    /\ payload.kind = "execution"
    /\ Push(payload)
    /\ UNCHANGED <<venue, runtime>>

\* An order type or a field the payload translator does not accept.
Garble ==
    /\ "malformed" \in Faults
    /\ stream # <<>> /\ Head(stream).kind = "execution"
    /\ stream' = [stream EXCEPT ![1].wellFormed = FALSE]
    /\ UNCHANGED <<venue, runtime>>

\* The overdue watchdog replaces the connection: what it held is gone.
Reconnect ==
    /\ "reconnect" \in Faults
    /\ stream # <<>>
    /\ stream' = <<>>
    /\ UNCHANGED <<venue, runtime>>

\* A read fails: the connection is replaced and the poll reports it.
Terminate ==
    /\ "terminate" \in Faults
    /\ stream # <<Terminated>>
    /\ stream' = <<Terminated>>
    /\ UNCHANGED <<venue, runtime>>

-----------------------------------------------------------------------------
(* One cycle of the runtime.                                               *)

\* poll_private_payloads and the start of reconcile_with_transports.
Poll(e) ==
    /\ phase = "idle" /\ stream # <<>>
    /\ payload' = Head(stream) /\ stream' = Tail(stream)
    /\ expected' = e
    /\ awaited' = IF UseStore THEN e \cup unresolved ELSE e
    /\ round' = 1 /\ switched' = {} /\ answers' = NoAnswers
    /\ phase' = "lookup"
    /\ UNCHANGED <<venue, disk, loop>>

\* What the venue says of an order at this moment.
VenueAnswer(o, id) ==
    [id |-> id, found |-> TRUE, status |-> venue[o].status,
     filled |-> venue[o].filled]

ToAsk == {o \in Queried : Len(answers[o]) < round}

\* An unexpected order is known by the client id of its payload first.
AsksByClientId(o) == o \in Unknown /\ o \notin switched

\* One signed REST query.  By client id it counts when it finds the order
\* finished; otherwise the exchange id is asked for at once, and from now on.
LookupByClientId(o) ==
    /\ phase = "lookup" /\ o \in ToAsk /\ AsksByClientId(o)
    /\ \/ /\ venue[o].status \in TerminalStatus
          /\ answers' = [answers EXCEPT ![o] = Append(@, VenueAnswer(o, "client"))]
          /\ UNCHANGED switched
       \/ /\ venue[o].status \notin TerminalStatus \/ "miss" \in Faults
          /\ switched' = switched \cup {o}
          /\ UNCHANGED answers
    /\ UNCHANGED <<environment, phase, payload, expected, awaited, round,
                   disk, loop>>

\* By exchange id every answer counts, or that there was none.
LookupByExchangeId(o) ==
    /\ phase = "lookup" /\ o \in ToAsk /\ ~AsksByClientId(o)
    /\ \/ /\ venue[o].status # "absent"
          /\ answers' = [answers EXCEPT ![o] = Append(@, VenueAnswer(o, "exchange"))]
       \/ /\ venue[o].status = "absent" \/ "miss" \in Faults
          /\ answers' = [answers EXCEPT ![o] = Append(@, NotFound)]
    /\ UNCHANGED <<environment, phase, payload, expected, awaited, round,
                   switched, disk, loop>>

RoundDone == \A o \in Queried : Len(answers[o]) = round

\* Every latest answer is terminal, or the rounds are used up.
LookupsOver ==
    \/ round = MaxRounds
    \/ \A o \in Queried :
          LatestAnswer(o).found /\ LatestAnswer(o).status \in TerminalStatus

\* Mutant: a further round starts the pass's rounds all over.
NextRoundStartsOver ==
    /\ phase = "lookup" /\ RoundDone /\ ~LookupsOver
    /\ round' = 1 /\ answers' = NoAnswers
    /\ UNCHANGED <<environment, phase, payload, expected, awaited, switched,
                   disk, loop>>

NextRound ==
    /\ phase = "lookup" /\ RoundDone /\ ~LookupsOver
    /\ round' = round + 1
    /\ UNCHANGED <<environment, phase, payload, expected, awaited, switched,
                   answers, disk, loop>>

EndLookups ==
    /\ phase = "lookup" /\ RoundDone /\ LookupsOver
    /\ phase' = IF UseStore THEN "persist" ELSE "gate"
    /\ UNCHANGED <<environment, pass, disk, loop>>

\* persist_workflow_state: before the gate has decided anything.
Persist ==
    /\ phase = "persist"
    /\ unresolved' = (unresolved \ Observed)
                       \cup {o \in Observed : IsPending(WorkflowState(o))}
    /\ manual' = (manual \ Observed)
                   \cup {o \in Observed :
                            WorkflowState(o).recon = "manual_attention"}
    /\ phase' = "gate"
    /\ UNCHANGED <<environment, pass, loop>>

\* The reconciliation component of exchange health is FATAL.
ManualAttention ==
    \/ manual # {}
    \/ \E o \in Queried : LookupState(o).recon = "manual_attention"

\* The end of run_cycle and of the loop body around it.  The soak carries the
\* ignored fill ids too, counts blocked mutations and stops on its criteria;
\* the failure-injection campaign only carries the applied ids.
EndPass(v, portfolio, applied, ignored) ==
    /\ verdict' = v
    /\ credited' = portfolio
    /\ appliedIds' = appliedIds \cup applied \cup (IF Soak THEN ignored ELSE {})
    /\ blocked' = IF Soak /\ v \in BlockedVerdicts THEN blocked + 1 ELSE blocked
    /\ phase' = IF Soak /\ (ManualAttention \/ blocked' >= MaxBlocked)
                THEN "stopped" ELSE "idle"
    /\ expected' = {} /\ awaited' = {} /\ round' = 0
    /\ switched' = {} /\ answers' = NoAnswers
    /\ UNCHANGED <<environment, payload, disk>>

\* An early return of the gate: nothing is applied and nothing is ignored.
RefuseMutation ==
    /\ phase = "gate" /\ Refusal # "none"
    /\ EndPass(Refusal, credited, {}, {})

\* The translator asks for a review.
ReviewFills ==
    /\ phase = "gate" /\ Refusal = "none"
    /\ AmbiguousIds # {}
    /\ EndPass("ambiguous", credited, {}, IgnoredIds)

ReviewSnapshot ==
    /\ phase = "gate" /\ Refusal = "none"
    /\ AmbiguousIds = {} /\ ~SnapshotAgrees
    /\ EndPass("snapshot", credited, {}, IgnoredIds)

ApplyMutation ==
    /\ phase = "gate" /\ Refusal = "none"
    /\ AmbiguousIds = {} /\ SnapshotAgrees
    /\ EndPass(IF PendingIds = {} THEN "applied" ELSE "applied_with_pending",
               TranslatedPortfolio, AppliedFillIds, IgnoredIds)

\* The process dies in any phase and is started again: the snapshot file
\* survives, the loop starts empty on a portfolio bootstrapped from the
\* account, and the new subscription carries nothing of the old one.
Restart ==
    /\ "crash" \in Faults
    /\ stream' = <<>> /\ phase' = "idle"
    /\ payload' = Notice("account", Nothing)
    /\ expected' = {} /\ awaited' = {} /\ round' = 0
    /\ switched' = {} /\ answers' = NoAnswers
    /\ credited' = Executed /\ appliedIds' = {} /\ blocked' = 0
    /\ verdict' = "none"
    /\ UNCHANGED <<venue, disk>>

-----------------------------------------------------------------------------
Environment ==
    \/ \E o \in Orders : Place(o) \/ Cancel(o)
    \/ \E o \in Orders : \E q \in 1 .. Req[o] : Execute(o, q)
    \/ ReportAccount \/ Redeliver \/ Garble \/ Reconnect \/ Terminate

Cycle ==
    \/ \E e \in ExpectedChoices : Poll(e)
    \/ \E o \in Orders : LookupByClientId(o) \/ LookupByExchangeId(o)
    \/ NextRound \/ EndLookups \/ Persist
    \/ RefuseMutation \/ ReviewFills \/ ReviewSnapshot \/ ApplyMutation

Next == Environment \/ Cycle \/ Restart

Spec == Init /\ [][Next]_vars

\* The cycle loop is one thread that polls again and again; a query returns
\* or raises.  Nothing is assumed of the venue.
FairSpec == Spec /\ WF_vars(Cycle)

-----------------------------------------------------------------------------
(* Properties.                                                             *)

\* Every variable keeps its shape (the dataclasses the code builds).
TypeOK ==
    /\ venue \in [Orders -> [status : VenueStatus, filled : Nat]]
    /\ stream \in Seq(Payload)
    /\ phase \in Phases
    /\ payload \in Payload
    /\ expected \subseteq Orders /\ awaited \subseteq Orders
    /\ round \in Nat /\ switched \subseteq Orders
    /\ answers \in [Orders -> Seq(Answer)]
    /\ unresolved \subseteq Orders /\ manual \subseteq Orders
    /\ credited \in Quantities
    /\ appliedIds \subseteq FillId
    /\ blocked \in Nat
    /\ verdict \in Verdicts

\* The snapshot never hands an order to the operator while forgetting to
\* resume it: every manual-attention order is also an unresolved one, so the
\* next pass looks it up again (persist_workflow_state keeps two sets, the
\* resume reads only one of them).
ManualAttentionIsUnresolved == manual \subseteq unresolved

\* No execution is counted twice: the portfolio never holds more of an order
\* than the venue executed, whatever is lost, repeated, late or restarted
\* (LivePortfolioTranslator: "only apply fills that are known,
\* non-duplicated").
NoDoubleCredit == \A o \in Orders : credited[o] <= venue[o].filled

\* A pass that reports APPLIED for the payload that ended an order of a single
\* trade (the payload's trade is all it has executed) leaves the portfolio
\* holding exactly what the payload says was executed, whatever is missed,
\* repeated or restarted: no execution is dropped behind a successful verdict.
\* (Of an order of two trades it may be: a recovered fill that was displaced
\* by a partial trade is remembered like an applied one.)
WholeTradeIsCredited ==
    /\ verdict = "applied" /\ phase = "idle"
    /\ payload.kind = "execution" /\ payload.status \in TerminalStatus
    /\ payload.last = payload.cum
    => credited[payload.order] = payload.cum

\* The gate and the snapshot judge an order twice, by different merges of its
\* states.  Whenever a pass changes the portfolio (a restart, which reports no
\* verdict, is not a pass), the snapshot it has just written holds no
\* unresolved order at all.
NoMutationWhileUnresolved ==
    [][credited' # credited /\ verdict' # "none" => unresolved = {}]_vars

\* After an invalidation of the stream nothing of an order the caller expects
\* is credited by that pass: REST recovery alone does not authorize mutation.
InvalidationHoldsMutation ==
    [][phase = "gate" /\ payload.kind = "terminated" /\ verdict' # "none" =>
          \A o \in expected : credited'[o] = credited[o]]_vars

\* A pass always comes to an end, however often lookups fail.
PassEnds ==
    phase \in {"lookup", "persist", "gate"} ~> phase \in {"idle", "stopped"}

\* What the venue filled reaches the portfolio, or the loop has stopped for an
\* operator to look.
FilledIsCredited ==
    \A o \in Orders :
        venue[o].status = "filled"
            ~> credited[o] = venue[o].filled \/ phase = "stopped"

\* The pass implements the ledger: an order is decided about when one of its
\* fill ids is remembered, and then it is taken over whole or not at all.
Decided == {o \in Orders : \E id \in appliedIds : id[1] = o}
Ledger == INSTANCE FillLedger WITH executed <- Executed, decided <- Decided
LedgerSpec == Ledger!LedgerSpec
=============================================================================
