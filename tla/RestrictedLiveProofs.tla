------------------------ MODULE RestrictedLiveProofs ------------------------
(***************************************************************************)
(* Theorems about RestrictedLive, for every set of orders, every wiring of *)
(* the gate and every combination of faults; and what the soak's portfolio *)
(* owes to the account, for orders executed in any number of trades and    *)
(* any limits.                                                             *)
(***************************************************************************)
EXTENDS RestrictedLive, FiniteSetTheorems, SequenceTheorems,
        WellFoundedInduction, TLAPS

USE OrdersAssumption, ReqAssumption, CallerAssumption, WiringAssumption,
    LimitAssumption

-----------------------------------------------------------------------------
(* The payloads that the environment puts on the wire.                     *)

\* Notices and execution reports built from well-typed parts are payloads.
LEMMA PayloadShapes ==
    /\ \A held \in Quantities :
          /\ Notice("account", held) \in Payload
          /\ Notice("terminated", held) \in Payload
    /\ Nothing \in Quantities
    /\ NoAnswers \in [Orders -> Seq(Answer)]
    /\ NotFound \in Answer
    /\ \A o \in Orders, status \in VenueStatus, cum \in Nat, last \in Nat :
          ExecutionReport(o, status, cum, last) \in Payload
<1>1. Nothing \in Quantities
  BY DEF Nothing, Quantities
<1>2. NoAnswers \in [Orders -> Seq(Answer)]
  BY EmptySeq DEF NoAnswers
<1>3. QED
  BY <1>1, <1>2 DEF Notice, ExecutionReport, Payload, NotFound, Answer, VenueStatus

\* Pushing a payload keeps the wire a sequence of payloads.
LEMMA PushType ==
    ASSUME NEW p \in Payload, stream \in Seq(Payload), Push(p)
    PROVE  stream' \in Seq(Payload)
BY AppendProperties DEF Push

\* The last terminal attempt of an order exists as soon as one attempt was
\* terminal, and it is one of the answers.
LEMMA LatestTerminalType ==
    ASSUME NEW o \in Orders, answers \in [Orders -> Seq(Answer)],
           TerminalAttempts(o) # {}
    PROVE  /\ LatestTerminal(o) \in Answer
           /\ LatestTerminal(o).status \in TerminalStatus
           /\ \E i \in TerminalAttempts(o) : LatestTerminal(o) = answers[o][i]
<1> DEFINE T == TerminalAttempts(o)
           n == Len(answers[o])
           Distances == {n - i : i \in T}
<1>1. answers[o] \in Seq(Answer) /\ n \in Nat /\ DOMAIN answers[o] = 1 .. n
  BY LenProperties
<1>2. T \subseteq 1 .. n
  BY <1>1 DEF TerminalAttempts
<1>3. Distances \subseteq Nat /\ Distances # {}
  BY <1>1, <1>2
<1> DEFINE R == OpToRel(<, Nat)
<1>4. \A x, y \in Nat : x < y => <<x, y>> \in R
  BY Zenon DEF OpToRel
<1>5. PICK d \in Distances : \A e \in Distances : ~ (<<e, d>> \in R)
  <2>1. IsWellFoundedOn(R, Nat)
    BY NatLessThanWellFounded, Zenon
  <2> HIDE DEF Distances, R
  <2> QED BY Zenon, <1>3, <2>1, WFMin
<1> HIDE DEF R
<1>6. PICK i \in T : d = n - i
  BY DEF Distances
<1>7. \A j \in T : j <= i
  <2> SUFFICES ASSUME NEW j \in T PROVE j <= i
    OBVIOUS
  <2>1. n - j \in Distances /\ n - j \in Nat /\ d \in Nat
    BY <1>3
  <2>2. ~ (n - j < d)
    BY <1>4, <1>5, <2>1
  <2> QED BY <1>1, <1>2, <1>6, <2>1, <2>2
<1> DEFINE k == CHOOSE x \in T : \A j \in T : j <= x
<1>8. k \in T
  BY <1>7
<1>9. answers[o][k] \in Answer
  BY <1>1, <1>2, <1>8, ElementOfSeq
<1>10. LatestTerminal(o) = answers[o][k]
  BY DEF LatestTerminal
<1>11. answers[o][k].status \in TerminalStatus
  BY <1>8 DEF TerminalAttempts
<1> QED BY <1>8, <1>9, <1>10, <1>11

\* What a pass observes are orders, and what the portfolio translator makes of
\* the pass keeps the shapes of the portfolio and of the fill ids.
LEMMA TranslationType ==
    ASSUME TypeOK
    PROVE  /\ TranslatedPortfolio \in Quantities
           /\ AppliedFillIds \subseteq FillId
           /\ IgnoredIds \subseteq FillId
<1>1. Seen \subseteq Orders
  BY DEF Seen, TypeOK, Payload
<1>2. Observed \subseteq Orders
  BY <1>1 DEF Observed, Matched, Queried, Missing, Unknown, TypeOK
<1>3. payload.cum \in Nat /\ payload.last \in Nat
  BY DEF TypeOK, Payload
<1>4. \A o \in Orders : TradeId(o, payload.cum) \in FillId /\ RecoveredId(o) \in FillId
  BY <1>3 DEF TradeId, RecoveredId, FillId
<1>5. ASSUME NEW o \in Orders PROVE EffectiveQuantity(o) \in Nat
  <2>1. CASE TerminalAttempts(o) = {}
    BY <1>3, <2>1 DEF EffectiveQuantity, FreshRecovered, HasRecovered
  <2>2. CASE TerminalAttempts(o) # {}
    <3>1. LatestTerminal(o).filled \in Nat
      BY <2>2, LatestTerminalType DEF TypeOK, Answer
    <3> QED BY <1>3, <3>1 DEF EffectiveQuantity
  <2> QED BY <2>1, <2>2
<1>6. TranslatedPortfolio \in Quantities
  BY <1>5 DEF TranslatedPortfolio, Quantities, TypeOK
<1>7. AppliedFillIds \subseteq FillId
  <2>1. Aggregated \subseteq Orders
    BY <1>2 DEF Aggregated
  <2> QED BY <1>4, <2>1 DEF AppliedFillIds, EffectiveIds
<1>8. IgnoredIds \subseteq FillId
  BY <1>2, <1>4 DEF IgnoredIds, TypeOK
<1> QED BY <1>6, <1>7, <1>8

\* A pass ends with shapes intact.
LEMMA EndPassType ==
    ASSUME TypeOK, NEW v \in Verdicts, NEW portfolio \in Quantities,
           NEW applied \in SUBSET FillId, NEW ignored \in SUBSET FillId,
           EndPass(v, portfolio, applied, ignored)
    PROVE  TypeOK'
<1>1. NoAnswers \in [Orders -> Seq(Answer)]
  BY PayloadShapes
<1>2. blocked' \in Nat
  BY DEF EndPass, TypeOK
<1>3. phase' \in Phases
  BY DEF EndPass, Phases
<1>4. appliedIds' \subseteq FillId
  BY DEF EndPass, TypeOK
<1> QED
  BY <1>1, <1>2, <1>3, <1>4 DEF EndPass, TypeOK, environment, disk

-----------------------------------------------------------------------------
(* Type correctness.                                                       *)

LEMMA InitType == Init => TypeOK
<1> SUFFICES ASSUME Init PROVE TypeOK
  OBVIOUS
<1>1. stream \in Seq(Payload)
  BY EmptySeq DEF Init
<1> QED
  BY <1>1, PayloadShapes DEF Init, TypeOK, VenueStatus, Phases, Verdicts

\* The venue and the wire keep the shapes.
LEMMA EnvironmentType == TypeOK /\ Environment => TypeOK'
<1> SUFFICES ASSUME TypeOK, Environment PROVE TypeOK'
  OBVIOUS
<1> USE DEF runtime, pass, disk, loop
<1>t. /\ venue \in [Orders -> [status : VenueStatus, filled : Nat]]
      /\ stream \in Seq(Payload) /\ payload \in Payload
  BY DEF TypeOK
<1>1. ASSUME NEW o \in Orders, Place(o) PROVE TypeOK'
  <2>1. venue' \in [Orders -> [status : VenueStatus, filled : Nat]]
    BY <1>1, <1>t DEF Place, VenueStatus
  <2>2. stream' \in Seq(Payload)
    BY <1>1, <1>t, PayloadShapes, PushType DEF Place, VenueStatus
  <2> QED BY <1>1, <2>1, <2>2 DEF Place, TypeOK
<1>2. ASSUME NEW o \in Orders, Cancel(o) PROVE TypeOK'
  <2>1. venue' \in [Orders -> [status : VenueStatus, filled : Nat]]
    BY <1>2, <1>t DEF Cancel, VenueStatus
  <2>2. ExecutionReport(o, "canceled", venue[o].filled, 0) \in Payload
    BY <1>t, PayloadShapes DEF VenueStatus
  <2>3. stream' \in Seq(Payload)
    BY <1>2, <1>t, <2>2, PushType DEF Cancel
  <2> QED BY <1>2, <2>1, <2>3 DEF Cancel, TypeOK
<1>3. ASSUME NEW o \in Orders, NEW q \in 1 .. Req[o], Execute(o, q) PROVE TypeOK'
  <2> DEFINE cum == venue[o].filled + q
             status == IF cum = Req[o] THEN "filled" ELSE "partially_filled"
  <2>1. q \in Nat /\ cum \in Nat /\ status \in VenueStatus
    BY <1>t DEF VenueStatus
  <2>2. venue' = [venue EXCEPT ![o] = [status |-> status, filled |-> cum]]
    BY <1>3 DEF Execute
  <2>3. Push(ExecutionReport(o, status, cum, q))
    BY <1>3 DEF Execute
  <2>4. UNCHANGED runtime
    BY <1>3 DEF Execute
  <2> HIDE DEF cum, status
  <2>5. venue' \in [Orders -> [status : VenueStatus, filled : Nat]]
    BY <1>t, <2>1, <2>2
  <2>6. stream' \in Seq(Payload)
    BY <1>t, <2>1, <2>3, PayloadShapes, PushType
  <2> QED BY <2>4, <2>5, <2>6 DEF TypeOK
<1>4. CASE ReportAccount
  <2>1. Executed \in Quantities
    BY <1>t DEF Executed, Quantities
  <2>2. stream' \in Seq(Payload)
    BY <1>4, <1>t, <2>1, PayloadShapes, PushType DEF ReportAccount
  <2> QED BY <1>4, <2>2 DEF ReportAccount, TypeOK
<1>5. CASE Redeliver
  <2>1. stream' \in Seq(Payload)
    BY <1>5, <1>t, PushType DEF Redeliver
  <2> QED BY <1>5, <2>1 DEF Redeliver, TypeOK
<1>6. CASE Garble
  <2>1. stream' = [stream EXCEPT ![1].wellFormed = FALSE] /\ stream # <<>>
    BY <1>6 DEF Garble
  <2>2. 1 \in DOMAIN stream /\ stream[1] \in Payload
    BY <1>t, <2>1, LenProperties, EmptySeq, ElementOfSeq
  <2>3. [stream[1] EXCEPT !.wellFormed = FALSE] \in Payload
    BY <2>2 DEF Payload
  <2>4. stream' = [stream EXCEPT ![1] = [stream[1] EXCEPT !.wellFormed = FALSE]]
    BY <2>1
  <2>5. stream' \in Seq(Payload)
    BY <1>t, <2>2, <2>3, <2>4, ExceptSeq
  <2> QED BY <1>6, <2>5 DEF Garble, TypeOK
<1>7. CASE Reconnect
  BY <1>7, EmptySeq DEF Reconnect, TypeOK
<1>8. CASE Terminate
  <2>1. stream' \in Seq(Payload)
    BY <1>8, PayloadShapes DEF Terminate, Terminated
  <2> QED BY <1>8, <2>1 DEF Terminate, TypeOK
<1> QED
  BY <1>1, <1>2, <1>3, <1>4, <1>5, <1>6, <1>7, <1>8 DEF Environment

\* The steps of a cycle keep the shapes.
LEMMA CycleType == TypeOK /\ Cycle => TypeOK'
<1> SUFFICES ASSUME TypeOK, Cycle PROVE TypeOK'
  OBVIOUS
<1> USE DEF environment, pass, disk, loop
<1>1. ASSUME NEW e \in ExpectedChoices, Poll(e) PROVE TypeOK'
  <2>1. stream \in Seq(Payload) /\ stream # <<>>
    BY <1>1 DEF Poll, TypeOK
  <2>2. Head(stream) \in Payload /\ Tail(stream) \in Seq(Payload)
    BY <2>1, HeadTailProperties
  <2>3. expected' \subseteq Orders /\ awaited' \subseteq Orders
    BY <1>1 DEF Poll, TypeOK
  <2> QED
    BY <1>1, <2>2, <2>3, PayloadShapes DEF Poll, TypeOK, Phases
<1>2. ASSUME NEW o \in Orders, LookupByClientId(o) \/ LookupByExchangeId(o)
      PROVE  TypeOK'
  <2>1. CASE answers' = answers
    <3>1. switched' \subseteq Orders
      BY <1>2, <2>1 DEF LookupByClientId, LookupByExchangeId, TypeOK
    <3> QED
      BY <1>2, <2>1, <3>1 DEF LookupByClientId, LookupByExchangeId, TypeOK
  <2>2. CASE answers' # answers
    <3>1. PICK a \in Answer : answers' = [answers EXCEPT ![o] = Append(@, a)]
      BY <1>2, <2>2, PayloadShapes
      DEF LookupByClientId, LookupByExchangeId, VenueAnswer, TypeOK, Answer
    <3>2. answers \in [Orders -> Seq(Answer)] /\ answers[o] \in Seq(Answer)
      BY DEF TypeOK
    <3>3. Append(answers[o], a) \in Seq(Answer)
      BY <3>2, AppendProperties
    <3>4. answers' \in [Orders -> Seq(Answer)]
      BY <3>1, <3>2, <3>3
    <3>5. switched' = switched
      BY <1>2, <2>2 DEF LookupByClientId, LookupByExchangeId
    <3> QED
      BY <1>2, <3>4, <3>5 DEF LookupByClientId, LookupByExchangeId, TypeOK
  <2> QED BY <2>1, <2>2
<1>3. CASE NextRound
  BY <1>3 DEF NextRound, TypeOK
<1>4. CASE EndLookups
  BY <1>4 DEF EndLookups, TypeOK, Phases
<1>5. CASE Persist
  <2>1. Observed \subseteq Orders
    BY DEF Observed, Matched, Queried, Missing, Unknown, Seen, TypeOK, Payload
  <2> QED BY <1>5, <2>1 DEF Persist, TypeOK, Phases
<1>6. CASE RefuseMutation
  <2>1. Refusal \in Verdicts /\ credited \in Quantities
    BY DEF Refusal, Verdicts, TypeOK
  <2> QED BY <1>6, <2>1, EndPassType DEF RefuseMutation
<1>7. CASE ReviewFills
  <2>1. credited \in Quantities /\ "ambiguous" \in Verdicts
    BY DEF TypeOK, Verdicts
  <2> QED BY <1>7, <2>1, TranslationType, EndPassType DEF ReviewFills
<1>8. CASE ReviewSnapshot
  <2>1. credited \in Quantities /\ "snapshot" \in Verdicts
    BY DEF TypeOK, Verdicts
  <2> QED BY <1>8, <2>1, TranslationType, EndPassType DEF ReviewSnapshot
<1>9. CASE ApplyMutation
  <2> DEFINE v == IF PendingIds = {} THEN "applied" ELSE "applied_with_pending"
  <2>1. v \in Verdicts
    BY DEF Verdicts
  <2>2. EndPass(v, TranslatedPortfolio, AppliedFillIds, IgnoredIds)
    BY <1>9 DEF ApplyMutation
  <2> HIDE DEF v
  <2> QED BY <2>1, <2>2, TranslationType, EndPassType
<1> QED
  BY <1>1, <1>2, <1>3, <1>4, <1>5, <1>6, <1>7, <1>8, <1>9 DEF Cycle

\* A restart begins with the shapes intact.
LEMMA RestartType == TypeOK /\ Restart => TypeOK'
<1> SUFFICES ASSUME TypeOK, Restart PROVE TypeOK'
  OBVIOUS
<1>1. Executed \in Quantities
  BY DEF Executed, Quantities, TypeOK
<1>2. stream' \in Seq(Payload)
  BY EmptySeq DEF Restart
<1> QED
  BY <1>1, <1>2, PayloadShapes DEF Restart, TypeOK, Phases, Verdicts, disk

\* Every reachable state has the shape the code's dataclasses prescribe, for
\* all orders, quantities, wirings and faults.
THEOREM TypeCorrect == Spec => []TypeOK
<1>1. TypeOK /\ [Next]_vars => TypeOK'
  <2>1. ASSUME TypeOK, UNCHANGED vars PROVE TypeOK'
    BY <2>1 DEF TypeOK, vars
  <2> QED
    BY <2>1, EnvironmentType, CycleType, RestartType DEF Next
<1> QED
  BY <1>1, InitType, PTL DEF Spec

-----------------------------------------------------------------------------
(* The snapshot file.                                                      *)

\* The operator's list is part of the resume list, for every number of
\* orders, rounds and attempts.
THEOREM ManualAttentionResumed == Spec => []ManualAttentionIsUnresolved
<1>1. Init => ManualAttentionIsUnresolved
  BY DEF Init, ManualAttentionIsUnresolved
<1>2. ManualAttentionIsUnresolved /\ [Next]_vars => ManualAttentionIsUnresolved'
  <2> SUFFICES ASSUME ManualAttentionIsUnresolved, [Next]_vars
               PROVE  ManualAttentionIsUnresolved'
    OBVIOUS
  <2>1. CASE Persist
    <3>1. \A o \in Observed :
             WorkflowState(o).recon = "manual_attention" => IsPending(WorkflowState(o))
      BY DEF IsPending
    <3> QED BY <2>1, <3>1 DEF Persist, ManualAttentionIsUnresolved
  <2>2. CASE UNCHANGED disk
    BY <2>2 DEF disk, ManualAttentionIsUnresolved
  <2>3. Persist \/ UNCHANGED disk
    <3> USE DEF disk
    <3>1. CASE Environment
      BY <3>1 DEF Environment, Place, Execute, Cancel, ReportAccount, Redeliver,
                  Garble, Reconnect, Terminate, runtime
    <3>2. CASE Cycle
      BY <3>2 DEF Cycle, Poll, LookupByClientId,
                  LookupByExchangeId, NextRound, EndLookups, RefuseMutation,
                  ReviewFills, ReviewSnapshot, ApplyMutation, EndPass
    <3>3. CASE Restart
      BY <3>3 DEF Restart
    <3>4. CASE UNCHANGED vars
      BY <3>4 DEF vars
    <3> QED BY <3>1, <3>2, <3>3, <3>4 DEF Next
  <2> QED BY <2>1, <2>2, <2>3
<1> QED
  BY <1>1, <1>2, PTL DEF Spec

\* What the snapshot file says of the pass in progress.  A resumed order is
\* awaited until the outcome is written; from then to the verdict the file
\* lists the pending orders of this very pass and no others.  Without a
\* store there is nothing to list.
SnapshotDescribesPass ==
    /\ ~UseStore => unresolved = {} /\ phase # "persist"
    /\ UseStore /\ phase \in {"lookup", "persist"} => unresolved \subseteq awaited
    /\ UseStore /\ phase = "gate" =>
          unresolved = {o \in Observed : IsPending(WorkflowState(o))}

\* The pending orders are a function of the payload, the awaited orders and
\* the answers.
LEMMA PendingUnchanged ==
    ASSUME UNCHANGED <<payload, awaited, answers>>
    PROVE  {o \in Observed : IsPending(WorkflowState(o))}'
             = {o \in Observed : IsPending(WorkflowState(o))}
<1>1. Observed' = Observed /\ Queried' = Queried /\ Matched' = Matched
      /\ Unknown' = Unknown
  BY DEF Observed, Queried, Matched, Missing, Unknown, Seen
<1>2. \A o : TerminalAttempts(o)' = TerminalAttempts(o)
  BY DEF TerminalAttempts
<1>3. \A o : LatestTerminal(o)' = LatestTerminal(o)
  BY <1>2 DEF LatestTerminal
<1>4. \A o : LookupState(o)' = LookupState(o)
  <2>1. \A o : /\ LatestAnswer(o)' = LatestAnswer(o)
               /\ LatestAttempts(o)' = LatestAttempts(o)
    BY DEF LatestAttempts, LatestAnswer
  <2>2. \A o : FoundFinished(o)' = FoundFinished(o)
    BY <1>2, <2>1 DEF FoundFinished
  <2> QED BY <1>3, <2>1, <2>2 DEF LookupState
<1>5. \A o : OpeningState(o)' = OpeningState(o)
  BY <1>1 DEF OpeningState
<1>6. \A o : WorkflowState(o)' = WorkflowState(o)
  BY <1>1, <1>4, <1>5 DEF WorkflowState
<1> QED
  BY <1>1, <1>6 DEF IsPending

\* What the workflow reports pending stays pending in the gate's merge of the
\* order's states: the merge keeps the reconciliation state of the lookup.
LEMMA PendingSurvivesMerge ==
    ASSUME TypeOK, NEW o \in Observed, IsPending(WorkflowState(o))
    PROVE  IsPending(MergedState(o))
<1>1. CASE o \in Queried
  <2>1. LookupState(o).recon \in {"status_query_pending", "manual_attention"}
    <3>1. CASE FoundFinished(o)
      <4>1. o \in Orders
        BY DEF Observed, Matched, Queried, Missing, Unknown, Seen, TypeOK, Payload
      <4>2. LatestTerminal(o).status \in {"filled", "canceled"}
        BY <3>1, <4>1, LatestTerminalType DEF FoundFinished, TypeOK, TerminalStatus
      <4>3. LookupState(o).status \in {"filled", "canceled"}
            /\ LookupState(o).recon = "recovered_terminal_state"
        BY <3>1, <4>2 DEF LookupState
      <4> QED BY <1>1, <4>3 DEF IsPending, WorkflowState
    <3>2. CASE ~ FoundFinished(o)
      BY <3>2 DEF LookupState, Blank
    <3> QED BY <3>1, <3>2
  <2>2. MergedState(o).recon = LookupState(o).recon
    BY <1>1 DEF MergedState, Merge
  <2> QED BY <2>1, <2>2 DEF IsPending
<1>2. CASE o \notin Queried
  <2>1. o \in Matched
    BY <1>2 DEF Observed
  <2>2. WorkflowState(o) = Blank("acknowledged", "submit_sent")
    <3>1. OpeningState(o) = Blank("acknowledged", "submit_sent")
      BY <2>1 DEF OpeningState, Matched, Unknown, Blank
    <3> QED BY <1>2, <3>1 DEF WorkflowState
  <2> QED BY <2>2 DEF IsPending, Blank
<1> QED BY <1>1, <1>2

LEMMA SnapshotInit == Init => SnapshotDescribesPass
BY DEF Init, SnapshotDescribesPass

LEMMA SnapshotStep ==
    TypeOK /\ SnapshotDescribesPass /\ [Next]_vars => SnapshotDescribesPass'
<1> SUFFICES ASSUME TypeOK, SnapshotDescribesPass, [Next]_vars
             PROVE  SnapshotDescribesPass'
  OBVIOUS
<1> USE DEF environment, pass, disk, loop
<1>1. ASSUME UNCHANGED <<phase, pass, disk>> PROVE SnapshotDescribesPass'
  BY <1>1, PendingUnchanged DEF SnapshotDescribesPass
<1>2. ASSUME UNCHANGED disk, phase' \in {"idle", "stopped"} PROVE SnapshotDescribesPass'
  BY <1>2 DEF SnapshotDescribesPass
<1>3. CASE Environment
  <2>1. UNCHANGED <<phase, pass, disk>>
    BY <1>3 DEF Environment, Place, Execute, Cancel, ReportAccount, Redeliver,
                Garble, Reconnect, Terminate, runtime
  <2> QED BY <1>1, <2>1
<1>4. ASSUME NEW e \in ExpectedChoices, Poll(e) PROVE SnapshotDescribesPass'
  BY <1>4 DEF Poll, SnapshotDescribesPass
<1>5. ASSUME NEW o \in Orders, LookupByClientId(o) \/ LookupByExchangeId(o)
      PROVE  SnapshotDescribesPass'
  BY <1>5 DEF LookupByClientId, LookupByExchangeId, SnapshotDescribesPass
<1>6. CASE NextRound
  BY <1>6 DEF NextRound, SnapshotDescribesPass
<1>7. CASE EndLookups
  BY <1>7 DEF EndLookups, SnapshotDescribesPass
<1>8. CASE Persist
  <2>1. UseStore /\ unresolved \subseteq awaited
    BY <1>8 DEF Persist, SnapshotDescribesPass
  <2>2. awaited \subseteq Observed
    BY DEF Observed, Queried, Matched, Missing
  <2>3. unresolved' = {o \in Observed : IsPending(WorkflowState(o))}
    BY <1>8, <2>1, <2>2 DEF Persist
  <2>4. UNCHANGED <<payload, awaited, answers>> /\ phase' = "gate"
    BY <1>8 DEF Persist
  <2> QED BY <2>1, <2>3, <2>4, PendingUnchanged DEF SnapshotDescribesPass
<1>9. CASE RefuseMutation \/ ReviewFills \/ ReviewSnapshot \/ ApplyMutation
  <2>1. UNCHANGED disk /\ phase' \in {"idle", "stopped"}
    BY <1>9 DEF RefuseMutation, ReviewFills, ReviewSnapshot, ApplyMutation, EndPass
  <2> QED BY <1>2, <2>1
<1>10. CASE Restart
  BY <1>2, <1>10 DEF Restart
<1>11. CASE UNCHANGED vars
  BY <1>1, <1>11 DEF vars
<1> QED
  BY <1>3, <1>4, <1>5, <1>6, <1>7, <1>8, <1>9, <1>10, <1>11 DEF Next, Cycle

\* From the invariant: a step that changes the portfolio is ApplyMutation, or
\* a restart; ApplyMutation finds no order pending in the gate's merge, hence
\* none in the snapshot.
LEMMA MutationStep ==
    ASSUME TypeOK, SnapshotDescribesPass, [Next]_vars,
           credited' # credited, verdict' # "none"
    PROVE  unresolved = {}
<1> USE DEF environment, pass, disk, loop
<1>1. ApplyMutation
  <2>1. ~ Environment
    BY DEF Environment, Place, Execute, Cancel, ReportAccount, Redeliver,
           Garble, Reconnect, Terminate, runtime
  <2>2. ~ Restart
    BY DEF Restart
  <2>3. ~ UNCHANGED vars
    BY DEF vars
  <2>4. Cycle
    BY <2>1, <2>2, <2>3 DEF Next
  <2> QED
    BY <2>4 DEF Cycle, Poll, LookupByClientId,
                  LookupByExchangeId, NextRound, EndLookups, Persist,
                RefuseMutation, ReviewFills, ReviewSnapshot, EndPass
<1>2. phase = "gate" /\ UnresolvedIds = {}
  BY <1>1 DEF ApplyMutation, Refusal
<1>3. \A o \in Observed : ~ IsPending(WorkflowState(o))
  BY <1>2, PendingSurvivesMerge DEF UnresolvedIds
<1> QED
  BY <1>2, <1>3, WiringAssumption DEF SnapshotDescribesPass

\* No pass changes the portfolio while the snapshot it has written holds an
\* unresolved order.
THEOREM MutationIsResolved == Spec => NoMutationWhileUnresolved
<1>1. Init => SnapshotDescribesPass
  BY SnapshotInit
<1>2. TypeOK /\ SnapshotDescribesPass /\ [Next]_vars => SnapshotDescribesPass'
  BY SnapshotStep
<1>3. TypeOK /\ SnapshotDescribesPass /\ [Next]_vars
        => [credited' # credited /\ verdict' # "none" => unresolved = {}]_vars
  BY MutationStep
<1> QED
  BY <1>1, <1>2, <1>3, TypeCorrect, PTL DEF Spec, NoMutationWhileUnresolved

-----------------------------------------------------------------------------
(* The ledger of the soak: the inductive invariant.                        *)

\* The gate of binance_restricted_live_soak.py has no state store, its runner
\* passes no expected orders, and its loop remembers ignored fill ids.  With
\* a store or with expected orders an order is asked for that the stream is
\* silent about, and its recovered fill can be credited on top of a trade.
SoakWiring == Soak /\ ~UseStore /\ ExpectedChoices = {{}}

\* What the reports say that are on the wire or being looked at.
Report(p) ==
    [order |-> p.order, status |-> p.status, cum |-> p.cum, last |-> p.last]
Alive == {stream[i] : i \in DOMAIN stream} \cup {payload}
Reports == {Report(p) : p \in {q \in Alive : q.kind = "execution"}}

VenueInv ==
    \A o \in Orders :
        LET v == venue[o]
        IN \/ v.status \in {"absent", "new"} /\ v.filled = 0
           \/ v.status = "partially_filled" /\ v.filled \in 1 .. Req[o] - 1
           \/ v.status = "canceled" /\ v.filled \in 0 .. Req[o] - 1
           \/ v.status = "filled" /\ v.filled = Req[o]

\* Only the order of the payload is ever asked for.
NobodyAwaited == expected = {} /\ awaited = {}

\* A terminal answer is still true when the pass comes to use it.
TerminalIsFinal ==
    \A o \in Orders : \A i \in TerminalAttempts(o) :
        /\ answers[o][i].status = venue[o].status
        /\ answers[o][i].filled = venue[o].filled

ReportsAreTrue ==
    \A r \in Reports :
        LET v == venue[r.order]
        IN /\ v.status # "absent" /\ r.cum <= v.filled /\ r.last <= r.cum
           /\ r.status = "filled" => r.cum = Req[r.order]
           /\ r.status = "canceled" =>
                v.status = "canceled" /\ r.cum = v.filled /\ r.last = 0

\* Two reports of trades of an order are of one trade, or one trade was over
\* before the other began.
TradesApart ==
    \A r, s \in Reports :
        r.order = s.order /\ r.last > 0 /\ s.last > 0 =>
            \/ r.cum = s.cum /\ r.last = s.last
            \/ r.cum <= s.cum - s.last
            \/ s.cum <= r.cum - r.last

\* An order decided about is never recovered again: the recovered fill is
\* remembered with the trade that displaced it, or there is none.
DecidedOnce ==
    \A o \in Orders :
        /\ RecoveredId(o) \in appliedIds => venue[o].status = "filled"
        /\ o \in Decided =>
             RecoveredId(o) \in appliedIds \/ venue[o].status = "canceled"

\* The units of an order the portfolio holds are units the venue executed, and
\* no trade that may still be credited is made of any of them.
Units(r) == r.cum - r.last + 1 .. r.cum

Creditable(r) ==
    /\ r.last > 0
    /\ TradeId(r.order, r.cum) \notin appliedIds
    /\ RecoveredId(r.order) \notin appliedIds

Holds(o, U) ==
    /\ Cardinality(U) = credited[o]
    /\ \A r \in Reports : r.order = o /\ Creditable(r) => U \cap Units(r) = {}

UnitsInv == \A o \in Orders : \E U \in SUBSET (1 .. venue[o].filled) : Holds(o, U)

\* A report of no trade, which brings a recovered fill alone, is about an
\* order that is not credited, or that nothing more is recovered of.
BareReports ==
    \A r \in Reports :
        r.last = 0 => \/ credited[r.order] = 0
                      \/ RecoveredId(r.order) \in appliedIds
                      \/ venue[r.order].status = "canceled"

\* An order executed in one trade that was decided about is credited.
WholeTrades ==
    \A r \in Reports :
        r.last = Req[r.order] /\ r.order \in Decided =>
            credited[r.order] = Req[r.order]

AppliedIsDecided ==
    /\ verdict = "applied" /\ phase = "idle"
    /\ payload.kind = "execution" /\ payload.last > 0
    => payload.order \in Decided

CreditInv ==
    /\ VenueInv /\ NobodyAwaited /\ TerminalIsFinal
    /\ ReportsAreTrue /\ TradesApart
    /\ DecidedOnce /\ UnitsInv /\ BareReports /\ WholeTrades
    /\ AppliedIsDecided

-----------------------------------------------------------------------------
(* What comes on the wire and what leaves it.                              *)

LEMMA ReportType ==
    ASSUME TypeOK
    PROVE  Reports \subseteq [order : Orders, status : VenueStatus,
                              cum : Nat, last : Nat]
<1>1. ASSUME NEW p \in Alive PROVE p \in Payload
  <2>1. \A i \in DOMAIN stream : stream[i] \in Payload
    BY LenProperties, ElementOfSeq DEF TypeOK
  <2> QED BY <2>1 DEF Alive, TypeOK
<1>2. ASSUME NEW p \in Payload, p.kind = "execution"
      PROVE  Report(p) \in [order : Orders, status : VenueStatus,
                            cum : Nat, last : Nat]
  BY <1>2 DEF Report, Payload
<1> QED BY <1>1, <1>2 DEF Reports

\* A report pushed on the wire is the only one that comes.
LEMMA PushedReport ==
    ASSUME TypeOK, NEW p \in Payload, Push(p), payload' = payload
    PROVE  Reports' \subseteq Reports \cup
                              (IF p.kind = "execution" THEN {Report(p)} ELSE {})
<1>1. ASSUME NEW i \in DOMAIN stream'
      PROVE  stream'[i] \in Alive \cup {p}
  <2>1. /\ Len(stream) \in Nat /\ DOMAIN stream = 1 .. Len(stream)
        /\ DOMAIN stream' = 1 .. Len(stream) + 1
        /\ stream'[Len(stream) + 1] = p
        /\ \A j \in 1 .. Len(stream) : stream'[j] = stream[j]
    BY LenProperties, AppendProperties DEF Push, TypeOK
  <2>2. i = Len(stream) + 1 \/ i \in 1 .. Len(stream)
    BY <2>1
  <2> QED BY <2>1, <2>2, Zenon DEF Alive
<1>2. Alive' \subseteq Alive \cup {p}
  <2>1. \A q \in Alive' : q = payload \/ \E i \in DOMAIN stream' : q = stream'[i]
    BY DEF Alive
  <2>2. payload \in Alive
    BY DEF Alive
  <2> QED BY <1>1, <2>1, <2>2
<1> QED BY <1>2 DEF Reports, Report

\* No report comes with any other step.
LEMMA NoNewReport ==
    ASSUME TypeOK,
           \/ ReportAccount \/ Redeliver \/ Garble \/ Reconnect \/ Terminate
           \/ Cycle \/ UNCHANGED vars
    PROVE  Reports' \subseteq Reports
<1>0. /\ Len(stream) \in Nat /\ DOMAIN stream = 1 .. Len(stream)
      /\ stream \in Seq(Payload) /\ payload \in Payload
  BY LenProperties DEF TypeOK
<1>1. CASE ReportAccount
  <2>1. Executed \in Quantities
    BY DEF Executed, Quantities, TypeOK
  <2>2. /\ Notice("account", Executed) \in Payload
        /\ Notice("account", Executed).kind # "execution"
    BY <2>1, PayloadShapes DEF Notice
  <2>3. Push(Notice("account", Executed)) /\ payload' = payload
    BY <1>1 DEF ReportAccount, runtime, pass
  <2> QED BY <2>2, <2>3, PushedReport
<1>2. CASE Redeliver
  <2>1. Push(payload) /\ payload' = payload /\ payload.kind = "execution"
    BY <1>2 DEF Redeliver, runtime, pass
  <2>2. Reports' \subseteq Reports \cup {Report(payload)}
    BY <1>0, <2>1, PushedReport
  <2>3. Report(payload) \in Reports
    BY <2>1 DEF Reports, Alive
  <2> QED BY <2>2, <2>3
<1>3. CASE Garble
  <2>1. /\ payload' = payload /\ 1 \in DOMAIN stream
        /\ stream' = [stream EXCEPT ![1].wellFormed = FALSE]
    BY <1>0, <1>3, EmptySeq DEF Garble, runtime, pass
  <2>2. /\ DOMAIN stream' = DOMAIN stream
        /\ stream'[1] = [stream[1] EXCEPT !.wellFormed = FALSE]
        /\ \A i \in DOMAIN stream : i # 1 => stream'[i] = stream[i]
    BY <2>1
  <2>3. stream[1] \in Payload
    BY <1>0, <2>1, ElementOfSeq
  <2>4. /\ stream'[1].kind = stream[1].kind
        /\ Report(stream'[1]) = Report(stream[1])
    BY <2>2, <2>3 DEF Payload, Report
  <2>5. ASSUME NEW q \in Alive', q.kind = "execution"
        PROVE  Report(q) \in Reports
    <3>1. CASE q = stream'[1]
      BY <2>1, <2>4, <2>5, <3>1 DEF Reports, Alive
    <3>2. CASE q # stream'[1]
      <4>1. q \in Alive
        BY <2>1, <2>2, <3>2 DEF Alive
      <4> QED BY <2>5, <4>1 DEF Reports
    <3> QED BY <3>1, <3>2
  <2>6. \A r \in Reports' : \E q \in Alive' : q.kind = "execution" /\ r = Report(q)
    BY DEF Reports, Report
  <2> QED BY <2>5, <2>6
<1>4. ASSUME Alive' \subseteq Alive \cup {Terminated} PROVE Reports' \subseteq Reports
  <2>1. Terminated.kind # "execution"
    BY DEF Terminated, Notice
  <2> QED BY <1>4, <2>1 DEF Reports, Report
<1>5. CASE Reconnect
  <2>1. stream' = <<>> /\ payload' = payload
    BY <1>5 DEF Reconnect, runtime, pass
  <2> QED BY <1>4, <2>1 DEF Alive
<1>6. CASE Terminate
  <2>1. stream' = <<Terminated>> /\ payload' = payload
    BY <1>6 DEF Terminate, runtime, pass
  <2>2. \A i \in DOMAIN stream' : stream'[i] = Terminated
    BY <2>1
  <2> QED BY <1>4, <2>1, <2>2 DEF Alive
<1>7. CASE \E e \in ExpectedChoices : Poll(e)
  <2>1. /\ stream # <<>> /\ payload' = Head(stream) /\ stream' = Tail(stream)
    BY <1>7 DEF Poll
  <2>2. /\ Head(stream) = stream[1] /\ 1 \in DOMAIN stream
        /\ Len(stream') = Len(stream) - 1 /\ DOMAIN stream' = 1 .. Len(stream')
        /\ \A i \in 1 .. Len(stream') : stream'[i] = stream[i + 1]
    BY <1>0, <2>1, HeadTailProperties, LenProperties, EmptySeq
  <2>3. \A i \in DOMAIN stream' : i + 1 \in DOMAIN stream
    BY <1>0, <2>2
  <2>4. Alive' \subseteq Alive
    <3>1. \A q \in Alive' : \/ q = Head(stream)
                            \/ \E i \in DOMAIN stream' : q = stream'[i]
      BY <2>1 DEF Alive
    <3>2. \A i \in DOMAIN stream : stream[i] \in Alive
      BY DEF Alive
    <3>3. \A i \in DOMAIN stream' : stream'[i] \in Alive
      BY <2>2, <2>3, <3>2, Zenon
    <3>4. Head(stream) \in Alive
      BY <2>2, <3>2
    <3>5. \A q \in Alive' : q \in Alive
      BY <3>1, <3>3, <3>4
    <3> QED BY <3>5
  <2> QED BY <1>4, <2>4
<1>8. CASE UNCHANGED <<stream, payload>>
  BY <1>4, <1>8 DEF Alive
<1>9. CASE \/ \E o \in Orders : LookupByClientId(o) \/ LookupByExchangeId(o)
           \/ NextRound \/ EndLookups \/ Persist
           \/ RefuseMutation \/ ReviewFills \/ ReviewSnapshot \/ ApplyMutation
           \/ UNCHANGED vars
  BY <1>8, <1>9
  DEF LookupByClientId, LookupByExchangeId, NextRound, EndLookups, Persist, RefuseMutation, ReviewFills,
      ReviewSnapshot, ApplyMutation, EndPass, vars, environment, pass
<1> QED BY <1>1, <1>2, <1>3, <1>5, <1>6, <1>7, <1>9 DEF Cycle

-----------------------------------------------------------------------------
(* The venue moves on.                                                     *)

\* An order that is not finished moves on, and one report tells of it.
LEMMA VenueStep ==
    ASSUME TypeOK, CreditInv, NEW o \in Orders,
           NEW v \in [status : VenueStatus, filled : Nat],
           NEW r \in [order : {o}, status : VenueStatus, cum : Nat, last : Nat],
           venue[o].status \in {"absent", "new", "partially_filled"},
           venue' = [venue EXCEPT ![o] = v], VenueInv',
           v.status # "absent", v.filled = venue[o].filled + r.last,
           r.cum = v.filled,
           r.status = "filled" => r.cum = Req[o],
           r.status = "canceled" => v.status = "canceled" /\ r.last = 0,
           r.last = 0 => venue[o].filled = 0 \/ v.status = "canceled",
           Reports' \subseteq Reports \cup {r}, UNCHANGED runtime
    PROVE  CreditInv'
<1>0. /\ phase' = phase /\ payload' = payload /\ answers' = answers
      /\ expected' = expected /\ awaited' = awaited /\ verdict' = verdict
      /\ credited' = credited /\ appliedIds' = appliedIds
  BY DEF runtime, pass, disk, loop
<1>1. /\ r.order = o /\ r.cum \in Nat /\ r.last \in Nat
      /\ venue[o].filled \in Nat
      /\ venue' \in [Orders -> [status : VenueStatus, filled : Nat]]
      /\ venue'[o] = v /\ \A x \in Orders \ {o} : venue'[x] = venue[x]
  BY DEF TypeOK
<1>2. Decided' = Decided
  BY <1>0 DEF Decided
<1>3. \A s \in Reports : s.order \in Orders /\ s.cum \in Nat /\ s.last \in Nat
  BY ReportType
<1>4. NobodyAwaited' /\ AppliedIsDecided'
  BY <1>0, <1>2 DEF CreditInv, NobodyAwaited, AppliedIsDecided
<1>5. TerminalIsFinal'
  <2>1. \A x \in Orders : TerminalAttempts(x)' = TerminalAttempts(x)
    BY <1>0 DEF TerminalAttempts
  <2>2. TerminalAttempts(o) = {}
    BY DEF CreditInv, TerminalIsFinal, TerminalAttempts, TerminalStatus
  <2> QED
    BY <1>0, <1>1, <2>1, <2>2 DEF CreditInv, TerminalIsFinal
<1>6. o \notin Decided /\ RecoveredId(o) \notin appliedIds
  BY DEF CreditInv, DecidedOnce
<1>7. ReportsAreTrue'
  <2>1. SUFFICES ASSUME NEW s \in Reports'
                 PROVE  LET w == venue'[s.order]
                        IN /\ w.status # "absent" /\ s.cum <= w.filled
                           /\ s.last <= s.cum
                           /\ s.status = "filled" => s.cum = Req[s.order]
                           /\ s.status = "canceled" =>
                                /\ w.status = "canceled" /\ s.cum = w.filled
                                /\ s.last = 0
    BY DEF ReportsAreTrue
  <2>2. CASE s = r
    BY <1>1, <2>2
  <2>3. CASE s \in Reports
    <3>1. /\ venue[s.order].status # "absent"
          /\ s.cum <= venue[s.order].filled /\ s.last <= s.cum
          /\ s.status = "filled" => s.cum = Req[s.order]
          /\ s.status = "canceled" =>
               /\ venue[s.order].status = "canceled"
               /\ s.cum = venue[s.order].filled /\ s.last = 0
      BY <2>3 DEF CreditInv, ReportsAreTrue
    <3>2. CASE s.order = o
      <4>1. s.cum <= venue[o].filled + r.last
        BY <1>1, <1>3, <2>3, <3>1, <3>2
      <4> QED BY <1>1, <3>1, <3>2, <4>1
    <3>3. CASE s.order # o
      BY <1>1, <1>3, <2>3, <3>1, <3>3
    <3> QED BY <3>2, <3>3
  <2> QED BY <2>2, <2>3
<1>8. \A s \in Reports : s.order = o => s.cum <= r.cum - r.last
  BY <1>1, <1>3 DEF CreditInv, ReportsAreTrue
<1>9. TradesApart'
  <2>1. SUFFICES ASSUME NEW a \in Reports', NEW b \in Reports',
                        a.order = b.order, a.last > 0, b.last > 0
                 PROVE  \/ a.cum = b.cum /\ a.last = b.last
                        \/ a.cum <= b.cum - b.last
                        \/ b.cum <= a.cum - a.last
    BY DEF TradesApart
  <2>2. CASE a \in Reports /\ b \in Reports
    BY <2>1, <2>2 DEF CreditInv, TradesApart
  <2>3. CASE a = r /\ b = r
    BY <2>3
  <2>4. CASE a = r /\ b \in Reports
    BY <1>1, <1>8, <2>1, <2>4
  <2>5. CASE a \in Reports /\ b = r
    BY <1>1, <1>8, <2>1, <2>5
  <2> QED BY <2>2, <2>3, <2>4, <2>5
<1>10. DecidedOnce'
  <2>1. SUFFICES ASSUME NEW x \in Orders
                 PROVE  /\ RecoveredId(x) \in appliedIds =>
                             venue'[x].status = "filled"
                        /\ x \in Decided =>
                             \/ RecoveredId(x) \in appliedIds
                             \/ venue'[x].status = "canceled"
    BY Zenon, <1>0, <1>2 DEF DecidedOnce, RecoveredId
  <2>2. CASE x = o
    BY <1>6, <2>2
  <2>3. CASE x # o
    BY <1>1, <2>3 DEF CreditInv, DecidedOnce
  <2> QED BY <2>2, <2>3
<1>11. UnitsInv'
  <2>1. ASSUME NEW x \in Orders
        PROVE  \E U \in SUBSET (1 .. venue'[x].filled) : Holds(x, U)'
    <3>1. PICK U \in SUBSET (1 .. venue[x].filled) : Holds(x, U)
      BY DEF CreditInv, UnitsInv
    <3>2. U \in SUBSET (1 .. venue'[x].filled)
      <4>1. venue[x].filled \in Nat /\ venue'[x].filled \in Nat
        BY <1>1 DEF TypeOK
      <4>2. venue[x].filled <= venue'[x].filled
        BY <1>1, <4>1
      <4> QED BY <4>1, <4>2
    <3>3. Holds(x, U)'
      <4>1. Cardinality(U) = credited'[x]
        BY <1>0, <3>1 DEF Holds
      <4>2. ASSUME NEW s \in Reports', s.order = x, Creditable(s)'
            PROVE  U \cap Units(s) = {}
        <5>1. CASE s \in Reports
          <6>1. Creditable(s)
            BY <1>0, <4>2 DEF Creditable, TradeId, RecoveredId
          <6> QED BY <3>1, <4>2, <5>1, <6>1 DEF Holds
        <5>2. CASE s = r
          <6>1. x = o /\ U \subseteq 1 .. venue[o].filled
            BY <1>1, <4>2, <5>2
          <6>2. r.cum - r.last = venue[o].filled
            BY <1>1
          <6>3. \A k \in 1 .. venue[o].filled :
                   ~ (k \in venue[o].filled + 1 .. r.cum)
            BY <1>1
          <6> QED BY <5>2, <6>1, <6>2, <6>3 DEF Units
        <5> QED BY <5>1, <5>2
      <4> QED BY <4>1, <4>2 DEF Holds, Units
    <3> QED BY <3>2, <3>3
  <2> QED BY <2>1 DEF UnitsInv
<1>12. BareReports'
  <2>1. SUFFICES ASSUME NEW s \in Reports', s.last = 0
                 PROVE  \/ credited[s.order] = 0
                        \/ RecoveredId(s.order) \in appliedIds
                        \/ venue'[s.order].status = "canceled"
    BY <1>0 DEF BareReports, RecoveredId
  <2>2. CASE s \in Reports
    <3>1. \/ credited[s.order] = 0
          \/ RecoveredId(s.order) \in appliedIds
          \/ venue[s.order].status = "canceled"
      BY <2>1, <2>2 DEF CreditInv, BareReports
    <3> QED BY <1>1, <1>3, <2>2, <3>1
  <2>3. CASE s = r
    <3>1. CASE venue[o].filled = 0
      <4>1. PICK U \in SUBSET (1 .. venue[o].filled) : Holds(o, U)
        BY DEF CreditInv, UnitsInv
      <4>2. U = {}
        BY <3>1, <4>1
      <4>3. credited[o] = 0
        BY <4>1, <4>2, FS_EmptySet DEF Holds
      <4> QED BY <1>1, <2>3, <4>3
    <3>2. CASE v.status = "canceled"
      BY <1>1, <2>3, <3>2
    <3> QED BY <2>1, <2>3, <3>1, <3>2
  <2> QED BY <2>2, <2>3
<1>13. WholeTrades'
  <2>1. SUFFICES ASSUME NEW s \in Reports', s.last = Req[s.order],
                        s.order \in Decided
                 PROVE  credited[s.order] = Req[s.order]
    BY <1>0, <1>2 DEF WholeTrades
  <2>2. CASE s \in Reports
    BY <2>1, <2>2 DEF CreditInv, WholeTrades
  <2>3. CASE s = r
    BY <1>1, <1>6, <2>1, <2>3
  <2> QED BY <2>2, <2>3
<1> QED
  BY <1>4, <1>5, <1>7, <1>9, <1>10, <1>11, <1>12, <1>13 DEF CreditInv

LEMMA PlaceStep ==
    ASSUME TypeOK, CreditInv, NEW o \in Orders, Place(o)
    PROVE  CreditInv'
<1> DEFINE v == [status |-> "new", filled |-> venue[o].filled]
           r == Report(ExecutionReport(o, "new", 0, 0))
<1>1. /\ venue \in [Orders -> [status : VenueStatus, filled : Nat]]
      /\ venue[o].status = "absent" /\ venue[o].filled = 0
  BY DEF Place, TypeOK, CreditInv, VenueInv
<1>2. /\ venue' = [venue EXCEPT ![o] = v] /\ UNCHANGED runtime
      /\ Push(ExecutionReport(o, "new", 0, 0)) /\ payload' = payload
  <2>1. venue[o] \in [status : VenueStatus, filled : Nat]
    BY <1>1
  <2>2. [venue[o] EXCEPT !.status = "new"] = v
    BY <2>1
  <2> HIDE DEF v
  <2> QED BY <1>1, <2>2 DEF Place, runtime, pass
<1>3. r = [order |-> o, status |-> "new", cum |-> 0, last |-> 0]
  BY DEF Report, ExecutionReport
<1>4. Reports' \subseteq Reports \cup {r}
  <2>1. /\ ExecutionReport(o, "new", 0, 0) \in Payload
        /\ ExecutionReport(o, "new", 0, 0).kind = "execution"
    BY PayloadShapes DEF VenueStatus, ExecutionReport
  <2> QED BY <1>2, <2>1, PushedReport
<1>5. VenueInv'
  <2>1. venue'[o] = v /\ \A x \in Orders \ {o} : venue'[x] = venue[x]
    BY <1>1, <1>2
  <2> QED BY <1>1, <2>1 DEF CreditInv, VenueInv
<1>6. v \in [status : VenueStatus, filled : Nat]
  BY <1>1 DEF VenueStatus
<1>7. r \in [order : {o}, status : VenueStatus, cum : Nat, last : Nat]
  BY <1>3 DEF VenueStatus
<1>8. /\ v.status # "absent" /\ v.filled = venue[o].filled + r.last
      /\ r.cum = v.filled /\ r.status = "new" /\ r.last = 0
  BY <1>1, <1>3
<1> HIDE DEF v, r
<1> QED BY <1>1, <1>2, <1>4, <1>5, <1>6, <1>7, <1>8, VenueStep

LEMMA ExecuteStep ==
    ASSUME TypeOK, CreditInv, NEW o \in Orders, NEW q \in 1 .. Req[o],
           Execute(o, q)
    PROVE  CreditInv'
<1> DEFINE cum == venue[o].filled + q
           status == IF cum = Req[o] THEN "filled" ELSE "partially_filled"
           v == [status |-> status, filled |-> cum]
           p == ExecutionReport(o, status, cum, q)
           r == Report(p)
<1>1. /\ venue \in [Orders -> [status : VenueStatus, filled : Nat]]
      /\ venue[o].status \in {"new", "partially_filled"}
      /\ venue[o].filled \in Nat /\ Req[o] \in Nat /\ q \in Nat /\ q > 0
      /\ cum \in Nat /\ cum <= Req[o]
  BY DEF Execute, TypeOK
<1>2. /\ venue' = [venue EXCEPT ![o] = v] /\ UNCHANGED runtime
      /\ Push(p) /\ payload' = payload
  BY DEF Execute, runtime, pass
<1>3. r = [order |-> o, status |-> status, cum |-> cum, last |-> q]
  BY DEF Report, ExecutionReport
<1>4. status \in VenueStatus
  BY DEF VenueStatus
<1>5. Reports' \subseteq Reports \cup {r}
  <2>1. p \in Payload /\ p.kind = "execution"
    BY <1>1, <1>4, PayloadShapes DEF ExecutionReport
  <2> HIDE DEF p
  <2> QED BY <1>2, <2>1, PushedReport
<1>6. VenueInv'
  <2>1. venue'[o] = v /\ \A x \in Orders \ {o} : venue'[x] = venue[x]
    BY <1>1, <1>2
  <2>2. \/ status = "filled" /\ cum = Req[o]
        \/ status = "partially_filled" /\ cum \in 1 .. Req[o] - 1
    BY <1>1
  <2>3. v.status = status /\ v.filled = cum
    OBVIOUS
  <2> HIDE DEF v, status, cum
  <2> QED BY <2>1, <2>2, <2>3 DEF CreditInv, VenueInv
<1>7. v \in [status : VenueStatus, filled : Nat]
  BY <1>1, <1>4
<1>8. r \in [order : {o}, status : VenueStatus, cum : Nat, last : Nat]
  BY <1>1, <1>3, <1>4
<1>9. /\ v.status # "absent" /\ v.filled = venue[o].filled + r.last
      /\ r.cum = v.filled
      /\ r.status = "filled" => r.cum = Req[o]
  BY <1>3
<1>10. r.status # "canceled" /\ r.last # 0
  BY <1>1, <1>3
<1> HIDE DEF v, r
<1> QED BY <1>1, <1>2, <1>5, <1>6, <1>7, <1>8, <1>9, <1>10, VenueStep

LEMMA CancelStep ==
    ASSUME TypeOK, CreditInv, NEW o \in Orders, Cancel(o)
    PROVE  CreditInv'
<1> DEFINE v == [status |-> "canceled", filled |-> venue[o].filled]
           p == ExecutionReport(o, "canceled", venue[o].filled, 0)
           r == Report(p)
<1>1. /\ venue \in [Orders -> [status : VenueStatus, filled : Nat]]
      /\ venue[o].status \in {"new", "partially_filled"}
      /\ venue[o].filled \in Nat
  BY DEF Cancel, TypeOK
<1>2. /\ venue' = [venue EXCEPT ![o] = v] /\ UNCHANGED runtime
      /\ Push(p) /\ payload' = payload
  <2>1. venue[o] \in [status : VenueStatus, filled : Nat]
    BY <1>1
  <2>2. [venue[o] EXCEPT !.status = "canceled"] = v
    BY <2>1
  <2> HIDE DEF v
  <2> QED BY <1>1, <2>2 DEF Cancel, runtime, pass
<1>3. r = [order |-> o, status |-> "canceled", cum |-> venue[o].filled,
           last |-> 0]
  BY DEF Report, ExecutionReport
<1>4. Reports' \subseteq Reports \cup {r}
  <2>1. p \in Payload /\ p.kind = "execution"
    BY <1>1, PayloadShapes DEF ExecutionReport, VenueStatus
  <2> HIDE DEF p
  <2> QED BY <1>2, <2>1, PushedReport
<1>5. VenueInv'
  <2>1. venue'[o] = v /\ \A x \in Orders \ {o} : venue'[x] = venue[x]
    BY <1>1, <1>2
  <2>2. venue[o].filled \in 0 .. Req[o] - 1
    BY <1>1 DEF CreditInv, VenueInv
  <2> QED BY <2>1, <2>2 DEF CreditInv, VenueInv
<1>6. v \in [status : VenueStatus, filled : Nat]
  BY <1>1 DEF VenueStatus
<1>7. r \in [order : {o}, status : VenueStatus, cum : Nat, last : Nat]
  BY <1>1, <1>3 DEF VenueStatus
<1>8. /\ v.status = "canceled" /\ v.filled = venue[o].filled + r.last
      /\ r.cum = v.filled /\ r.status = "canceled" /\ r.last = 0
  BY <1>1, <1>3
<1> HIDE DEF v, r
<1> QED BY <1>1, <1>2, <1>4, <1>5, <1>6, <1>7, <1>8, VenueStep

-----------------------------------------------------------------------------
(* Steps that credit nothing.                                              *)

\* The venue, the portfolio and the remembered ids stay, and no report comes.
LEMMA QuietStep ==
    ASSUME CreditInv, Reports' \subseteq Reports,
           UNCHANGED <<venue, credited, appliedIds>>,
           NobodyAwaited', TerminalIsFinal', AppliedIsDecided'
    PROVE  CreditInv'
<1>1. VenueInv' /\ Decided' = Decided
  BY DEF CreditInv, VenueInv, Decided
<1>2. ReportsAreTrue'
  BY DEF CreditInv, ReportsAreTrue
<1>3. TradesApart'
  BY DEF CreditInv, TradesApart
<1>4. DecidedOnce'
  BY Zenon, <1>1 DEF CreditInv, DecidedOnce, RecoveredId
<1>5. UnitsInv'
  <2>1. ASSUME NEW o \in Orders, NEW U, Holds(o, U) PROVE Holds(o, U)'
    BY <2>1 DEF Holds, Creditable, TradeId, RecoveredId, Units
  <2>2. ASSUME NEW o \in Orders
        PROVE  \E U \in SUBSET (1 .. venue'[o].filled) : Holds(o, U)'
    <3>1. PICK U \in SUBSET (1 .. venue[o].filled) : Holds(o, U)
      BY DEF CreditInv, UnitsInv
    <3> QED BY <2>1, <3>1
  <2> QED BY <2>2 DEF UnitsInv
<1>6. BareReports'
  BY DEF CreditInv, BareReports, RecoveredId
<1>7. WholeTrades'
  BY <1>1 DEF CreditInv, WholeTrades
<1> QED
  BY <1>1, <1>2, <1>3, <1>4, <1>5, <1>6, <1>7 DEF CreditInv

LEMMA EnvironmentStep ==
    ASSUME TypeOK, CreditInv, Environment
    PROVE  CreditInv'
<1>1. CASE \E o \in Orders : Place(o) \/ Cancel(o)
  BY <1>1, PlaceStep, CancelStep
<1>2. CASE \E o \in Orders : \E q \in 1 .. Req[o] : Execute(o, q)
  BY <1>2, ExecuteStep
<1>3. CASE ReportAccount \/ Redeliver \/ Garble \/ Reconnect \/ Terminate
  <2>1. /\ venue' = venue /\ UNCHANGED runtime
    BY <1>3 DEF ReportAccount, Redeliver, Garble, Reconnect, Terminate
  <2>2. /\ phase' = phase /\ payload' = payload /\ answers' = answers
        /\ expected' = expected /\ awaited' = awaited /\ verdict' = verdict
        /\ credited' = credited /\ appliedIds' = appliedIds
    BY <2>1 DEF runtime, pass, disk, loop
  <2>3. NobodyAwaited' /\ TerminalIsFinal' /\ AppliedIsDecided'
    BY <2>1, <2>2
    DEF CreditInv, NobodyAwaited, TerminalIsFinal, AppliedIsDecided,
        TerminalAttempts, Decided
  <2>4. Reports' \subseteq Reports
    BY <1>3, NoNewReport
  <2> QED BY <2>1, <2>2, <2>3, <2>4, QuietStep
<1> QED BY <1>1, <1>2, <1>3 DEF Environment

\* A lookup is answered with what the venue says at that moment.
LEMMA LookupStep ==
    ASSUME SoakWiring, TypeOK, CreditInv,
           \/ \E e \in ExpectedChoices : Poll(e)
           \/ \E o \in Orders : LookupByClientId(o) \/ LookupByExchangeId(o)
           \/ NextRound \/ EndLookups \/ Persist
    PROVE  CreditInv'
<1>0. Reports' \subseteq Reports
  BY NoNewReport DEF Cycle
<1>1. CASE \E e \in ExpectedChoices : Poll(e)
  <2>1. /\ expected' = {} /\ awaited' = {} /\ answers' = NoAnswers
        /\ phase' = "lookup" /\ venue' = venue
        /\ credited' = credited /\ appliedIds' = appliedIds
    BY <1>1 DEF Poll, SoakWiring, loop
  <2>2. \A o \in Orders : TerminalAttempts(o)' = {}
    BY <2>1 DEF TerminalAttempts, NoAnswers
  <2>3. NobodyAwaited' /\ TerminalIsFinal' /\ AppliedIsDecided'
    BY <2>1, <2>2 DEF NobodyAwaited, TerminalIsFinal, AppliedIsDecided
  <2> QED BY <1>0, <2>1, <2>3, QuietStep
<1>2. CASE /\ \E o \in Orders : LookupByClientId(o) \/ LookupByExchangeId(o)
           /\ answers' # answers
  <2>1. PICK o \in Orders : LookupByClientId(o) \/ LookupByExchangeId(o)
    BY <1>2
  <2>2. /\ expected' = expected /\ awaited' = awaited /\ phase' = "lookup"
        /\ venue' = venue /\ credited' = credited /\ appliedIds' = appliedIds
    BY <2>1 DEF LookupByClientId, LookupByExchangeId, loop, environment
  <2>3. PICK a \in Answer :
          /\ answers' = [answers EXCEPT ![o] = Append(@, a)]
          /\ a.found => a.status = venue[o].status /\ a.filled = venue[o].filled
    <3>1. \A id \in {"client", "exchange"} :
             /\ VenueAnswer(o, id) \in Answer
             /\ VenueAnswer(o, id).status = venue[o].status
             /\ VenueAnswer(o, id).filled = venue[o].filled
      BY DEF VenueAnswer, TypeOK, Answer
    <3>2. NotFound \in Answer /\ ~ NotFound.found
      BY PayloadShapes DEF NotFound
    <3>3. \/ \E id \in {"client", "exchange"} :
                answers' = [answers EXCEPT ![o] = Append(@, VenueAnswer(o, id))]
          \/ answers' = [answers EXCEPT ![o] = Append(@, NotFound)]
      BY <1>2, <2>1 DEF LookupByClientId, LookupByExchangeId
    <3> QED BY <3>1, <3>2, <3>3
  <2>4. /\ answers[o] \in Seq(Answer) /\ Len(answers[o]) \in Nat
        /\ DOMAIN answers[o] = 1 .. Len(answers[o])
        /\ answers'[o] = Append(answers[o], a)
        /\ \A x \in Orders \ {o} : answers'[x] = answers[x]
    BY <2>3, LenProperties DEF TypeOK
  <2>5. /\ DOMAIN answers'[o] = 1 .. Len(answers[o]) + 1
        /\ answers'[o][Len(answers[o]) + 1] = a
        /\ \A i \in 1 .. Len(answers[o]) : answers'[o][i] = answers[o][i]
    BY <2>4, AppendProperties, LenProperties
  <2>6. ASSUME NEW x \in Orders, NEW i \in TerminalAttempts(x)'
        PROVE  /\ answers'[x][i].status = venue[x].status
               /\ answers'[x][i].filled = venue[x].filled
    <3>1. CASE x # o
      <4>1. TerminalAttempts(x)' = TerminalAttempts(x)
        BY <2>4, <3>1 DEF TerminalAttempts
      <4> QED BY <2>4, <2>6, <3>1, <4>1 DEF CreditInv, TerminalIsFinal
    <3>2. CASE x = o /\ i \in 1 .. Len(answers[o])
      <4>1. i \in TerminalAttempts(o)
        BY <2>4, <2>5, <2>6, <3>2 DEF TerminalAttempts
      <4> QED BY <2>5, <3>2, <4>1 DEF CreditInv, TerminalIsFinal
    <3>3. CASE x = o /\ i = Len(answers[o]) + 1
      <4>1. a.found
        BY <2>5, <2>6, <3>3 DEF TerminalAttempts
      <4> QED BY <2>3, <2>5, <3>3, <4>1
    <3>4. x = o => i \in 1 .. Len(answers[o]) \/ i = Len(answers[o]) + 1
      <4>1. i \in DOMAIN answers'[x]
        BY <2>6 DEF TerminalAttempts
      <4> QED BY <2>4, <2>5, <4>1
    <3> QED BY <3>1, <3>2, <3>3, <3>4
  <2>7. NobodyAwaited' /\ TerminalIsFinal' /\ AppliedIsDecided'
    BY <2>2, <2>6
    DEF CreditInv, NobodyAwaited, TerminalIsFinal, AppliedIsDecided
  <2> QED BY <1>0, <2>2, <2>7, QuietStep
<1>3. CASE \/ /\ \E o \in Orders : LookupByClientId(o) \/ LookupByExchangeId(o)
              /\ answers' = answers
           \/ NextRound \/ EndLookups \/ Persist
  <2>1. /\ expected' = expected /\ awaited' = awaited
        /\ answers' = answers /\ phase' # "idle"
        /\ venue' = venue /\ credited' = credited /\ appliedIds' = appliedIds
    BY <1>3 DEF LookupByClientId, LookupByExchangeId, NextRound, EndLookups, Persist, environment, pass, loop
  <2>2. NobodyAwaited' /\ TerminalIsFinal' /\ AppliedIsDecided'
    BY <2>1
    DEF CreditInv, NobodyAwaited, TerminalIsFinal, AppliedIsDecided,
        TerminalAttempts
  <2> QED BY <1>0, <2>1, <2>2, QuietStep
<1> QED BY <1>1, <1>2, <1>3

\* A restart begins with what the venue has executed and with an empty wire.
LEMMA RestartStep ==
    ASSUME TypeOK, CreditInv, Restart
    PROVE  CreditInv'
<1>1. /\ stream' = <<>> /\ payload' = Notice("account", Nothing)
      /\ phase' = "idle" /\ verdict' = "none"
      /\ expected' = {} /\ awaited' = {} /\ answers' = NoAnswers
      /\ credited' = Executed /\ appliedIds' = {} /\ venue' = venue
  BY DEF Restart
<1>2. Reports' = {}
  <2>1. \A p \in Alive' : p.kind # "execution"
    BY <1>1 DEF Alive, Notice
  <2> QED BY <2>1 DEF Reports
<1>3. Decided' = {}
  BY <1>1 DEF Decided
<1>4. \A o \in Orders : TerminalAttempts(o)' = {}
  BY <1>1 DEF TerminalAttempts, NoAnswers
<1>5. UnitsInv'
  <2>1. ASSUME NEW o \in Orders
        PROVE  \E U \in SUBSET (1 .. venue'[o].filled) : Holds(o, U)'
    <3>1. venue[o].filled \in Nat
      BY DEF TypeOK
    <3>2. Cardinality(1 .. venue[o].filled) = venue[o].filled
      BY <3>1, FS_Interval
    <3>3. credited'[o] = venue[o].filled
      BY <1>1 DEF Executed
    <3>4. Holds(o, 1 .. venue[o].filled)'
      BY <1>1, <1>2, <3>2, <3>3 DEF Holds
    <3> QED BY <1>1, <3>4
  <2> QED BY <2>1 DEF UnitsInv
<1>6. VenueInv'
  BY <1>1 DEF CreditInv, VenueInv
<1> QED
  BY <1>1, <1>2, <1>3, <1>4, <1>5, <1>6
  DEF CreditInv, NobodyAwaited, TerminalIsFinal, ReportsAreTrue, TradesApart,
      DecidedOnce, BareReports, WholeTrades, AppliedIsDecided

-----------------------------------------------------------------------------
(* A pass that is not refused.                                             *)

\* It is about the order of its payload, if about any, and what it believes of
\* that order is what the venue has come to: the order is finished.
LEMMA PassIsOfOneOrder ==
    ASSUME TypeOK, CreditInv, Refusal = "none"
    PROVE  \/ payload.kind # "execution" /\ Observed = {} /\ Seen = {}
           \/ /\ payload.kind = "execution" /\ payload.order \in Orders
              /\ Observed = {payload.order} /\ Seen = {payload.order}
              /\ Queried = {payload.order}
              /\ FoundFinished(payload.order)
<1>0. awaited = {} /\ payload \in Payload
  BY DEF CreditInv, NobodyAwaited, TypeOK
<1>1. Matched = {} /\ Missing = {} /\ Unknown = Seen /\ Queried = Seen
      /\ Observed = Seen
  BY <1>0 DEF Matched, Missing, Unknown, Queried, Observed
<1>2. CASE payload.kind # "execution"
  BY <1>1, <1>2 DEF Seen
<1>3. CASE payload.kind = "execution"
  <2> DEFINE o == payload.order
  <2>1. o \in Orders /\ Seen = {o}
    BY <1>0, <1>3 DEF Seen, Payload
  <2>2. ~ IsPending(MergedState(o))
    <3>1. UnresolvedIds = {}
      BY DEF Refusal
    <3> QED BY <1>1, <2>1, <3>1 DEF UnresolvedIds
  <2>3. FoundFinished(o)
    <3>1. SUFFICES ASSUME ~ FoundFinished(o) PROVE IsPending(MergedState(o))
      BY <2>2
    <3>2. LookupState(o).recon \in {"status_query_pending", "manual_attention"}
      BY <3>1 DEF LookupState, Blank
    <3>3. MergedState(o).recon = LookupState(o).recon
      BY <1>1, <2>1 DEF MergedState, Merge
    <3> QED BY <3>2, <3>3 DEF IsPending
  <2> QED BY <1>1, <1>3, <2>1, <2>3
<1> QED BY <1>2, <1>3

\* The venue's word on the order, and what the pass makes of it.
LEMMA PassFacts ==
    ASSUME TypeOK, CreditInv, Refusal = "none", payload.kind = "execution"
    PROVE  LET o == payload.order
               v == venue[o]
           IN  /\ Report(payload) \in Reports
               /\ v.filled \in Nat /\ v.filled <= Req[o]
               /\ v.status \in {"filled", "canceled"}
               /\ v.status = "filled" => v.filled = Req[o]
               /\ payload.cum \in Nat /\ payload.last \in Nat
               /\ payload.last <= payload.cum /\ payload.cum <= v.filled
               /\ LatestTerminal(o).filled = v.filled
               /\ MergedState(o).status = v.status
               /\ MergedState(o).filled = v.filled
               /\ MergedState(o).requested = Req[o]
               /\ \A x \in Orders : HasTrade(x) <=> x = o /\ payload.last > 0
               /\ \A x \in Orders :
                    HasRecovered(x) <=> x = o /\ v.status = "filled"
<1> DEFINE o == payload.order
           v == venue[o]
           a == LatestTerminal(o)
<1>1. /\ o \in Orders /\ Observed = {o} /\ Seen = {o} /\ Queried = {o}
      /\ FoundFinished(o) /\ TerminalAttempts(o) # {} /\ awaited = {}
  BY PassIsOfOneOrder DEF CreditInv, NobodyAwaited, FoundFinished
<1>2. Report(payload) \in Reports
  BY DEF Reports, Alive
<1>3. a.status \in TerminalStatus /\ a.status = v.status /\ a.filled = v.filled
  <2>1. PICK i \in TerminalAttempts(o) : a = answers[o][i]
    BY <1>1, LatestTerminalType DEF TypeOK
  <2>2. a.status \in TerminalStatus
    BY <1>1, LatestTerminalType DEF TypeOK
  <2> QED BY <1>1, <2>1, <2>2 DEF CreditInv, TerminalIsFinal
<1>4. /\ v.filled \in Nat /\ v.filled <= Req[o]
      /\ v.status \in {"filled", "canceled"}
      /\ v.status = "filled" => v.filled = Req[o]
  <2>1. v.status \in {"filled", "canceled"} /\ Req[o] \in Nat /\ v.filled \in Nat
    BY <1>1, <1>3 DEF TerminalStatus, TypeOK
  <2> QED BY <1>1, <2>1 DEF CreditInv, VenueInv
<1>5. /\ payload.cum \in Nat /\ payload.last \in Nat
      /\ payload.last <= payload.cum /\ payload.cum <= v.filled
  <2>1. /\ Report(payload).order = o /\ Report(payload).cum = payload.cum
        /\ Report(payload).last = payload.last
    BY DEF Report
  <2>2. payload.cum \in Nat /\ payload.last \in Nat
    BY DEF TypeOK, Payload
  <2> QED BY <1>2, <2>1, <2>2 DEF CreditInv, ReportsAreTrue
<1>6. /\ MergedState(o).status = v.status
      /\ MergedState(o).filled = v.filled
      /\ MergedState(o).requested = Req[o]
  <2> DEFINE opened == Merge(TranslatedState, OpeningState(o))
             found == LookupState(o)
  <2>1. OpeningState(o) = Blank("recovering", "unknown_execution")
    BY <1>1 DEF OpeningState, Matched, Unknown
  <2>2. opened.status = "recovering"
    BY <2>1 DEF Merge, Blank
  <2>3. /\ found.status = v.status /\ found.filled = v.filled
        /\ found.requested = Req[o]
        /\ found.recon = "recovered_terminal_state"
    BY <1>1, <1>3 DEF LookupState
  <2>4. found.status \in TerminalStatus /\ "recovering" \notin TerminalStatus
    BY <1>3, <2>3 DEF TerminalStatus
  <2>5. MergedState(o) = Merge(opened, found)
    BY <1>1 DEF MergedState
  <2> HIDE DEF opened, found
  <2>6. /\ Merge(opened, found).status = found.status
        /\ Merge(opened, found).filled = found.filled
        /\ Merge(opened, found).requested = found.requested
    BY <2>2, <2>3, <2>4 DEF Merge
  <2> QED BY <2>3, <2>5, <2>6
<1>7. ASSUME NEW x \in Orders
      PROVE  HasTrade(x) <=> x = o /\ payload.last > 0
  BY <1>1 DEF HasTrade
<1>8. ASSUME NEW x \in Orders
      PROVE  HasRecovered(x) <=> x = o /\ v.status = "filled"
  BY <1>1, <1>3 DEF HasRecovered
<1> QED BY <1>2, <1>3, <1>4, <1>5, <1>6, <1>7, <1>8
\* Which fills of such a pass are new, and what becomes of the trade when a
\* recovered fill is new too or was taken before.
LEMMA FillFacts ==
    ASSUME TypeOK, CreditInv, Refusal = "none", payload.kind = "execution"
    PROVE  LET o == payload.order
               t == TradeId(o, payload.cum)
               c == RecoveredId(o)
           IN  /\ \A x \in Orders :
                    FreshTrade(x) <=>
                        x = o /\ payload.last > 0 /\ t \notin appliedIds
               /\ \A x \in Orders :
                    FreshRecovered(x) <=>
                        /\ x = o /\ venue[o].status = "filled"
                        /\ c \notin appliedIds
               /\ TradePreferred(o) <=> FreshTrade(o) /\ FreshRecovered(o)
               /\ Superseded(o) <=> /\ FreshTrade(o)
                                    /\ venue[o].status = "filled"
                                    /\ c \in appliedIds
               /\ LatestTerminal(o).filled = venue[o].filled
<1> DEFINE o == payload.order
           v == venue[o]
           t == TradeId(o, payload.cum)
           c == RecoveredId(o)
<1>1. o \in Orders /\ Observed = {o}
  BY PassIsOfOneOrder
<1>2. /\ v.filled \in Nat /\ payload.last \in Nat /\ payload.cum \in Nat
      /\ payload.last <= v.filled
      /\ LatestTerminal(o).filled = v.filled
      /\ MergedState(o).status = v.status /\ MergedState(o).filled = v.filled
      /\ \A x \in Orders : HasTrade(x) <=> x = o /\ payload.last > 0
      /\ \A x \in Orders : HasRecovered(x) <=> x = o /\ v.status = "filled"
  BY PassFacts
<1>3. \A x \in Orders :
        FreshTrade(x) <=> x = o /\ payload.last > 0 /\ t \notin appliedIds
  BY <1>2, Zenon DEF FreshTrade
<1>4. \A x \in Orders :
        FreshRecovered(x) <=>
            x = o /\ v.status = "filled" /\ c \notin appliedIds
  BY <1>2, Zenon DEF FreshRecovered
<1>5. TradePreferred(o) <=> FreshTrade(o) /\ FreshRecovered(o)
  BY <1>2 DEF TradePreferred
<1>6. Superseded(o) <=> FreshTrade(o) /\ v.status = "filled" /\ c \in appliedIds
  <2>1. payload.last <= MergedState(o).filled
    BY <1>2
  <2> QED BY <1>1, <1>2, <1>4, <2>1, Zenon DEF Superseded
<1> QED BY <1>2, <1>3, <1>4, <1>5, <1>6, Zenon

-----------------------------------------------------------------------------
(* What a pass credits and what it remembers.                              *)

\* The trade of the payload is taken, and remembered.
TradeTaken ==
    LET o == payload.order
    IN  /\ Creditable(Report(payload))
        /\ TradeId(o, payload.cum) \in appliedIds'
        /\ credited' = [credited EXCEPT ![o] = @ + payload.last]
        /\ venue[o].status = "filled" => payload.last = Req[o]

\* The recovered fill is taken: the order whole.
RecoveryTaken ==
    LET o == payload.order
    IN  /\ venue[o].status = "filled" /\ RecoveredId(o) \notin appliedIds
        /\ payload.last = 0 \/ TradeId(o, payload.cum) \in appliedIds
        /\ credited' = [credited EXCEPT ![o] = @ + Req[o]]

\* A pass about an order credits the trade, the recovered fill or nothing; it
\* remembers no more than the two, and of an order filled the second always.
LEMMA DecisionFacts ==
    ASSUME SoakWiring, TypeOK, CreditInv, payload.kind = "execution",
           ReviewFills \/ ReviewSnapshot \/ ApplyMutation
    PROVE  LET o == payload.order
               t == TradeId(o, payload.cum)
               c == RecoveredId(o)
           IN  /\ appliedIds \subseteq appliedIds'
               /\ appliedIds' \subseteq appliedIds \cup {t, c}
               /\ c \in appliedIds' <=> venue[o].status = "filled"
               /\ verdict' = "applied" /\ payload.last > 0 => t \in appliedIds'
               /\ credited' = credited \/ TradeTaken \/ RecoveryTaken
               /\ /\ venue[o].status = "filled" /\ c \notin appliedIds
                  /\ \/ payload.last \in {0, Req[o]}
                     \/ t \in appliedIds
                  => TradeTaken \/ RecoveryTaken
<1> DEFINE o == payload.order
           v == venue[o]
           t == TradeId(o, payload.cum)
           c == RecoveredId(o)
           fresh == payload.last > 0 /\ t \notin appliedIds
           recovered == v.status = "filled" /\ c \notin appliedIds
<1>r. Refusal = "none"
  BY DEF ReviewFills, ReviewSnapshot, ApplyMutation
<1>1. o \in Orders /\ Observed = {o}
  BY <1>r, PassIsOfOneOrder
<1>2. /\ v.filled \in Nat /\ payload.last \in Nat /\ payload.cum \in Nat
      /\ payload.last <= v.filled /\ v.filled <= Req[o]
      /\ v.status \in {"filled", "canceled"}
      /\ v.status = "filled" => v.filled = Req[o]
      /\ MergedState(o).status = v.status /\ MergedState(o).filled = v.filled
      /\ MergedState(o).requested = Req[o]
      /\ \A x \in Orders : HasTrade(x) <=> x = o /\ payload.last > 0
      /\ \A x \in Orders : HasRecovered(x) <=> x = o /\ v.status = "filled"
  BY <1>r, <1>1, PassFacts DEF TypeOK
<1>3. /\ FreshTrade(o) <=> fresh
      /\ FreshRecovered(o) <=> recovered
      /\ TradePreferred(o) <=> FreshTrade(o) /\ FreshRecovered(o)
      /\ Superseded(o) <=> /\ FreshTrade(o) /\ v.status = "filled"
                           /\ c \in appliedIds
      /\ LatestTerminal(o).filled = v.filled
  BY <1>r, <1>1, FillFacts
<1>4. c \in appliedIds => v.status = "filled"
  BY <1>1 DEF CreditInv, DecidedOnce
<1> HIDE DEF fresh, recovered
<1>5. Aggregated = IF (fresh \/ recovered) /\ ~ Superseded(o) THEN {o} ELSE {}
  <2>1. HasFresh(o) <=> fresh \/ recovered
    BY <1>3, Zenon DEF HasFresh
  <2>2. \A x : x \in Aggregated <=> x = o /\ HasFresh(o) /\ ~ Superseded(o)
    BY <1>1, Zenon DEF Aggregated
  <2> QED BY <2>1, <2>2
<1>6. EffectiveIds(o) = (IF fresh THEN {t} ELSE {}) \cup
                        (IF recovered /\ ~ fresh THEN {c} ELSE {})
  BY <1>3, Zenon DEF EffectiveIds
<1>7. EffectiveQuantity(o) = IF fresh THEN payload.last
                             ELSE IF recovered THEN v.filled ELSE 0
  BY <1>2, <1>3 DEF EffectiveQuantity
<1>8. IgnoredIds = (PassFillIds \cap appliedIds)
                     \cup (IF Superseded(o) THEN {t} ELSE {})
                     \cup (IF fresh /\ recovered THEN {c} ELSE {})
  <2>1. {x \in Observed : Superseded(x)} = IF Superseded(o) THEN {o} ELSE {}
    BY <1>1
  <2>2. {x \in Observed : TradePreferred(x)}
           = IF fresh /\ recovered THEN {o} ELSE {}
    BY <1>1, <1>3
  <2> QED BY <2>1, <2>2 DEF IgnoredIds
<1>9. appliedIds' = appliedIds \cup IgnoredIds
                      \cup (IF ApplyMutation THEN AppliedFillIds ELSE {})
  <2>1. CASE ApplyMutation
    BY <2>1 DEF ApplyMutation, EndPass, SoakWiring
  <2>2. CASE ~ ApplyMutation
    BY <2>2 DEF ReviewFills, ReviewSnapshot, EndPass, SoakWiring
  <2> QED BY <2>1, <2>2
<1>10. AppliedFillIds = IF Aggregated = {} THEN {} ELSE EffectiveIds(o)
  BY <1>5 DEF AppliedFillIds
<1>11. credited' = IF ApplyMutation /\ Aggregated # {}
                   THEN [credited EXCEPT ![o] = @ + EffectiveQuantity(o)]
                   ELSE credited
  <2>1. ApplyMutation => credited' = TranslatedPortfolio
    BY DEF ApplyMutation, EndPass
  <2>2. ~ ApplyMutation => credited' = credited
    BY DEF ReviewFills, ReviewSnapshot, EndPass
  <2>3. credited = [x \in Orders |-> credited[x]]
    BY DEF TypeOK, Quantities
  <2>4. TranslatedPortfolio
          = IF Aggregated # {}
            THEN [credited EXCEPT ![o] = @ + EffectiveQuantity(o)]
            ELSE credited
    <3>1. CASE Aggregated = {}
      BY <2>3, <3>1 DEF TranslatedPortfolio
    <3>2. CASE Aggregated = {o}
      BY <1>1, <2>3, <3>2 DEF TranslatedPortfolio
    <3> QED BY <1>5, <3>1, <3>2
  <2> QED BY <2>1, <2>2, <2>4
<1>12. ApplyMutation <=> AmbiguousIds = {}
  <2>1. SnapshotAgrees
    BY DEF SnapshotAgrees
  <2> QED BY <2>1 DEF ReviewFills, ReviewSnapshot, ApplyMutation
<1>13. ASSUME v.status = "filled", Aggregated # {}
       PROVE  AmbiguousIds = {} <=> EffectiveQuantity(o) = Req[o]
  <2>1. Aggregated = {o} /\ HasFresh(o)
    BY <1>3, <1>5, <1>13 DEF HasFresh
  <2>2. EffectiveQuantity(o) \in Nat /\ EffectiveQuantity(o) <= Req[o]
    BY <1>2, <1>7, <1>13
  <2>3. Req[o] \in Nat
    BY <1>1
  <2>4. AmbiguousIds = IF EffectiveQuantity(o) < Req[o] THEN {o} ELSE {}
    BY <1>1, <1>2, <1>13, <2>1, <2>2, <2>3 DEF AmbiguousIds
  <2> QED BY <2>2, <2>3, <2>4
<1>14. Superseded(o) <=> fresh /\ v.status = "filled" /\ c \in appliedIds
  BY <1>3
<1>15. c # t
  BY DEF TradeId, RecoveredId
<1>16. Creditable(Report(payload)) <=> fresh /\ c \notin appliedIds
  BY DEF Creditable, Report, fresh
<1>17. appliedIds \subseteq appliedIds' /\ appliedIds' \subseteq appliedIds \cup {t, c}
  BY <1>6, <1>8, <1>9, <1>10
<1>18. ASSUME recovered, ~ fresh PROVE RecoveryTaken /\ c \in appliedIds'
  <2>1. Aggregated = {o} /\ EffectiveQuantity(o) = Req[o]
    BY <1>2, <1>5, <1>7, <1>14, <1>18 DEF recovered
  <2>2. ApplyMutation
    BY <1>12, <1>13, <1>18, <2>1 DEF recovered
  <2>3. credited' = [credited EXCEPT ![o] = @ + Req[o]]
    BY <1>11, <2>1, <2>2
  <2>4. payload.last = 0 \/ t \in appliedIds
    BY <1>2, <1>18 DEF fresh
  <2> QED
    BY <1>6, <1>9, <1>10, <1>18, <2>1, <2>2, <2>3, <2>4
    DEF RecoveryTaken, recovered
<1>19. c \in appliedIds' <=> v.status = "filled"
  <2>1. c \in appliedIds' => v.status = "filled"
    BY <1>4, <1>6, <1>8, <1>9, <1>10, <1>15 DEF recovered
  <2>2. ASSUME v.status = "filled" PROVE c \in appliedIds'
    <3>1. CASE c \in appliedIds
      BY <1>17, <3>1
    <3>2. CASE recovered /\ fresh
      BY <1>8, <1>9, <3>2
    <3>3. CASE recovered /\ ~ fresh
      BY <1>18, <3>3
    <3> QED BY <2>2, <3>1, <3>2, <3>3 DEF recovered
  <2> QED BY <2>1, <2>2
<1>20. verdict' = "applied" /\ payload.last > 0 => t \in appliedIds'
  <2>1. SUFFICES ASSUME verdict' = "applied", payload.last > 0, fresh
                 PROVE  t \in appliedIds'
    BY <1>17 DEF fresh
  <2>2. ApplyMutation
    BY <2>1 DEF ReviewFills, ReviewSnapshot, EndPass
  <2>3. CASE Superseded(o)
    BY <1>8, <1>9, <2>3
  <2>4. CASE ~ Superseded(o)
    BY <1>5, <1>6, <1>9, <1>10, <2>1, <2>2, <2>4
  <2> QED BY <2>3, <2>4
<1>21. ASSUME fresh, ~ Superseded(o), ApplyMutation PROVE TradeTaken
  <2>1. Aggregated = {o} /\ EffectiveQuantity(o) = payload.last
    BY <1>5, <1>7, <1>21
  <2>2. c \notin appliedIds
    BY <1>4, <1>14, <1>21
  <2>3. v.status = "filled" => payload.last = Req[o]
    BY <1>12, <1>13, <1>21, <2>1
  <2>4. credited' = [credited EXCEPT ![o] = @ + payload.last]
    BY <1>11, <1>21, <2>1
  <2>5. t \in appliedIds'
    BY <1>6, <1>9, <1>10, <1>21, <2>1
  <2> QED BY <1>16, <1>21, <2>2, <2>3, <2>4, <2>5 DEF TradeTaken
<1>22. credited' = credited \/ TradeTaken \/ RecoveryTaken
  BY <1>5, <1>11, <1>18, <1>21
<1>23. ASSUME v.status = "filled", c \notin appliedIds,
              payload.last \in {0, Req[o]} \/ t \in appliedIds
       PROVE  TradeTaken \/ RecoveryTaken
  <2>1. CASE ~ fresh
    BY <1>18, <1>23, <2>1 DEF recovered
  <2>2. CASE fresh
    <3>1. ~ Superseded(o) /\ Aggregated = {o} /\ EffectiveQuantity(o) = Req[o]
      BY <1>5, <1>7, <1>14, <1>23, <2>2 DEF fresh
    <3> QED BY <1>12, <1>13, <1>21, <1>23, <2>2, <3>1
  <2> QED BY <2>1, <2>2
<1> HIDE DEF o, v, t, c
<1> QED BY <1>17, <1>19, <1>20, <1>22, <1>23, Zenon DEF o, v, t, c

\* A trade that was the whole order, and may still be credited, finds the
\* portfolio without any of it.
LEMMA NothingHeldBeforeWholeTrade ==
    ASSUME TypeOK, CreditInv, NEW r \in Reports, r.last = Req[r.order],
           Creditable(r)
    PROVE  credited[r.order] = 0
<1> DEFINE o == r.order
<1>1. o \in Orders /\ r.cum \in Nat /\ venue[o].filled \in Nat /\ Req[o] \in Nat
  <2>1. o \in Orders /\ r.cum \in Nat
    BY ReportType
  <2> QED BY <2>1 DEF TypeOK
<1>2. r.last <= r.cum /\ r.cum <= venue[o].filled /\ venue[o].filled <= Req[o]
  BY <1>1 DEF CreditInv, ReportsAreTrue, VenueInv
<1>3. PICK U \in SUBSET (1 .. venue[o].filled) : Holds(o, U)
  BY <1>1 DEF CreditInv, UnitsInv
<1>4. U \cap Units(r) = {}
  BY <1>3 DEF Holds
<1>5. U = {}
  BY <1>1, <1>2, <1>4 DEF Units
<1> QED BY <1>3, <1>5, FS_EmptySet DEF Holds

\* With a trade of it a report is taken, so is every other of that trade.
LEMMA TradeStep ==
    ASSUME TypeOK, CreditInv, payload.kind = "execution", TradeTaken,
           NEW o \in Orders, o = payload.order,
           Reports' \subseteq Reports, appliedIds \subseteq appliedIds'
    PROVE  \E U \in SUBSET (1 .. venue[o].filled) : Holds(o, U)'
<1> DEFINE p == Report(payload)
<1>1. /\ p \in Reports /\ p.order = o /\ p.last = payload.last
      /\ p.cum = payload.cum
  BY DEF Reports, Alive, Report
<1>2. /\ o \in Orders /\ p.cum \in Nat /\ p.last \in Nat
      /\ venue[o].filled \in Nat /\ credited[o] \in Nat
      /\ credited \in Quantities
  <2>1. o \in Orders /\ p.cum \in Nat /\ p.last \in Nat
    BY <1>1, ReportType
  <2> QED BY <2>1 DEF TypeOK, Quantities
<1>3. /\ Creditable(p) /\ p.last > 0
      /\ TradeId(o, p.cum) \in appliedIds'
      /\ credited'[o] = credited[o] + p.last
  BY <1>1, <1>2 DEF TradeTaken, Creditable, Quantities
<1>4. p.last <= p.cum /\ p.cum <= venue[o].filled
  BY <1>1 DEF CreditInv, ReportsAreTrue
<1>5. PICK U : U \subseteq 1 .. venue[o].filled /\ Holds(o, U)
  BY <1>2 DEF CreditInv, UnitsInv
<1>6. U \cap Units(p) = {}
  BY <1>1, <1>3, <1>5 DEF Holds
<1>w. PICK W : W = U \cup Units(p)
  OBVIOUS
<1>7. W \subseteq 1 .. venue[o].filled
  <2> HIDE DEF p
  <2>1. \A x \in Units(p) : x \in 1 .. venue[o].filled
    BY <1>2, <1>4 DEF Units
  <2> QED BY <1>5, <1>w, <2>1
<1>8. Cardinality(W) = credited'[o]
  <2>1. IsFiniteSet(U)
    <3>1. \A n \in Nat : IsFiniteSet(1 .. n)
      BY FS_Interval
    <3> QED BY <1>2, <1>5, <3>1, FS_Subset
  <2>2. IsFiniteSet(Units(p)) /\ Cardinality(Units(p)) = p.last
    <3>1. /\ p.cum - p.last + 1 \in Int /\ p.cum \in Int
          /\ p.cum - p.last + 1 <= p.cum
          /\ p.cum - (p.cum - p.last + 1) + 1 = p.last
      BY <1>2, <1>3
    <3> QED BY <3>1, FS_Interval DEF Units
  <2>3. Cardinality(W) = Cardinality(U) + Cardinality(Units(p))
                           - Cardinality(U \cap Units(p))
    BY <1>w, <2>1, <2>2, FS_Union
  <2>4. Cardinality(U \cap Units(p)) = 0
    BY <1>6, FS_EmptySet
  <2> QED BY <1>2, <1>3, <1>5, <2>2, <2>3, <2>4 DEF Holds
<1>9. ASSUME NEW r \in Reports', r.order = o, Creditable(r)'
      PROVE  W \cap Units(r) = {}
  <2>1. r \in Reports /\ r.cum \in Nat /\ r.last \in Nat /\ r.last > 0
    BY <1>9, ReportType DEF Creditable
  <2>2. Creditable(r) /\ TradeId(o, r.cum) \notin appliedIds'
    BY <1>9 DEF Creditable, TradeId, RecoveredId
  <2>3. U \cap Units(r) = {}
    BY <1>5, <1>9, <2>1, <2>2 DEF Holds
  <2>4. r.cum # p.cum
    BY <1>3, <2>2
  <2>5. r.cum <= p.cum - p.last \/ p.cum <= r.cum - r.last
    BY <1>1, <1>3, <1>9, <2>1, <2>4 DEF CreditInv, TradesApart
  <2>6. Units(p) \cap Units(r) = {}
    BY <1>2, <2>1, <2>5 DEF Units
  <2> QED BY <1>w, <2>3, <2>6
<1>10. Holds(o, W)'
  BY <1>8, <1>9 DEF Holds, Units
<1> QED BY <1>7, <1>10

\* With the recovered fill an order not held before is held whole, and nothing
\* more of it may be credited.
LEMMA RecoveryStep ==
    ASSUME TypeOK, CreditInv, payload.kind = "execution", RecoveryTaken,
           NEW o \in Orders, o = payload.order, RecoveredId(o) \in appliedIds'
    PROVE  /\ credited[o] = 0
           /\ \E U \in SUBSET (1 .. venue[o].filled) : Holds(o, U)'
<1> DEFINE p == Report(payload)
<1>1. /\ p \in Reports /\ p.order = o /\ p.last = payload.last
      /\ o \in Orders /\ Req[o] \in Nat
  <2>1. p \in Reports /\ p.order = o /\ p.last = payload.last
    BY DEF Reports, Alive, Report
  <2> QED BY <2>1, ReportType
<1>2. credited[o] = 0
  <2>1. venue[o].status = "filled" /\ RecoveredId(o) \notin appliedIds
    BY DEF RecoveryTaken
  <2>2. o \notin Decided
    BY <1>1, <2>1 DEF CreditInv, DecidedOnce
  <2>3. payload.last = 0
    BY <1>1, <2>2 DEF RecoveryTaken, Decided, TradeId
  <2> QED BY <1>1, <2>1, <2>3 DEF CreditInv, BareReports
<1>3. venue[o].filled = Req[o]
  BY <1>1 DEF RecoveryTaken, CreditInv, VenueInv
<1>4. credited'[o] = Req[o]
  BY <1>1, <1>2 DEF RecoveryTaken, TypeOK, Quantities
<1>5. Cardinality(1 .. Req[o]) = Req[o]
  <2>1. 1 \in Int /\ Req[o] \in Int
    BY <1>1
  <2>2. Cardinality(1 .. Req[o]) = IF 1 > Req[o] THEN 0 ELSE Req[o] - 1 + 1
    BY <2>1, FS_Interval, Zenon
  <2> QED BY <1>1, <2>2
<1>6. \A r : r.order = o => ~ Creditable(r)'
  BY DEF Creditable, RecoveredId
<1>7. Holds(o, 1 .. Req[o])'
  BY <1>4, <1>5, <1>6 DEF Holds
<1> QED BY <1>2, <1>3, <1>7

-----------------------------------------------------------------------------
(* The end of a pass.                                                      *)

\* Whatever ends a pass, nothing is awaited or believed any more.
LEMMA EndOfPass ==
    ASSUME NEW v, NEW portfolio, NEW applied, NEW ignored,
           EndPass(v, portfolio, applied, ignored)
    PROVE  /\ NobodyAwaited' /\ TerminalIsFinal'
           /\ venue' = venue /\ payload' = payload /\ verdict' = v
           /\ credited' = portfolio
<1>1. \A o \in Orders : TerminalAttempts(o)' = {}
  BY DEF EndPass, TerminalAttempts, NoAnswers
<1> QED
  BY <1>1 DEF EndPass, environment, NobodyAwaited, TerminalIsFinal

LEMMA RefusalStep ==
    ASSUME TypeOK, CreditInv, RefuseMutation
    PROVE  /\ CreditInv'
           /\ UNCHANGED <<venue, credited, appliedIds>>
<1>1. Reports' \subseteq Reports
  BY NoNewReport DEF Cycle
<1>2. EndPass(Refusal, credited, {}, {})
  BY DEF RefuseMutation
<1>3. /\ NobodyAwaited' /\ TerminalIsFinal' /\ verdict' = Refusal
      /\ UNCHANGED <<venue, credited, appliedIds>>
  <2>1. appliedIds' = appliedIds
    BY <1>2 DEF EndPass
  <2> QED BY <1>2, <2>1, EndOfPass
<1>4. AppliedIsDecided'
  <2>1. Refusal # "applied"
    BY DEF Refusal
  <2> QED BY <1>3, <2>1 DEF AppliedIsDecided
<1> QED BY <1>1, <1>3, <1>4, QuietStep

\* A pass about no order credits nothing and remembers nothing.
LEMMA AccountPassStep ==
    ASSUME TypeOK, CreditInv, payload.kind # "execution",
           ReviewFills \/ ReviewSnapshot \/ ApplyMutation
    PROVE  /\ CreditInv'
           /\ UNCHANGED <<venue, credited, appliedIds>>
<1>1. Reports' \subseteq Reports
  BY NoNewReport DEF Cycle
<1>2. Refusal = "none" /\ Observed = {} /\ Seen = {}
  BY PassIsOfOneOrder DEF ReviewFills, ReviewSnapshot, ApplyMutation
<1>3. PassFillIds = {} /\ Aggregated = {}
  <2>1. Queried = {}
    BY <1>2 DEF Observed
  <2> QED BY <1>2, <2>1 DEF PassFillIds, HasTrade, HasRecovered, Aggregated
<1>4. IgnoredIds = {} /\ AppliedFillIds = {}
  BY <1>2, <1>3 DEF IgnoredIds, AppliedFillIds
<1>5. TranslatedPortfolio = credited
  BY <1>3 DEF TranslatedPortfolio, TypeOK, Quantities
<1>6. \E v : EndPass(v, credited, {}, {})
  BY <1>4, <1>5 DEF ReviewFills, ReviewSnapshot, ApplyMutation
<1>7. /\ NobodyAwaited' /\ TerminalIsFinal'
      /\ UNCHANGED <<venue, payload, credited, appliedIds>>
  <2>1. appliedIds' = appliedIds
    BY <1>6 DEF EndPass
  <2> QED BY <1>6, <2>1, EndOfPass
<1>8. AppliedIsDecided'
  BY <1>7 DEF AppliedIsDecided
<1> QED BY <1>1, <1>7, <1>8, QuietStep

\* A pass that decides about an order.
LEMMA DecisionStep ==
    ASSUME SoakWiring, TypeOK, CreditInv, payload.kind = "execution",
           ReviewFills \/ ReviewSnapshot \/ ApplyMutation
    PROVE  CreditInv'
<1>o. PICK o \in Orders : o = payload.order
  BY DEF TypeOK, Payload
<1> DEFINE t == TradeId(o, payload.cum)
           c == RecoveredId(o)
           p == Report(payload)
<1>1. Reports' \subseteq Reports
  BY NoNewReport DEF Cycle
<1>2. /\ NobodyAwaited' /\ TerminalIsFinal'
      /\ venue' = venue /\ payload' = payload
  BY EndOfPass DEF ReviewFills, ReviewSnapshot, ApplyMutation
<1>3. /\ appliedIds \subseteq appliedIds'
      /\ appliedIds' \subseteq appliedIds \cup {t, c}
      /\ c \in appliedIds' <=> venue[o].status = "filled"
      /\ verdict' = "applied" /\ payload.last > 0 => t \in appliedIds'
      /\ credited' = credited \/ TradeTaken \/ RecoveryTaken
      /\ /\ venue[o].status = "filled" /\ c \notin appliedIds
         /\ payload.last \in {0, Req[o]} \/ t \in appliedIds
         => TradeTaken \/ RecoveryTaken
  BY <1>o, DecisionFacts
<1>4. /\ p \in Reports /\ p.order = o /\ p.last = payload.last
      /\ p.cum = payload.cum
  BY <1>o DEF Reports, Alive, Report
<1>5. /\ venue[o].status \in {"filled", "canceled"}
      /\ p.cum \in Nat /\ p.last \in Nat /\ p.last <= p.cum
      /\ venue[o].filled \in Nat /\ Req[o] \in Nat \ {0}
      /\ p.cum <= venue[o].filled /\ venue[o].filled <= Req[o]
  <2>1. Refusal = "none"
    BY DEF ReviewFills, ReviewSnapshot, ApplyMutation
  <2> QED BY <1>o, <1>4, <2>1, PassFacts
<1>6. /\ t[1] = o /\ c[1] = o
      /\ \A x, n : TradeId(x, n)[1] = x /\ RecoveredId(x)[1] = x
  BY DEF TradeId, RecoveredId
<1>7. Decided \subseteq Decided' /\ Decided' \subseteq Decided \cup {o}
  BY <1>3, <1>6 DEF Decided
<1>8. ASSUME NEW x \in Orders \ {o}
      PROVE  /\ x \in Decided' <=> x \in Decided
             /\ RecoveredId(x) \in appliedIds' <=> RecoveredId(x) \in appliedIds
             /\ credited'[x] = credited[x]
  <2>1. RecoveredId(x) # t /\ RecoveredId(x) # c
    BY <1>6, <1>8
  <2>2. credited'[x] = credited[x]
    BY <1>o, <1>3 DEF TradeTaken, RecoveryTaken, TypeOK, Quantities
  <2> QED BY <1>3, <1>7, <2>1, <2>2
<1>9. VenueInv'
  BY <1>2 DEF CreditInv, VenueInv
<1>10. ReportsAreTrue' /\ TradesApart'
  BY <1>1, <1>2 DEF CreditInv, ReportsAreTrue, TradesApart
<1>11. DecidedOnce'
  <2>1. ASSUME NEW x \in Orders
        PROVE  /\ RecoveredId(x) \in appliedIds' => venue[x].status = "filled"
               /\ x \in Decided' => \/ RecoveredId(x) \in appliedIds'
                                    \/ venue[x].status = "canceled"
    <3>1. CASE x = o
      BY <1>3, <1>5, <3>1
    <3>2. CASE x # o
      BY <1>8, <3>2 DEF CreditInv, DecidedOnce
    <3> QED BY <3>1, <3>2
  <2> QED BY Zenon, <1>2, <2>1 DEF DecidedOnce, RecoveredId
<1>12. BareReports'
  <2>1. ASSUME NEW r \in Reports', r.last = 0
        PROVE  \/ credited'[r.order] = 0
               \/ RecoveredId(r.order) \in appliedIds'
               \/ venue[r.order].status = "canceled"
    <3>1. r \in Reports /\ r.order \in Orders
      BY <1>1, ReportType
    <3>2. CASE r.order = o
      BY <1>3, <1>5, <3>2
    <3>3. CASE r.order # o
      BY <1>8, <2>1, <3>1, <3>3 DEF CreditInv, BareReports
    <3> QED BY <3>2, <3>3
  <2> QED BY <1>2, <2>1 DEF BareReports, RecoveredId
<1>13. AppliedIsDecided'
  <2>1. ASSUME verdict' = "applied", payload.last > 0 PROVE o \in Decided'
    BY <1>3, <1>6, <2>1 DEF Decided
  <2> QED BY <1>o, <1>2, <2>1 DEF AppliedIsDecided
<1>14. UnitsInv'
  <2>1. ASSUME NEW x \in Orders
        PROVE  \E U \in SUBSET (1 .. venue[x].filled) : Holds(x, U)'
    <3>1. CASE x = o /\ TradeTaken
      BY <1>o, <1>1, <1>3, <3>1, TradeStep
    <3>2. CASE x = o /\ RecoveryTaken
      <4>1. c \in appliedIds'
        BY <1>o, <1>3, <3>2 DEF RecoveryTaken
      <4> QED BY <1>o, <3>2, <4>1, RecoveryStep
    <3>3. CASE credited'[x] = credited[x]
      <4>1. PICK U \in SUBSET (1 .. venue[x].filled) : Holds(x, U)
        BY DEF CreditInv, UnitsInv
      <4>2. Cardinality(U) = credited'[x]
        BY <3>3, <4>1 DEF Holds
      <4>3. ASSUME NEW r \in Reports', r.order = x, Creditable(r)'
            PROVE  U \cap Units(r) = {}
        <5>1. r \in Reports /\ Creditable(r)
          BY <1>1, <1>3, <4>3 DEF Creditable, TradeId, RecoveredId
        <5> QED BY <4>1, <4>3, <5>1 DEF Holds
      <4>4. Holds(x, U)'
        BY <4>2, <4>3 DEF Holds, Units
      <4> QED BY <4>4
    <3> QED BY <1>3, <1>8, <3>1, <3>2, <3>3
  <2> QED BY <1>2, <2>1 DEF UnitsInv
<1>15. WholeTrades'
  <2> SUFFICES ASSUME NEW r \in Reports', r.last = Req[r.order],
                      r.order \in Decided'
               PROVE  credited'[r.order] = Req[r.order]
    BY DEF WholeTrades
  <2>1. r \in Reports /\ r.order \in Orders /\ r.cum \in Nat /\ r.last \in Nat
    BY <1>1, ReportType
  <2>2. CASE r.order # o
    BY <1>8, <2>1, <2>2 DEF CreditInv, WholeTrades
  <2>3. CASE r.order = o
    <3>1. r.last <= r.cum /\ r.cum <= venue[o].filled
      BY <2>1, <2>3 DEF CreditInv, ReportsAreTrue
    <3>2. r.cum = Req[o] /\ venue[o].filled = Req[o] /\ r.last = Req[o]
      BY <1>5, <2>1, <2>3, <3>1
    <3>3. venue[o].status = "filled"
      BY <1>5, <3>2 DEF CreditInv, VenueInv
    <3>4. credited \in Quantities
      BY DEF TypeOK
    <3>5. CASE o \in Decided
      <4>1. c \in appliedIds
        BY <3>3, <3>5 DEF CreditInv, DecidedOnce
      <4>2. ~ TradeTaken /\ ~ RecoveryTaken
        BY <1>o, <1>4, <4>1 DEF TradeTaken, RecoveryTaken, Creditable
      <4> QED BY <1>3, <2>1, <2>3, <3>5, <4>2 DEF CreditInv, WholeTrades
    <3>6. CASE o \notin Decided
      <4>1. /\ \A n : TradeId(o, n) \notin appliedIds
            /\ c \notin appliedIds
        BY <1>6, <3>6 DEF Decided
      <4>2. p.last \in {0, Req[o]}
        <5>1. p.last > 0 => \/ p.cum = r.cum /\ p.last = r.last
                            \/ r.cum <= p.cum - p.last
                            \/ p.cum <= r.cum - r.last
          BY <1>4, <1>5, <2>1, <2>3, <3>2 DEF CreditInv, TradesApart
        <5> QED BY <1>5, <3>2, <5>1
      <4>3. TradeTaken \/ RecoveryTaken
        BY <1>3, <1>4, <3>3, <4>1, <4>2
      <4>4. credited[o] = 0
        <5>1. Creditable(r)
          BY <1>5, <2>3, <3>2, <4>1 DEF Creditable
        <5> QED BY <2>1, <2>3, <5>1, NothingHeldBeforeWholeTrade
      <4>5. credited'[o] = credited[o] + Req[o]
        BY <1>o, <3>3, <3>4, <4>3 DEF TradeTaken, RecoveryTaken, Quantities
      <4> QED BY <1>5, <2>3, <4>4, <4>5
    <3> QED BY <3>5, <3>6
  <2> QED BY <2>2, <2>3
<1> QED
  BY <1>2, <1>9, <1>10, <1>11, <1>12, <1>13, <1>14, <1>15 DEF CreditInv

-----------------------------------------------------------------------------
(* The theorems.                                                           *)

LEMMA CreditInit == Init => CreditInv
<1> SUFFICES ASSUME Init PROVE CreditInv
  OBVIOUS
<1>1. Reports = {}
  <2>1. \A p \in Alive : p.kind # "execution"
    BY DEF Init, Alive, Notice
  <2> QED BY <2>1 DEF Reports
<1>2. VenueInv
  BY DEF Init, VenueInv
<1>3. Decided = {} /\ \A o \in Orders : TerminalAttempts(o) = {}
  BY DEF Init, Decided, TerminalAttempts, NoAnswers
<1>4. UnitsInv
  <2>1. ASSUME NEW o \in Orders PROVE Holds(o, {})
    BY <1>1, FS_EmptySet DEF Init, Holds, Nothing
  <2> QED BY <2>1 DEF UnitsInv
<1> QED
  BY <1>1, <1>2, <1>3, <1>4
  DEF Init, CreditInv, NobodyAwaited, TerminalIsFinal, ReportsAreTrue,
      TradesApart, DecidedOnce, BareReports, WholeTrades, AppliedIsDecided

LEMMA CreditStep == SoakWiring /\ TypeOK /\ CreditInv /\ [Next]_vars => CreditInv'
<1> SUFFICES ASSUME SoakWiring, TypeOK, CreditInv, [Next]_vars PROVE CreditInv'
  OBVIOUS
<1>1. CASE Environment
  BY <1>1, EnvironmentStep
<1>2. CASE \/ \E e \in ExpectedChoices : Poll(e)
           \/ \E o \in Orders : LookupByClientId(o) \/ LookupByExchangeId(o)
           \/ NextRound \/ EndLookups \/ Persist
  BY <1>2, LookupStep
<1>3. CASE RefuseMutation
  BY <1>3, RefusalStep
<1>4. CASE ReviewFills \/ ReviewSnapshot \/ ApplyMutation
  BY <1>4, AccountPassStep, DecisionStep
<1>5. CASE Restart
  BY <1>5, RestartStep
<1>6. CASE UNCHANGED vars
  <2>1. Reports' \subseteq Reports
    BY <1>6, NoNewReport
  <2>2. UNCHANGED <<venue, phase, payload, expected, awaited, answers, credited,
                    appliedIds, verdict>>
    BY <1>6 DEF vars
  <2>3. NobodyAwaited' /\ TerminalIsFinal' /\ AppliedIsDecided'
    BY <2>2 DEF CreditInv, NobodyAwaited, TerminalIsFinal, AppliedIsDecided,
                TerminalAttempts, Decided
  <2> QED BY <2>1, <2>2, <2>3, QuietStep
<1> QED
  BY <1>1, <1>2, <1>3, <1>4, <1>5, <1>6 DEF Next, Cycle

\* What the portfolio holds of an order, and what may still be credited, are
\* always different units of what the venue executed.
THEOREM CreditIsOfUnits == SoakWiring /\ Spec => []CreditInv
<1>1. CASE SoakWiring
  <2>1. TypeOK /\ CreditInv /\ [Next]_vars => CreditInv'
    BY <1>1, CreditStep
  <2> QED BY <2>1, CreditInit, TypeCorrect, PTL DEF Spec
<1> QED BY <1>1

LEMMA HeldWithinExecuted == TypeOK /\ CreditInv => NoDoubleCredit
<1> SUFFICES ASSUME TypeOK, CreditInv, NEW o \in Orders
             PROVE  credited[o] <= venue[o].filled
  BY DEF NoDoubleCredit
<1>1. PICK U : U \subseteq 1 .. venue[o].filled /\ Cardinality(U) = credited[o]
  BY DEF CreditInv, UnitsInv, Holds
<1>2. venue[o].filled \in Nat
  BY DEF TypeOK
<1>3. \A n \in Nat : IsFiniteSet(1 .. n) /\ Cardinality(1 .. n) = n
  BY FS_Interval
<1>4. Cardinality(U) <= Cardinality(1 .. venue[o].filled)
  BY <1>1, <1>2, <1>3, FS_Subset
<1> QED BY <1>1, <1>2, <1>3, <1>4

\* The soak never holds more of an order than the venue executed, whatever is
\* lost, repeated, garbled or restarted.
THEOREM NoCreditTwice == SoakWiring /\ Spec => []NoDoubleCredit
<1>1. TypeOK /\ CreditInv => NoDoubleCredit
  BY HeldWithinExecuted
<1> QED BY <1>1, TypeCorrect, CreditIsOfUnits, PTL

LEMMA AppliedMeansCredited == TypeOK /\ CreditInv => WholeTradeIsCredited
<1> SUFFICES ASSUME TypeOK, CreditInv, verdict = "applied", phase = "idle",
                    payload.kind = "execution",
                    payload.status \in TerminalStatus,
                    payload.last = payload.cum
             PROVE  credited[payload.order] = payload.cum
  BY DEF WholeTradeIsCredited
<1> DEFINE o == payload.order
           p == Report(payload)
<1>1. /\ p \in Reports /\ p.order = o /\ p.last = payload.last
      /\ p.cum = payload.cum /\ p.status = payload.status
  BY DEF Reports, Alive, Report
<1>2. o \in Orders /\ p.cum \in Nat /\ p.last \in Nat /\ Req[o] \in Nat \ {0}
  BY <1>1, ReportType
<1>3. /\ p.status = "filled" => p.cum = Req[o]
      /\ p.status = "canceled" => p.cum = venue[o].filled /\ p.last = 0
  BY <1>1 DEF CreditInv, ReportsAreTrue
<1>4. CASE p.status = "filled"
  <2>1. o \in Decided
    BY <1>1, <1>2, <1>3, <1>4 DEF CreditInv, AppliedIsDecided
  <2> QED BY <1>1, <1>3, <1>4, <2>1 DEF CreditInv, WholeTrades
<1>5. CASE p.status = "canceled"
  <2>1. venue[o].filled = 0 /\ payload.cum = 0
    BY <1>1, <1>3, <1>5
  <2>2. credited[o] <= venue[o].filled
    BY <1>2, HeldWithinExecuted DEF NoDoubleCredit
  <2>3. credited[o] \in Nat
    BY <1>2 DEF TypeOK, Quantities
  <2> QED BY <2>1, <2>2, <2>3
<1> QED BY <1>1, <1>4, <1>5 DEF TerminalStatus

\* Behind an APPLIED verdict for an order of one trade stands all of the trade.
THEOREM WholeTradesAreCredited == SoakWiring /\ Spec => []WholeTradeIsCredited
<1>1. TypeOK /\ CreditInv => WholeTradeIsCredited
  BY AppliedMeansCredited
<1> QED BY <1>1, TypeCorrect, CreditIsOfUnits, PTL

-----------------------------------------------------------------------------
(* The soak implements the ledger, at a venue that cancels nothing (the gate *)
(* takes over what a canceled order executed, the ledger takes whole orders). *)

NothingCanceled == \A o \in Orders : venue[o].status # "canceled"

LEMMA NothingIsCanceled ==
    "cancel" \notin Faults /\ TypeOK /\ NothingCanceled /\ [Next]_vars
        => NothingCanceled'
<1> SUFFICES ASSUME "cancel" \notin Faults, TypeOK, NothingCanceled, [Next]_vars
             PROVE  NothingCanceled'
  OBVIOUS
<1>0. venue \in [Orders -> [status : VenueStatus, filled : Nat]]
  BY DEF TypeOK
<1>1. ASSUME NEW o \in Orders, Place(o) PROVE NothingCanceled'
  <2>1. venue' = [venue EXCEPT ![o].status = "new"]
    BY <1>1 DEF Place
  <2>2. \A x \in Orders : venue'[x].status \in {venue[x].status, "new"}
    BY <1>0, <2>1
  <2> QED BY <2>2 DEF NothingCanceled
<1>2. ASSUME NEW o \in Orders, NEW q \in 1 .. Req[o], Execute(o, q)
      PROVE  NothingCanceled'
  <2>1. PICK s \in {"filled", "partially_filled"} : \E n :
           venue' = [venue EXCEPT ![o] = [status |-> s, filled |-> n]]
    BY <1>2, Zenon DEF Execute
  <2>2. \A x \in Orders :
           venue'[x].status \in {venue[x].status, "filled", "partially_filled"}
    BY <1>0, <2>1
  <2> QED BY <2>2 DEF NothingCanceled
<1>3. CASE venue' = venue
  BY <1>3 DEF NothingCanceled
<1>4. (\E o \in Orders : Place(o))
        \/ (\E o \in Orders : \E q \in 1 .. Req[o] : Execute(o, q))
        \/ venue' = venue
  <2>1. CASE Environment
    BY <2>1 DEF Environment, Cancel, ReportAccount, Redeliver, Garble,
                Reconnect, Terminate
  <2>2. CASE Cycle
    BY <2>2 DEF Cycle, Poll, LookupByClientId,
                  LookupByExchangeId, NextRound, EndLookups, Persist,
                RefuseMutation, ReviewFills, ReviewSnapshot, ApplyMutation,
                EndPass, environment
  <2>3. CASE Restart \/ UNCHANGED vars
    BY <2>3 DEF Restart, vars
  <2> QED BY <2>1, <2>2, <2>3 DEF Next
<1> QED BY <1>1, <1>2, <1>3, <1>4

\* A step of the venue's executions is one of the ledger.
LEMMA ExecuteRefines ==
    ASSUME TypeOK, NEW o \in Orders, NEW q \in 1 .. Req[o], Execute(o, q)
    PROVE  Ledger!LedgerExecute(o)
<1>1. /\ venue \in [Orders -> [status : VenueStatus, filled : Nat]]
      /\ venue[o].filled + q <= Req[o]
      /\ credited' = credited /\ appliedIds' = appliedIds
  BY DEF TypeOK, Execute, runtime, loop
<1>2. \A x \in Orders :
         venue'[x].filled = IF x = o THEN venue[o].filled + q ELSE venue[x].filled
  <2>1. PICK s : venue' = [venue EXCEPT ![o] =
                             [status |-> s, filled |-> venue[o].filled + q]]
    BY Zenon DEF Execute
  <2> QED BY <1>1, <2>1
<1>3. Executed' = [Executed EXCEPT ![o] = @ + q]
  BY <1>2 DEF Executed
<1>4. Executed[o] + q <= Req[o]
  BY <1>1 DEF Executed
<1>5. Decided' = Decided
  BY <1>1 DEF Decided
<1> QED BY <1>1, <1>3, <1>4, <1>5 DEF Ledger!LedgerExecute

\* A pass that decides about an order decides so in the ledger.
LEMMA DecisionRefines ==
    ASSUME SoakWiring, TypeOK, CreditInv, NothingCanceled,
           payload.kind = "execution",
           ReviewFills \/ ReviewSnapshot \/ ApplyMutation
    PROVE  \E S \in SUBSET Orders : \E C \in SUBSET (S \cap Ledger!Due) :
              Ledger!LedgerDecide(S, C)
<1>o. PICK o \in Orders : o = payload.order
  BY DEF TypeOK, Payload
<1> DEFINE t == TradeId(o, payload.cum)
           c == RecoveredId(o)
           p == Report(payload)
<1>1. /\ appliedIds \subseteq appliedIds'
      /\ appliedIds' \subseteq appliedIds \cup {t, c}
      /\ c \in appliedIds' <=> venue[o].status = "filled"
      /\ credited' = credited \/ TradeTaken \/ RecoveryTaken
  BY <1>o, DecisionFacts
<1>2. venue[o].status = "filled" /\ venue[o].filled = Req[o] /\ venue' = venue
  <2>1. Refusal = "none" /\ venue' = venue
    BY EndOfPass DEF ReviewFills, ReviewSnapshot, ApplyMutation
  <2>2. /\ venue[o].status \in {"filled", "canceled"}
        /\ venue[o].status = "filled" => venue[o].filled = Req[o]
    BY <1>o, <2>1, PassFacts
  <2> QED BY <2>1, <2>2 DEF NothingCanceled
<1>3. t[1] = o /\ c[1] = o
  BY DEF TradeId, RecoveredId
<1>4. Decided' = Decided \cup {o}
  BY <1>1, <1>2, <1>3 DEF Decided
<1>5. Executed' = Executed /\ Executed[o] = Req[o]
  BY <1>2 DEF Executed
<1>6. credited = [x \in Orders |-> credited[x]] /\ Req[o] \in Nat
  BY DEF TypeOK, Quantities
<1>7. CASE credited' = credited
  <2>1. Ledger!LedgerDecide({o}, {})
    BY <1>4, <1>5, <1>6, <1>7 DEF Ledger!LedgerDecide
  <2> QED BY <2>1
<1>8. CASE TradeTaken \/ RecoveryTaken
  <2>1. c \notin appliedIds
    BY <1>o, <1>8 DEF TradeTaken, RecoveryTaken, Creditable, Report
  <2>2. o \notin Decided
    BY <1>2, <2>1 DEF CreditInv, DecidedOnce
  <2>3. credited[o] = 0
    <3>1. CASE TradeTaken
      <4>1. p \in Reports /\ p.order = o /\ p.last = Req[o] /\ Creditable(p)
        BY <1>o, <1>2, <3>1 DEF TradeTaken, Reports, Alive, Report
      <4> QED BY <4>1, NothingHeldBeforeWholeTrade
    <3>2. CASE RecoveryTaken
      BY <1>o, <1>1, <1>2, <3>2, RecoveryStep
    <3> QED BY <1>8, <3>1, <3>2
  <2>4. credited' = [credited EXCEPT ![o] = @ + Req[o]]
    BY <1>o, <1>2, <1>8 DEF TradeTaken, RecoveryTaken
  <2>5. credited' = [x \in Orders |-> IF x \in {o} THEN Req[x] ELSE credited[x]]
    BY <1>6, <2>3, <2>4
  <2>6. {o} \subseteq Ledger!Due
    BY <1>5, <2>2, <2>3 DEF Ledger!Due
  <2>7. Ledger!LedgerDecide({o}, {o})
    BY <1>4, <1>5, <2>5 DEF Ledger!LedgerDecide
  <2> QED BY <2>6, <2>7
<1> QED BY <1>1, <1>7, <1>8

\* Every step of the soak is a step of the ledger, or none.
LEMMA SoakStepRefines ==
    ASSUME SoakWiring, TypeOK, CreditInv, NothingCanceled, [Next]_vars,
           "cancel" \notin Faults
    PROVE  [Ledger!LedgerNext]_(Ledger!ledger)
<1>0. ASSUME Executed' = Executed, UNCHANGED <<credited, appliedIds>>
      PROVE  UNCHANGED Ledger!ledger
  BY <1>0 DEF Ledger!ledger, Decided
<1>1. ASSUME venue' = venue, UNCHANGED <<credited, appliedIds>>
      PROVE  UNCHANGED Ledger!ledger
  BY <1>0, <1>1 DEF Executed
<1>2. ASSUME NEW o \in Orders, Place(o) PROVE UNCHANGED Ledger!ledger
  <2>1. /\ venue \in [Orders -> [status : VenueStatus, filled : Nat]]
        /\ venue' = [venue EXCEPT ![o].status = "new"]
        /\ UNCHANGED <<credited, appliedIds>>
    BY <1>2 DEF TypeOK, Place, runtime, loop
  <2>2. \A x \in Orders : venue'[x].filled = venue[x].filled
    BY <2>1
  <2> QED BY <1>0, <2>1, <2>2 DEF Executed
<1>3. ASSUME NEW o \in Orders, NEW q \in 1 .. Req[o], Execute(o, q)
      PROVE  Ledger!LedgerNext
  BY <1>3, ExecuteRefines DEF Ledger!LedgerNext
<1>4. CASE \/ ReportAccount \/ Redeliver \/ Garble \/ Reconnect \/ Terminate
           \/ \E e \in ExpectedChoices : Poll(e)
           \/ \E o \in Orders : LookupByClientId(o) \/ LookupByExchangeId(o)
           \/ NextRound \/ EndLookups \/ Persist \/ UNCHANGED vars
  <2>1. venue' = venue /\ UNCHANGED <<credited, appliedIds>>
    BY <1>4 DEF ReportAccount, Redeliver, Garble, Reconnect, Terminate, Poll,
                LookupByClientId, LookupByExchangeId, NextRound, EndLookups, Persist, runtime, environment,
                loop, vars
  <2> QED BY <1>1, <2>1
<1>5. CASE RefuseMutation
  BY <1>1, <1>5, RefusalStep
<1>6. CASE ReviewFills \/ ReviewSnapshot \/ ApplyMutation
  <2>1. CASE payload.kind = "execution"
    BY <1>6, <2>1, DecisionRefines DEF Ledger!LedgerNext
  <2>2. CASE payload.kind # "execution"
    BY <1>1, <1>6, <2>2, AccountPassStep
  <2> QED BY <2>1, <2>2
<1>7. CASE Restart
  <2>1. /\ credited' = Executed /\ appliedIds' = {} /\ venue' = venue
    BY <1>7 DEF Restart
  <2>2. Decided' = {} /\ Executed' = Executed
    BY <2>1 DEF Decided, Executed
  <2> QED BY <2>1, <2>2 DEF Ledger!LedgerNext, Ledger!LedgerRestart
<1> QED
  BY <1>2, <1>3, <1>4, <1>5, <1>6, <1>7
  DEF Next, Environment, Cycle, Cancel

\* The soak's portfolio is the ledger's: it decides about an order at most
\* once in a run, takes over an order completely executed, and takes it whole,
\* or leaves it to an operator.
THEOREM SoakImplementsLedger ==
    SoakWiring /\ "cancel" \notin Faults /\ Spec => LedgerSpec
<1>1. CASE SoakWiring /\ "cancel" \notin Faults
  <2>1. Init => Ledger!LedgerInit /\ NothingCanceled
    BY DEF Init, Ledger!LedgerInit, Executed, Decided, Nothing, NothingCanceled
  <2>2. TypeOK /\ NothingCanceled /\ [Next]_vars => NothingCanceled'
    BY <1>1, NothingIsCanceled
  <2>3. TypeOK /\ CreditInv /\ NothingCanceled /\ [Next]_vars
           => [Ledger!LedgerNext]_(Ledger!ledger)
    BY <1>1, SoakStepRefines
  <2>4. Spec => []TypeOK
    BY TypeCorrect
  <2>5. Spec => []CreditInv
    BY <1>1, CreditIsOfUnits
  <2> QED
    BY <2>1, <2>2, <2>3, <2>4, <2>5, PTL DEF Spec, LedgerSpec, Ledger!LedgerSpec
<1> QED BY <1>1
=============================================================================
