--------------------------- MODULE ScenarioCampaign ---------------------------
(***************************************************************************)
(* The two scripted campaigns an operator repeats before live trading:     *)
(* failure injection through the gate, and disruption of the               *)
(* reconciliation alone.  Each scenario plays scripted payloads and        *)
(* scripted lookup results against the real gate and the real store, and   *)
(* passes a verdict on what it saw.                                        *)
(*                                                                         *)
(*   scripts/binance_restricted_live_failure_injection.py                  *)
(*   scripts/binance_reconciliation_disruption.py        the campaigns     *)
(*   monitoring/restricted_live_failure_injection.py                       *)
(*   monitoring/reconciliation_disruption.py             the scenarios     *)
(*                                                                         *)
(* A scenario has one order, and a directory that every run of the         *)
(* campaign uses again: the reconciliation state in it is what the run     *)
(* before left there, which may have been killed anywhere.                 *)
(***************************************************************************)
EXTENDS Integers, Sequences, FiniteSets, SequencesExt

CONSTANTS
    MaxRuns,    \* how often a campaign is started
    Selections  \* by script, the sets of scenarios it may be asked for
ASSUME RunsAssumption == MaxRuns \in Nat

-----------------------------------------------------------------------------
(* The scripts.                                                            *)

\* What the private stream delivers in a cycle.  Every scripted payload about
\* an order is about the scenario's order, and the cycle expects that order.
Payloads == {"none", "terminated", "account", "fill", "fill_twice", "partial"}
Seen(cycle) == cycle.payload \in {"fill", "fill_twice", "partial"}

\* A cycle with no payload, no expected order and no lookup results.
QuietCycle ==
    [payload |-> "none", expected |-> FALSE, gap |-> FALSE, lookups |-> <<>>,
     stream |-> "streaming"]

ExpectedCycle(payload) ==
    [QuietCycle EXCEPT !.payload = payload, !.expected = TRUE]

\* A disruption step expects its order but has no private stream.
GapStep(lookups) ==
    [QuietCycle EXCEPT !.expected = TRUE, !.gap = TRUE, !.lookups = lookups]

Failed3 == <<"failed", "failed", "failed">>

PrivateStreamDisconnect ==
    [cycles |-> <<[ExpectedCycle("terminated") EXCEPT
                      !.lookups = Failed3, !.stream = "terminated"]>>,
     applied |-> FALSE,
     expects |-> {"recovery", "manual", "blocked", "degraded"}]

ListenKeyExpiration ==
    [cycles |-> <<[ExpectedCycle("terminated") EXCEPT
                      !.lookups = <<"filled">>, !.stream = "terminated"],
                  ExpectedCycle("fill")>>,
     applied |-> TRUE,
     expects |-> {"recovery", "blocked", "degraded"}]

WebsocketReconnectStorms ==
    LET storm == [QuietCycle EXCEPT !.stream = "degraded"]
    IN [cycles |-> <<storm, storm, storm>>,
        applied |-> FALSE,
        expects |-> {"degraded"}]

DelayedPrivateEvents ==
    [cycles |-> <<[ExpectedCycle("account") EXCEPT !.lookups = <<"filled">>],
                  ExpectedCycle("fill")>>,
     applied |-> TRUE,
     expects |-> {"recovery", "blocked"}]

MissingOrderEvents ==
    [cycles |-> <<[ExpectedCycle("account") EXCEPT !.lookups = Failed3]>>,
     applied |-> FALSE,
     expects |-> {"recovery", "manual", "blocked", "degraded"}]

DuplicatedFillEvents ==
    [cycles |-> <<ExpectedCycle("fill_twice")>>,
     applied |-> TRUE,
     expects |-> {"duplicate"}]

PrivateEventLoss ==
    [cycles |-> <<GapStep(<<"filled">>)>>,
     final |-> "converged_terminal", expects |-> {"recovery"}]

DelayedStatusQuery ==
    [cycles |-> <<GapStep(<<"new", "new", "new">>),
                  [GapStep(<<"filled">>) EXCEPT !.expected = FALSE]>>,
     final |-> "converged_terminal", expects |-> {"recovery"}]

DuplicatedExecutionReports ==
    [cycles |-> <<ExpectedCycle("fill_twice")>>,
     final |-> "not_required", expects |-> {}]

PartialFillReorder ==
    [cycles |-> <<ExpectedCycle("partial"), ExpectedCycle("partial")>>,
     final |-> "not_required", expects |-> {}]

Scripts == {"injection", "disruption"}

Scenarios ==
    [injection |->
        <<PrivateStreamDisconnect, ListenKeyExpiration,
          WebsocketReconnectStorms, DelayedPrivateEvents, MissingOrderEvents,
          DuplicatedFillEvents>>,
     disruption |->
        <<PrivateEventLoss, DelayedStatusQuery, DuplicatedExecutionReports,
          PartialFillReorder>>]

\* Where a scenario keeps its files: <output-dir>/<scenario_id>.
Directories == UNION {{kind} \X DOMAIN Scenarios[kind] : kind \in Scripts}

\* --scenario-id, given as often as one likes, or not at all for all of them;
\* without a match the script ends before it starts.
ASSUME SelectionsAssumption ==
    \A script \in Scripts :
        Selections[script] \subseteq (SUBSET DOMAIN Scenarios[script]) \ {{}}

\* Whatever the order they are named in, the scenarios run in the script's.
InOrder(S) == {s \in [1 .. Cardinality(S) -> S] :
                  \A i, j \in DOMAIN s : i < j => s[i] < s[j]}

Requests == [script \in Scripts |-> UNION {InOrder(S) : S \in Selections[script]}]

-----------------------------------------------------------------------------
(* One pass over the scenario's order.                                     *)

MaxRounds == 3
MaxAttempts == 3

Awaited(cycle, file) == cycle.expected \/ file.unresolved
Queried(cycle, file) == Awaited(cycle, file) /\ ~Seen(cycle)
GapDetected(cycle, file) == cycle.gap \/ file.gap

Trigger(cycle, file) ==
    IF GapDetected(cycle, file) THEN "private_stream_gap"
    ELSE IF file.unresolved THEN "restart_resume"
    ELSE IF Queried(cycle, file) THEN "missing_private_updates"
    ELSE "not_required"

\* The scripted transport fails when its results are used up; the first
\* terminal answer ends the rounds.
Scripted(cycle) ==
    [i \in 1 .. MaxRounds |->
        IF i \in DOMAIN cycle.lookups THEN cycle.lookups[i] ELSE "failed"]

Rounds(cycle) ==
    LET settling == {i \in 1 .. MaxRounds : Scripted(cycle)[i] = "filled"}
    IN IF settling = {} THEN MaxRounds
       ELSE CHOOSE i \in settling : \A j \in settling : i <= j

Answers(cycle, file) ==
    IF Queried(cycle, file) THEN SubSeq(Scripted(cycle), 1, Rounds(cycle))
    ELSE <<>>

Convergence(cycle, file) ==
    LET answers == Answers(cycle, file)
    IN CASE answers = <<>> -> "not_required"
         [] "filled" \in ToSet(answers) -> "converged_terminal"
         [] OTHER -> IF Last(answers) = "failed" /\ Len(answers) >= MaxAttempts
                     THEN "unreconciled_manual_attention" ELSE "pending"

Unsettled(cycle, file) ==
    Convergence(cycle, file) \in {"pending", "unreconciled_manual_attention"}

Fills(cycle) == cycle.payload \in {"fill", "fill_twice"}

\* The scripted account balances never agree with the scenario's portfolio; a
\* fill applied before leaves its filled order without a fill.
Refused(cycle, remembered) ==
    cycle.payload = "account" \/ (Fills(cycle) /\ remembered)

\* Mutant: a terminated stream stands in nobody's way.
BlockedByRecoveryOnly(cycle, file, remembered) ==
    Unsettled(cycle, file) \/ Refused(cycle, remembered)

\* A scripted lookup brings a status and no quantities: an order recovered as
\* filled has nothing to apply and misses nothing.
Blocked(cycle, file, remembered) ==
    \/ cycle.payload = "terminated" /\ cycle.expected
    \/ Unsettled(cycle, file)
    \/ Refused(cycle, remembered)

Applied(cycle, file, remembered) ==
    cycle.payload # "none" /\ ~Blocked(cycle, file, remembered)

IgnoredFills(cycle, file, remembered) ==
    IF ~Unsettled(cycle, file) /\ Fills(cycle)
         /\ (remembered \/ cycle.payload = "fill_twice")
    THEN {"fill"} ELSE {}

-----------------------------------------------------------------------------
(* What the store keeps of it, and what health is made of it.              *)

\* The attempts of the scenario's order.  Disruption steps give the pass a
\* cursor of their own, which is part of the fingerprint.
EmptyFile ==
    [torn |-> FALSE, attempts |-> {}, unresolved |-> FALSE, manual |-> FALSE,
     gap |-> FALSE]

Fingerprints(cursor, answers) == {<<cursor, a>> : a \in ToSet(answers)}

\* Mutant: what an earlier run registered is not recognised.
NewAttemptsUnchecked(file, cursor, answers) ==
    {[print |-> f, number |-> Cardinality(file.attempts) + 1] :
        f \in Fingerprints(cursor, answers)}

\* register_lookup_results: one number after the other; the answers of one
\* pass that are new are numbered in the order of their first appearance,
\* and no script brings two new ones in one pass.
NewAttempts(file, cursor, answers) ==
    {[print |-> f, number |-> Cardinality(file.attempts) + 1] :
        f \in Fingerprints(cursor, answers)
                \ {a.print : a \in file.attempts}}

Persisted(cycle, file) ==
    [file EXCEPT
        !.unresolved = Unsettled(cycle, file),
        !.manual = (Convergence(cycle, file)
                      = "unreconciled_manual_attention"),
        !.gap = GapDetected(cycle, file)]

StreamHealth(stream) ==
    CASE stream = "streaming" -> "healthy"
      [] stream = "terminated" -> "fatal"
      [] OTHER -> "degraded"

\* `file` is what the pass started from.
ReconciliationHealth(cycle, file) ==
    LET after == Persisted(cycle, file)
    IN IF cycle.payload = "none" THEN "unknown"
       ELSE IF after.manual THEN "fatal"
       ELSE IF after.unresolved \/ after.gap \/ Queried(cycle, file)
       THEN "degraded" ELSE "healthy"

QueryHealth(cycle, file) ==
    LET answers == Answers(cycle, file)
    IN IF cycle.payload = "none" \/ answers = <<>> THEN "unknown"
       ELSE IF Last(answers) = "failed" THEN "degraded" ELSE "healthy"

ExchangeHealth(cycle, file) ==
    LET states == {StreamHealth(cycle.stream),
                   ReconciliationHealth(cycle, file), QueryHealth(cycle, file)}
    IN IF "fatal" \in states THEN "fatal"
       ELSE IF "degraded" \in states THEN "degraded" ELSE "healthy"

-----------------------------------------------------------------------------
(* Records, and the verdict on them.                                       *)

\* A cycle without payloads ends before the reconciliation.
InjectionRecord(cycle, file, remembered) ==
    [applied |-> Applied(cycle, file, remembered),
     blocked |-> cycle.payload # "none" /\ Blocked(cycle, file, remembered),
     ignored |-> IgnoredFills(cycle, file, remembered),
     trigger |-> IF cycle.payload = "none" THEN "none"
                 ELSE Trigger(cycle, file),
     convergence |-> IF cycle.payload = "none" THEN "none"
                     ELSE Convergence(cycle, file),
     health |-> ExchangeHealth(cycle, file)]

DisruptionRecord(cycle, file) ==
    [trigger |-> Trigger(cycle, file),
     convergence |-> Convergence(cycle, file),
     answers |-> Len(Answers(cycle, file)),
     unresolved |-> Persisted(cycle, file).unresolved]

Triggers(records) ==
    {r.trigger : r \in ToSet(records)} \ {"none", "not_required"}
Convergences(records) == {r.convergence : r \in ToSet(records)} \ {"none"}
ManualAttention(records) ==
    "unreconciled_manual_attention" \in Convergences(records)

\* What was observed of the things a scenario may expect.  (A cycle always
\* says something to the operator: an alert or a trigger reason.)
Observed(kind, records) ==
    {e \in {"recovery", "manual", "blocked", "duplicate", "degraded"} :
        \/ e = "recovery" /\ Triggers(records) # {}
        \/ e = "manual" /\ ManualAttention(records)
        \/ /\ kind = "injection"
           /\ \E r \in ToSet(records) :
                 \/ e = "blocked" /\ r.blocked
                 \/ e = "duplicate" /\ r.ignored # {}
                 \/ e = "degraded" /\ r.health \in {"degraded", "fatal"}}

EndsAsExpected(kind, scenario, records) ==
    IF kind = "injection" THEN Last(records).applied = scenario.applied
    ELSE Last(records).convergence = scenario.final

Passed(kind, scenario, records) ==
    /\ EndsAsExpected(kind, scenario, records)
    /\ scenario.expects \subseteq Observed(kind, records)

\* scenario_summary.json, next to the records it sums up.
Summary(kind, scenario, records, file) ==
    [passed |-> Passed(kind, scenario, records),
     cycles |-> Len(records),
     triggers |-> Triggers(records),
     convergences |-> Convergences(records),
     attempts |-> IF kind = "injection" THEN 0
                  ELSE Cardinality(file.attempts)]

NoSummary == [cycles |-> 0]

-----------------------------------------------------------------------------
VARIABLES
    runs,       \* campaigns started so far
    phase,      \* where the running campaign is
    kind,       \* which of the two scripts runs
    todo,       \* scenarios still to run, the current one first
    remembered, \* already_applied_fill_ids holds the scenario's fill
    records,    \* cycle_records of the current scenario
    exitCode,   \* of the running campaign, or of the last one
    file,       \* reconciliation_state.json of each scenario
    rows,       \* rows of the scenario's reconciliation_workflows.jsonl
    onDisk,     \* scenario_cycles.jsonl, workflow_records.jsonl
    summary     \* scenario_summary.json

disk == <<file, rows, onDisk, summary>>
vars == <<runs, phase, kind, todo, remembered, records, exitCode, file, rows,
          onDisk, summary>>

Phases == {"idle", "cycle", "register", "persist", "log", "write_records",
           "write_summary"}

Here == <<kind, Head(todo)>>
Scenario == Scenarios[kind][Head(todo)]
Cycle == Scenario.cycles[Len(records) + 1]

\* cursor=f"{scenario_id}:{step_id}"; the gate gives none.
Cursor == IF kind = "injection" THEN 0 ELSE Len(records) + 1

Init ==
    /\ runs = 0 /\ phase = "idle" /\ kind = "injection" /\ todo = <<>>
    /\ remembered = FALSE /\ records = <<>> /\ exitCode = "none"
    /\ file = [d \in Directories |-> EmptyFile]
    /\ rows = [d \in Directories |-> 0]
    /\ onDisk = [d \in Directories |-> <<>>]
    /\ summary = [d \in Directories |-> NoSummary]

StartCampaign(script, requested) ==
    /\ phase = "idle" /\ runs < MaxRuns
    /\ runs' = runs + 1
    /\ kind' = script
    /\ todo' = requested
    /\ exitCode' = "0"
    /\ remembered' = FALSE /\ records' = <<>>
    /\ phase' = "cycle"
    /\ UNCHANGED disk

\* No payloads: the gate returns before the reconciliation, no file is read.
QuietPass ==
    /\ phase = "cycle" /\ kind = "injection"
    /\ Len(records) < Len(Scenario.cycles) /\ Cycle.payload = "none"
    /\ records' = Append(records,
                         InjectionRecord(Cycle, file[Here], remembered))
    /\ UNCHANGED <<runs, phase, kind, todo, remembered, exitCode, disk>>

StartPass ==
    /\ phase = "cycle"
    /\ Len(records) < Len(Scenario.cycles)
    /\ kind = "injection" => Cycle.payload # "none"
    /\ IF file[Here].torn
       THEN phase' = "idle" /\ exitCode' = "raised"
       ELSE phase' = "register" /\ UNCHANGED exitCode
    /\ UNCHANGED <<runs, kind, todo, remembered, records, disk>>

RegisterLookups ==
    /\ phase = "register"
    /\ file' = [file EXCEPT ![Here].attempts =
          @ \cup NewAttempts(file[Here], Cursor, Answers(Cycle, file[Here]))]
    /\ phase' = "persist"
    /\ UNCHANGED <<runs, kind, todo, remembered, records, exitCode, rows,
                   onDisk, summary>>

\* persist_workflow_state, and what the gate makes of the pass.
PersistOfGate ==
    /\ phase = "persist" /\ kind = "injection"
    /\ file' = [file EXCEPT ![Here] = Persisted(Cycle, @)]
    /\ records' = Append(records,
                         InjectionRecord(Cycle, file[Here], remembered))
    /\ remembered' = (remembered \/ (Fills(Cycle)
                        /\ Applied(Cycle, file[Here], remembered)))
    /\ phase' = "cycle"
    /\ UNCHANGED <<runs, kind, todo, exitCode, rows, onDisk, summary>>

PersistOfService ==
    /\ phase = "persist" /\ kind = "disruption"
    /\ file' = [file EXCEPT ![Here] = Persisted(Cycle, @)]
    /\ records' = Append(records, DisruptionRecord(Cycle, file[Here]))
    /\ phase' = "log"
    /\ UNCHANGED <<runs, kind, todo, remembered, exitCode, rows, onDisk,
                   summary>>

LogWorkflow ==
    /\ phase = "log"
    /\ rows' = [rows EXCEPT ![Here] = @ + 1]
    /\ phase' = "cycle"
    /\ UNCHANGED <<runs, kind, todo, remembered, records, exitCode, file,
                   onDisk, summary>>

EndScenario ==
    /\ phase = "cycle" /\ Len(records) = Len(Scenario.cycles)
    /\ phase' = "write_records"
    /\ UNCHANGED <<runs, kind, todo, remembered, records, exitCode, disk>>

WriteRecords ==
    /\ phase = "write_records"
    /\ onDisk' = [onDisk EXCEPT ![Here] = records]
    /\ phase' = "write_summary"
    /\ UNCHANGED <<runs, kind, todo, remembered, records, exitCode, file,
                   rows, summary>>

\* The summary in both its forms, and the next scenario.
WriteSummary ==
    /\ phase = "write_summary"
    /\ summary' = [summary EXCEPT ![Here] =
                      Summary(kind, Scenario, records, file[Here])]
    /\ exitCode' = IF summary'[Here].passed THEN exitCode ELSE "2"
    /\ todo' = Tail(todo)
    /\ remembered' = FALSE /\ records' = <<>>
    /\ phase' = IF Tail(todo) = <<>> THEN "idle" ELSE "cycle"
    /\ UNCHANGED <<runs, kind, file, rows, onDisk>>

\* The process dies; the write it was in has truncated its file.
Kill ==
    /\ phase # "idle"
    /\ phase' = "idle" /\ exitCode' = "killed"
    /\ \/ UNCHANGED disk
       \/ /\ phase \in {"register", "persist"}
          /\ file' = [file EXCEPT ![Here].torn = TRUE]
          /\ UNCHANGED <<rows, onDisk, summary>>
       \/ /\ phase = "write_records"
          /\ onDisk' = [onDisk EXCEPT ![Here] = <<>>]
          /\ UNCHANGED <<file, rows, summary>>
       \/ /\ phase = "write_summary"
          /\ summary' = [summary EXCEPT ![Here] = NoSummary]
          /\ UNCHANGED <<file, rows, onDisk>>
    /\ UNCHANGED <<runs, kind, todo, remembered, records>>

Next ==
    \/ \E script \in Scripts : \E requested \in Requests[script] :
          StartCampaign(script, requested)
    \/ QuietPass \/ StartPass \/ RegisterLookups
    \/ PersistOfGate \/ PersistOfService \/ LogWorkflow
    \/ EndScenario \/ WriteRecords \/ WriteSummary
    \/ Kill

Spec == Init /\ [][Next]_vars

-----------------------------------------------------------------------------
(* Properties.                                                             *)

StoreFile ==
    [torn : BOOLEAN, unresolved : BOOLEAN, manual : BOOLEAN, gap : BOOLEAN,
     attempts : SUBSET [print : (0 .. 3) \X {"failed", "new", "filled"},
                        number : Nat \ {0}]]

TypeOK ==
    /\ runs \in 0 .. MaxRuns /\ phase \in Phases /\ kind \in Scripts
    /\ ToSet(todo) \subseteq DOMAIN Scenarios[kind]
    /\ phase # "idle" => Len(records) <= Len(Scenario.cycles)
    /\ remembered \in BOOLEAN
    /\ exitCode \in {"none", "0", "2", "killed", "raised"}
    /\ file \in [Directories -> StoreFile]
    /\ rows \in [Directories -> Nat]

\* Every scenario passes, however often the campaign is repeated on the same
\* directory and wherever the runs before were killed: what they left unresolved,
\* a gap, or attempts of theirs never turn a verdict (_build_summary).  A state
\* file that a run was killed in the middle of writing is no verdict either: the
\* campaign raises on it, which this counts neither as a pass nor as a failure.
AllScenariosPass ==
    /\ exitCode # "2"
    /\ \A d \in Directories : summary[d] # NoSummary => summary[d].passed

\* A summary is repeatable: a later run finds the same convergence and, with the
\* replay-safe numbering of the store, counts the same attempts, although the
\* state of the runs before is still in the directory.  (The trigger reason is
\* not: what was missing updates first is a resumed restart later.)
SummaryIsRepeatable ==
    [][\A d \in Directories :
          summary[d] # NoSummary /\ summary'[d] # NoSummary =>
             /\ summary'[d].convergences = summary[d].convergences
             /\ summary'[d].attempts = summary[d].attempts]_vars
=============================================================================
