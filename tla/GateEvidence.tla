---------------------------- MODULE GateEvidence ----------------------------
(***************************************************************************)
(* The evidence of one rehearsal, written by three processes and judged by *)
(* a fourth.  They share nothing but files named after the run id.         *)
(*                                                                         *)
(*   scripts/binance_restricted_live_soak.py      the soak session         *)
(*   app/monitoring/restricted_live_soak.py       its artifact writer      *)
(*   scripts/run_broader_action_windows.py        the scheduler            *)
(*   scripts/run_testnet_event_action_driver.py   one action window        *)
(*   scripts/build_runtime2_gate_artifacts.py     the gate builder         *)
(*   scripts/run_runtime2_testnet_event_exercise.py   the exercise harness,*)
(*                                        another way to start the session *)
(*                                                                         *)
(* Any of the first three may be killed between two of its steps, a        *)
(* session may be started again under the same run id, and the builder     *)
(* reads the files one after the other.                                    *)
(***************************************************************************)
EXTENDS Integers, Sequences, FiniteSets

CONSTANTS
    Plan,         \* the windows, in the order the scheduler runs them
    FillWindows,  \* windows of mode "fill"
    LatePolicies, \* --late-policy: "abort", "run-now" or "skip"
    RunType,      \* "bounded" or "env_check", told by the run id
    RunChoices,   \* what the loop of a session may end with
    MaxSessions   \* sessions started under the run id

Windows == {Plan[i] : i \in DOMAIN Plan}

Reasons == {"completed", "fatal_exchange_health", "max_blocked_mutations"}

\* RestrictedLiveSoakSummary and the rows of reconciliation_events.jsonl, as
\* far as the builder looks: a cycle in manual attention is a blocked one and
\* its health is fatal.
Runs == {r \in [reason : Reasons, blocked : BOOLEAN, manual : BOOLEAN,
                churn : BOOLEAN] :
            /\ r.manual => r.blocked /\ r.reason = "fatal_exchange_health"
            /\ r.reason = "max_blocked_mutations" => r.blocked}

ASSUME PlanAssumption ==
    /\ Plan \in Seq(STRING) /\ Plan # <<>>
    /\ \A i, j \in DOMAIN Plan : Plan[i] = Plan[j] => i = j
ASSUME FillAssumption == FillWindows \subseteq Windows
ASSUME PolicyAssumption ==
    /\ LatePolicies \subseteq {"abort", "run-now", "skip"}
    /\ RunType \in {"bounded", "env_check"}
ASSUME RunsAssumption == RunChoices \subseteq Runs
ASSUME BoundAssumption == MaxSessions \in Nat

VARIABLES
    late,         \* --late-policy of the scheduler
    overlap,      \* does the builder run while the files are being written?
    soak,         \* step of the soak script
    session,      \* sessions started so far; the number of the current one
    run,          \* what the loop of the session returned
    written,      \* artifacts the writer has written
    exit,         \* exit code of the last session
    sessionFile,  \* runtime_session.json: the session it describes, 0 if none
    marker,       \* finalization_debug.json
    disk,         \* the artifacts: what each file holds
    sched,        \* step of the scheduler
    window,       \* position in the plan
    log,          \* scheduler_events.jsonl
    driver,       \* step of the action driver
    legs,         \* actions of the window that succeeded, and PriceBand when
                  \* one that failed was refused for its price
    summaries,    \* windows with action_driver_summary.md
    results,      \* action_driver_result.json of each window: its outcome
    priced,       \* the windows whose failure_reasons name the price band
    orders,       \* the order of each window: not yet canceled, or canceled
    gate,         \* step of the gate builder
    seen,         \* gate_inputs
    verdict,      \* gate_manifest.json
    harness,      \* step of the exercise harness
    report        \* exercise_summary.json and the exit code of the harness

soakVars == <<soak, session, run, written, exit, sessionFile, marker, disk>>
schedVars == <<sched, window, log>>
driverVars == <<driver, legs, summaries, results, priced, orders>>
gateVars == <<gate, seen, verdict>>
harnessVars == <<harness, report>>
options == <<late, overlap>>
vars == <<options, soakVars, schedVars, driverVars, gateVars, harnessVars>>

-----------------------------------------------------------------------------
NoRun == [reason |-> "none", blocked |-> FALSE, manual |-> FALSE,
          churn |-> FALSE]
Entry == [session : 1..MaxSessions, run : RunChoices]

\* persist writes in this order; the rows are appended, the rest overwritten.
\* The three row files nobody reads are left out.
Artifacts == <<"reconnects", "reconciliations", "summary", "markdown">>
Rows == {"reconnects", "reconciliations"}
Files == Rows \cup {"summary", "markdown"}

NoMarker == [session |-> 0, phase |-> "none", status |-> "none"]
Marker(s, p, t) == [session |-> s, phase |-> p, status |-> t]
Phases == {"soak_runner.run", "render_markdown", "artifact_writer.persist"}

Outcomes == {"SUCCESS", "PARTIAL_SUCCESS_NONBLOCKING", "FATAL_FAILURE"}
Continues == {"SUCCESS", "PARTIAL_SUCCESS_NONBLOCKING"}
NoResult == "no result"
PriceBand == "PERCENT_PRICE_BY_SIDE"

Event(e, w, o) == [event |-> e, window |-> w, outcome |-> o]
NoWindow == "none"

Current == [session |-> session, run |-> run]

Exists(f) == disk[f] # {}
SummaryOnDisk == disk["summary"]

-----------------------------------------------------------------------------
Nothing == [complete |-> FALSE, results |-> [w \in Windows |-> NoResult],
            priced |-> {}, summary |-> {}, marker |-> NoMarker,
            manual |-> FALSE, churn |-> FALSE]
NoVerdict == <<RunType, "none">>
\* soak is soak_exit_code, which is null when no session was started.
NoReport == [session |-> 0, exit |-> "none", soak |-> "none", summary |-> {}]

Init ==
    /\ late \in LatePolicies /\ overlap \in BOOLEAN
    /\ soak = "off" /\ session = 0 /\ run = NoRun /\ written = 0
    /\ exit = "none" /\ sessionFile = 0 /\ marker = NoMarker
    /\ disk = [f \in Files |-> {}]
    /\ sched = "off" /\ window = 1 /\ log = <<>>
    /\ driver = "off" /\ legs = {} /\ summaries = {}
    /\ results = [w \in Windows |-> NoResult] /\ priced = {}
    /\ orders = [w \in Windows |-> "none"]
    /\ gate = "idle" /\ seen = Nothing /\ verdict = NoVerdict
    /\ harness = "off" /\ report = NoReport

-----------------------------------------------------------------------------
(* The soak session.                                                       *)

\* Without overlap nothing starts while the builder reads.
Undisturbed == overlap \/ gate = "idle"

\* preflight or preparation fails: the run directory stays as it was.
RefuseSession ==
    /\ soak = "off" /\ session < MaxSessions /\ Undisturbed
    /\ harness # "soaking"
    /\ session' = session + 1 /\ run' = NoRun /\ exit' = "1"
    /\ harness' = IF harness = "checked" THEN "soaking" ELSE harness
    /\ UNCHANGED <<options, soak, written, sessionFile, marker, disk, schedVars,
                   driverVars, gateVars, report>>

\* Nothing keeps a session from reusing the run id of an earlier one.
StartSession ==
    /\ soak = "off" /\ session < MaxSessions /\ Undisturbed
    /\ harness # "soaking"
    /\ soak' = "prepared" /\ session' = session + 1 /\ run' = NoRun
    /\ written' = 0 /\ exit' = "none" /\ sessionFile' = session + 1
    /\ harness' = IF harness = "checked" THEN "soaking" ELSE harness
    /\ UNCHANGED <<options, marker, disk, schedVars, driverVars, gateVars, report>>

Leave(code) == soak' = "off" /\ exit' = code

\* The account snapshot cannot be fetched: no handler, no marker.
BootstrapFails ==
    /\ soak = "prepared" /\ Leave("1")
    /\ UNCHANGED <<options, session, run, written, sessionFile, marker, disk,
                   schedVars, driverVars, gateVars, harnessVars>>

Enter(step, phase) ==
    soak' = step /\ marker' = Marker(session, phase, "started")

StartLoop ==
    /\ soak = "prepared" /\ Enter("looping", "soak_runner.run")
    /\ UNCHANGED <<options, session, run, written, exit, sessionFile, disk, schedVars,
                   driverVars, gateVars, harnessVars>>

LoopReturns ==
    /\ soak = "looping" /\ run' \in RunChoices
    /\ Enter("rendering", "render_markdown")
    /\ UNCHANGED <<options, session, written, exit, sessionFile, disk, schedVars,
                   driverVars, gateVars, harnessVars>>

StartPersisting ==
    /\ soak = "rendering" /\ Enter("persisting", "artifact_writer.persist")
    /\ UNCHANGED <<options, session, run, written, exit, sessionFile, disk, schedVars,
                   driverVars, gateVars, harnessVars>>

PhaseOf == [looping |-> "soak_runner.run", rendering |-> "render_markdown",
            persisting |-> "artifact_writer.persist"]

\* An exception in the loop, the renderer or the writer.
PhaseFails ==
    /\ soak \in DOMAIN PhaseOf
    /\ soak = "persisting" => written < Len(Artifacts)
    /\ marker' = Marker(session, PhaseOf[soak], "failed") /\ Leave("1")
    /\ UNCHANGED <<options, session, run, written, sessionFile, disk, schedVars,
                   driverVars, gateVars, harnessVars>>

\* Mutant: the summary is written before the rows it sums up, and the marker
\* with it.
WriteArtifactMarksSummary ==
    /\ soak = "persisting" /\ written < Len(Artifacts)
    /\ written' = written + 1
    /\ disk' = [disk EXCEPT ![Artifacts[written + 1]] =
                    IF Artifacts[written + 1] \in Rows
                    THEN @ \cup {Current} ELSE {Current}]
    /\ marker' = IF Artifacts[written + 1] = "summary"
                 THEN Marker(session, "artifact_writer.persist", "completed")
                 ELSE marker
    /\ UNCHANGED <<options, soak, session, run, exit, sessionFile, schedVars,
                   driverVars, gateVars, harnessVars>>

WriteArtifact ==
    /\ soak = "persisting" /\ written < Len(Artifacts)
    /\ written' = written + 1
    /\ disk' = [disk EXCEPT ![Artifacts[written + 1]] =
                    IF Artifacts[written + 1] \in Rows
                    THEN @ \cup {Current} ELSE {Current}]
    /\ UNCHANGED <<options, soak, session, run, exit, sessionFile, marker, schedVars,
                   driverVars, gateVars, harnessVars>>

\* Mutant: an artifact that could not be written does not hold it up.
MarkCompletedRegardless ==
    /\ soak = "persisting"
    /\ soak' = "completed"
    /\ marker' = Marker(session, "artifact_writer.persist", "completed")
    /\ UNCHANGED <<options, session, run, written, exit, sessionFile, disk,
                   schedVars, driverVars, gateVars, harnessVars>>

MarkCompleted ==
    /\ soak = "persisting" /\ written = Len(Artifacts)
    /\ soak' = "completed"
    /\ marker' = Marker(session, "artifact_writer.persist", "completed")
    /\ UNCHANGED <<options, session, run, written, exit, sessionFile, disk, schedVars,
                   driverVars, gateVars, harnessVars>>

Exit ==
    /\ soak = "completed"
    /\ Leave(IF run.reason = "completed" THEN "0" ELSE "2")
    /\ UNCHANGED <<options, session, run, written, sessionFile, marker, disk,
                   schedVars, driverVars, gateVars, harnessVars>>

KillSession ==
    /\ soak # "off" /\ Leave("killed")
    /\ UNCHANGED <<options, session, run, written, sessionFile, marker, disk,
                   schedVars, driverVars, gateVars, harnessVars>>

-----------------------------------------------------------------------------
(* The scheduler.                                                          *)

\* Bound: the schedule runs through while a session is in its loop.  The two
\* share no file but runtime_session.json, so what they leave behind does not
\* depend on how their steps are interleaved; and before the end of the
\* schedule there is no scheduler_complete and no pass.
ScheduleAtRest == sched \in {"off", "ended"} /\ driver = "off"

Logged(e, w, o) == log' = Append(log, Event(e, w, o))

\* Its output directory must be fresh: once per run id.
StartScheduler ==
    /\ sched = "off" /\ sessionFile # 0 /\ soak = "looping" /\ gate = "idle"
    /\ harness = "off"
    /\ sched' = "manifest"
    /\ UNCHANGED <<options, soakVars, window, log, driverVars, gateVars, harnessVars>>

LogSchedule ==
    /\ sched = "manifest" /\ sched' = "wait"
    /\ Logged("scheduler_start", NoWindow, NoResult)
    /\ UNCHANGED <<options, soakVars, window, driverVars, gateVars, harnessVars>>

\* Mutant: one window too many.
NextWindowPastEnd ==
    IF window > Len(Plan) THEN sched' = "complete" /\ UNCHANGED window
    ELSE sched' = "wait" /\ window' = window + 1

\* On to the next window, or out of the loop after the last one.
NextWindow ==
    IF window = Len(Plan) THEN sched' = "complete" /\ UNCHANGED window
    ELSE sched' = "wait" /\ window' = window + 1

WindowAborted ==
    /\ sched = "wait" /\ late = "abort"
    /\ Logged("window_aborted_late", Plan[window], NoResult)
    /\ sched' = "ended"
    /\ UNCHANGED <<options, soakVars, window, driverVars, gateVars, harnessVars>>

WindowSkipped ==
    /\ sched = "wait" /\ late = "skip"
    /\ Logged("window_skipped_late", Plan[window], NoResult)
    /\ NextWindow
    /\ UNCHANGED <<options, soakVars, driverVars, gateVars, harnessVars>>

\* On time, or late under "run-now".
LaunchWindow ==
    /\ sched = "wait" /\ sched' = "running"
    /\ Logged("window_start", Plan[window], NoResult)
    /\ driver' = "create" /\ legs' = {}
    /\ UNCHANGED <<options, soakVars, window, summaries, results, priced,
                   orders, gateVars, harnessVars>>

\* Mutant: a window without a usable result does not end the schedule.
WindowDoneGoesOn ==
    /\ sched = "running" /\ driver = "off"
    /\ Logged("window_done", Plan[window], results[Plan[window]])
    /\ NextWindow
    /\ UNCHANGED <<options, soakVars, driverVars, gateVars, harnessVars>>

\* The driver is gone; what it left behind decides whether to go on.
WindowDone ==
    LET found == results[Plan[window]]
    IN  /\ sched = "running" /\ driver = "off"
        /\ Logged("window_done", Plan[window],
                  IF found = NoResult THEN "FATAL_FAILURE" ELSE found)
        /\ IF found \in Continues THEN NextWindow
           ELSE sched' = "ended" /\ UNCHANGED window
        /\ UNCHANGED <<options, soakVars, driverVars, gateVars, harnessVars>>

ScheduleComplete ==
    /\ sched = "complete" /\ sched' = "ended"
    /\ Logged("scheduler_complete", NoWindow, NoResult)
    /\ UNCHANGED <<options, soakVars, window, driverVars, gateVars, harnessVars>>

\* The driver is a child process and outlives it.
KillScheduler ==
    /\ sched \notin {"off", "ended"} /\ sched' = "ended"
    /\ UNCHANGED <<options, soakVars, window, log, driverVars, gateVars, harnessVars>>

-----------------------------------------------------------------------------
(* The action driver of the window, and the venue.                         *)

Here == Plan[window]

AfterCancel == IF Here \in FillWindows THEN "fill" ELSE "report"

\* Mutant: an accepted create is all it takes.
OutcomeOfCreate ==
    IF "create" \in legs THEN "SUCCESS"
    ELSE IF Here \in FillWindows /\ "fill" \in legs
         THEN "PARTIAL_SUCCESS_NONBLOCKING"
         ELSE "FATAL_FAILURE"

Outcome ==
    IF {"create", "cancel"} \subseteq legs THEN "SUCCESS"
    ELSE IF Here \in FillWindows /\ "fill" \in legs
         THEN "PARTIAL_SUCCESS_NONBLOCKING"
         ELSE "FATAL_FAILURE"

\* A response without an order id is a success all the same, but leaves
\* nothing to cancel.
CreateAccepted ==
    /\ driver = "create" /\ driver' \in {"cancel", AfterCancel}
    /\ legs' = legs \cup {"create"}
    /\ orders' = [orders EXCEPT ![Here] = "open"]
    /\ UNCHANGED <<options, soakVars, schedVars, summaries, results, priced,
                   gateVars, harnessVars>>

\* The price may be the reason: it is told with the others of the window.
CreateRejected ==
    /\ driver = "create" /\ driver' = AfterCancel
    /\ legs' \in {legs, legs \cup {PriceBand}}
    /\ UNCHANGED <<options, soakVars, schedVars, summaries, results, priced,
                   orders, gateVars, harnessVars>>

CancelAccepted ==
    /\ driver = "cancel"
    /\ driver' = AfterCancel /\ legs' = legs \cup {"cancel"}
    /\ orders' = [orders EXCEPT ![Here] = "canceled"]
    /\ UNCHANGED <<options, soakVars, schedVars, summaries, results, priced,
                   gateVars, harnessVars>>

\* The order has been filled, or the request is refused; a cancel has no price.
CancelRejected ==
    /\ driver = "cancel" /\ driver' = AfterCancel
    /\ UNCHANGED <<options, soakVars, schedVars, legs, summaries, results,
                   priced, orders, gateVars, harnessVars>>

FillAttempt ==
    /\ driver = "fill" /\ driver' = "report"
    /\ legs' \in {legs, legs \cup {"fill"}, legs \cup {PriceBand}}
    /\ UNCHANGED <<options, soakVars, schedVars, summaries, results, priced,
                   orders, gateVars, harnessVars>>

\* The rules, the price or a request raise.  The venue may have acted on the
\* request all the same.  An exception is no refusal: it names no price band.
DriverRaises ==
    /\ driver \in {"create", "cancel", "fill"}
    /\ driver' = "off" /\ legs' = {}
    /\ results' = [results EXCEPT ![Here] = "FATAL_FAILURE"]
    /\ \/ UNCHANGED orders
       \/ /\ driver = "create"
          /\ orders' = [orders EXCEPT ![Here] = "open"]
       \/ /\ driver = "cancel"
          /\ orders' = [orders EXCEPT ![Here] = "canceled"]
    /\ UNCHANGED <<options, soakVars, schedVars, summaries, priced, gateVars,
                   harnessVars>>

WriteSummary ==
    /\ driver = "report" /\ driver' = "result"
    /\ summaries' = summaries \cup {Here}
    /\ UNCHANGED <<options, soakVars, schedVars, legs, results, priced, orders,
                   gateVars, harnessVars>>

WriteResult ==
    /\ driver = "result" /\ driver' = "off" /\ legs' = {}
    /\ results' = [results EXCEPT ![Here] = Outcome]
    /\ priced' = IF PriceBand \in legs THEN priced \cup {Here} ELSE priced
    /\ UNCHANGED <<options, soakVars, schedVars, summaries, orders,
                   gateVars, harnessVars>>

KillDriver ==
    /\ driver # "off" /\ driver' = "off" /\ legs' = {}
    /\ UNCHANGED <<options, soakVars, schedVars, summaries, results, priced,
                   orders, gateVars, harnessVars>>

-----------------------------------------------------------------------------
(* The gate builder reads one file after the other, then decides.          *)

\* With overlap the builder does not wait for the session.
Finished == soak = "off" \/ overlap

Read(step, next) == gate = step /\ gate' = next

Done(w) == \E i \in DOMAIN log :
    log[i].event = "window_done" /\ log[i].window = w
SchedulerComplete ==
    /\ \E i \in DOMAIN log : log[i].event = "scheduler_complete"
    /\ \A w \in Windows : Done(w)

ReadScheduler ==
    /\ Read("idle", "results") /\ Finished /\ harness = "off"
    /\ seen' = [Nothing EXCEPT !.complete = SchedulerComplete]
    /\ UNCHANGED <<options, soakVars, schedVars, driverVars, verdict,
                   harnessVars>>

ReadResults ==
    /\ Read("results", "summary")
    /\ seen' = [seen EXCEPT !.results = results, !.priced = priced]
    /\ UNCHANGED <<options, soakVars, schedVars, driverVars, verdict,
                   harnessVars>>

ReadSummary ==
    /\ Read("summary", "marker")
    /\ seen' = [seen EXCEPT !.summary = SummaryOnDisk]
    /\ UNCHANGED <<options, soakVars, schedVars, driverVars, verdict,
                   harnessVars>>

ReadMarker ==
    /\ Read("marker", "rows") /\ seen' = [seen EXCEPT !.marker = marker]
    /\ UNCHANGED <<options, soakVars, schedVars, driverVars, verdict,
                   harnessVars>>

\* Mutant: only the rows the summary sums up.
ReadRowsOfSummary ==
    /\ Read("rows", "reconnects")
    /\ seen' = [seen EXCEPT !.manual =
                    \E e \in disk["reconciliations"] \cap seen.summary :
                        e.run.manual]
    /\ UNCHANGED <<options, soakVars, schedVars, driverVars, verdict,
                   harnessVars>>

ReadRows ==
    /\ Read("rows", "reconnects")
    /\ seen' = [seen EXCEPT !.manual =
                    \E e \in disk["reconciliations"] : e.run.manual]
    /\ UNCHANGED <<options, soakVars, schedVars, driverVars, verdict,
                   harnessVars>>

ReadReconnects ==
    /\ Read("reconnects", "judge")
    /\ seen' = [seen EXCEPT !.churn =
                    \E e \in disk["reconnects"] : e.run.churn]
    /\ UNCHANGED <<options, soakVars, schedVars, driverVars, verdict,
                   harnessVars>>

\* Whether a file is there is asked again, of the directory, when all are read.
MissingEvidence ==
    \/ \E f \in {"summary", "reconciliations", "reconnects"} : ~Exists(f)
    \/ marker = NoMarker \/ log = <<>>
    \/ \E w \in Windows : results[w] = NoResult

Unclean(r) == r.reason # "completed" \/ r.blocked

\* The first class that applies.
FailureClass ==
    IF MissingEvidence THEN "artifact_gap"
    ELSE IF seen.marker # NoMarker /\ seen.marker.status # "completed"
         THEN "finalization"
    ELSE IF ~seen.complete THEN "scheduler"
    ELSE IF seen.manual THEN "reconciliation"
    ELSE IF \E e \in seen.summary : Unclean(e.run) THEN "runtime"
    ELSE "none"

Churn ==
    \/ \E e \in seen.summary : e.run.churn
    \/ seen.churn
Cautions ==
    \/ Churn
    \/ \E w \in Windows :
         \/ w \in seen.priced
         \/ seen.results[w] = "PARTIAL_SUCCESS_NONBLOCKING"

Grade == IF FailureClass # "none" THEN "FAIL"
         ELSE IF Cautions THEN "PASS WITH CAUTION" ELSE "PASS"

Judge ==
    /\ Read("judge", "idle") /\ seen' = Nothing
    /\ verdict' = <<RunType, Grade>>
    /\ UNCHANGED <<options, soakVars, schedVars, driverVars, harnessVars>>

-----------------------------------------------------------------------------
(* The exercise harness.                                                   *)

\* Bound: an exercise has no schedule (its events are created by hand), and
\* what has a schedule is no exercise.
NoSchedule == sched = "off" /\ gate = "idle"

\* Nothing keeps an exercise from reusing the run id of an earlier one, and
\* "prepare only" is meant to be followed by the exercise itself.
HarnessAtRest == harness \in {"off", "done"} /\ NoSchedule

\* Its own preflight or the check of the signed paths fails: no session.
HarnessRefused ==
    /\ HarnessAtRest /\ harness' = "done"
    /\ \E code \in {"1", "2"} : report' = [NoReport EXCEPT !.exit = code]
    /\ UNCHANGED <<options, soakVars, schedVars, driverVars, gateVars>>

\* --prepare-only: the plan is written and the harness ends well, without a
\* session, and whatever an earlier one left under the run id.
HarnessPrepares ==
    /\ HarnessAtRest /\ harness' = "done"
    /\ report' = [NoReport EXCEPT !.exit = "0"]
    /\ UNCHANGED <<options, soakVars, schedVars, driverVars, gateVars>>

\* The session is its child process: nobody else starts one meanwhile.
HarnessStart ==
    /\ HarnessAtRest
    /\ soak = "off" /\ session < MaxSessions
    /\ harness' = "checked"
    /\ UNCHANGED <<options, soakVars, schedVars, driverVars, gateVars,
                   report>>

\* Mutant: the summary found tells the exit code.
HarnessReportsSummary ==
    /\ harness = "soaking" /\ soak = "off" /\ harness' = "done"
    /\ report' = [session |-> session,
                  exit |-> IF \E e \in SummaryOnDisk :
                                e.run.reason = "completed"
                           THEN "0" ELSE "2",
                  soak |-> exit, summary |-> SummaryOnDisk]
    /\ UNCHANGED <<options, soakVars, schedVars, driverVars, gateVars>>

HarnessReports ==
    /\ harness = "soaking" /\ soak = "off" /\ harness' = "done"
    /\ report' = [session |-> session, exit |-> exit, soak |-> exit,
                  summary |-> SummaryOnDisk]
    /\ UNCHANGED <<options, soakVars, schedVars, driverVars, gateVars>>

-----------------------------------------------------------------------------
Session ==
    \/ RefuseSession \/ StartSession \/ BootstrapFails \/ StartLoop
    \/ LoopReturns \/ StartPersisting \/ PhaseFails \/ WriteArtifact
    \/ MarkCompleted \/ Exit \/ KillSession
Scheduler ==
    \/ StartScheduler \/ LogSchedule \/ WindowAborted \/ WindowSkipped
    \/ LaunchWindow \/ WindowDone \/ ScheduleComplete \/ KillScheduler
Driver ==
    \/ CreateAccepted \/ CreateRejected \/ CancelAccepted \/ CancelRejected
    \/ FillAttempt \/ DriverRaises \/ WriteSummary \/ WriteResult
    \/ KillDriver
Builder ==
    \/ ReadScheduler \/ ReadResults \/ ReadSummary \/ ReadMarker \/ ReadRows
    \/ ReadReconnects \/ Judge
Harness == HarnessRefused \/ HarnessPrepares \/ HarnessStart \/ HarnessReports

\* Bound: one verdict, for the builder keeps nothing from one to the next.
Next ==
    /\ verdict = NoVerdict
    /\ \/ ScheduleAtRest /\ (Session \/ Builder \/ Harness)
       \/ Scheduler \/ Driver

Spec == Init /\ [][Next]_vars
-----------------------------------------------------------------------------
TypeOK ==
    /\ late \in LatePolicies /\ overlap \in BOOLEAN
    /\ soak \in {"off", "prepared", "looping", "rendering", "persisting",
                 "completed"}
    /\ session \in 0..MaxSessions /\ run \in RunChoices \cup {NoRun}
    /\ written \in 0..Len(Artifacts)
    /\ exit \in {"none", "0", "1", "2", "killed"}
    /\ sessionFile \in 0..MaxSessions
    /\ marker \in [session : 0..MaxSessions, phase : Phases \cup {"none"},
                   status : {"none", "started", "failed", "completed"}]
    /\ disk \in [Files -> SUBSET Entry]
    /\ sched \in {"off", "manifest", "wait", "running", "complete", "ended"}
    /\ window \in DOMAIN Plan
    /\ driver \in {"off", "create", "cancel", "fill", "report", "result"}
    /\ legs \subseteq {"create", "cancel", "fill", PriceBand}
    /\ summaries \subseteq Windows /\ priced \subseteq Windows
    /\ results \in [Windows -> Outcomes \cup {NoResult}]
    /\ orders \in [Windows -> {"none", "open", "canceled"}]
    /\ gate \in {"idle", "results", "summary", "marker", "rows",
                 "reconnects", "judge"}
    /\ verdict \in {RunType} \X {"none", "FAIL", "PASS",
                                 "PASS WITH CAUTION"}
    /\ harness \in {"off", "checked", "soaking", "done"}
    /\ report.session \in 0..MaxSessions

Passes == verdict'[2] \in {"PASS", "PASS WITH CAUTION"}
Clean(e) == e.run.reason = "completed" /\ ~e.run.blocked

\* A pass is backed by one session that wrote all of its artifacts, also the
\* ones the builder does not ask for, whatever was killed or failed in any
\* phase; and unless the files were written while the builder read them, that
\* session is the one of the summary and it was clean (_failure_class).
PassIsBackedByArtifacts ==
    [][Judge /\ Passes =>
        /\ \A f \in Rows : \E e \in disk[f] : e.session = seen.marker.session
        /\ Exists("summary") /\ Exists("markdown")
        /\ overlap \/ \E e \in disk["summary"] :
             /\ e.session = seen.marker.session /\ Clean(e)
             /\ \A f \in Files : e \in disk[f]]_vars

\* A pass means that every planned window ran to a usable result, with its
\* summary and its line in the log, and an unqualified one that each of them
\* created and canceled its order and that no request was refused for its
\* price; a killed scheduler or driver, a window that was late and skipped,
\* never pass (_scheduler_complete, _detect_known_cautions).
PassIsBackedByWindows ==
    [][Judge /\ Passes => \A w \in Windows :
        /\ results[w] \in Continues /\ w \in summaries /\ Done(w)
        /\ verdict'[2] = "PASS" =>
             results[w] = "SUCCESS" /\ w \notin priced]_vars

\* Once the rows of a run id tell of manual attention no verdict passes it,
\* even when a later session under the run id is clean
\* (_manual_attention_count reads what the writer appends).
ManualAttentionSticks ==
    [][Judge /\ (\E e \in disk["reconciliations"] : e.run.manual) =>
        overlap \/ ~Passes]_vars

\* A window told as SUCCESS leaves no order at the venue, whatever the venue
\* does with the resting order meanwhile (_classify_window_outcome).
SuccessLeavesNoOrder ==
    \A w \in Windows : results[w] = "SUCCESS" => orders[w] = "canceled"

\* The exit code of a session tells what it left: 0 and 2 with all artifacts
\* and the marker of its completion, 1 without that marker.
ExitCodeTellsEvidence ==
    /\ exit \in {"0", "2"} =>
         /\ marker = Marker(session, "artifact_writer.persist", "completed")
         /\ \A f \in Files : Current \in disk[f]
         /\ exit = "0" <=> run.reason = "completed"
    /\ exit = "1" => ~(marker.session = session /\ marker.status = "completed")

\* The harness ends with 0 in two ways.  With --prepare-only: then its summary
\* tells of no session, neither of an exit code nor of a summary, even when an
\* earlier session left one under the run id.  Or the session it started ended
\* with 0, and then the summary it reports is that of this session, which
\* completed: the summary of an earlier session never passes for it.
ExerciseSuccessIsFresh ==
    report.exit = "0" =>
        \/ report.soak = "none" /\ report.summary = {}
        \/ /\ report.soak = "0"
           /\ \E e \in report.summary :
                e.session = report.session /\ e.run.reason = "completed"
=============================================================================
