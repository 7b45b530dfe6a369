------------------------- MODULE GateEvidenceProofs -------------------------
(***************************************************************************)
(* Theorems about GateEvidence, for every plan of windows, every choice of *)
(* late policies and of what a loop may end with, and any number of        *)
(* sessions under the run id.                                              *)
(***************************************************************************)
EXTENDS GateEvidence, TLAPS

-----------------------------------------------------------------------------
(* The inductive invariant, part by part.                                  *)

MarkerType == [session : 0 .. MaxSessions, phase : Phases \cup {"none"},
               status : {"none", "started", "failed", "completed"}]
EventType == [event : {"scheduler_start", "window_aborted_late",
                       "window_skipped_late", "window_start", "window_done",
                       "scheduler_complete"},
              window : Windows \cup {NoWindow},
              outcome : Outcomes \cup {NoResult}]
ResultsType == [Windows -> Outcomes \cup {NoResult}]
SeenType == [complete : BOOLEAN, results : ResultsType,
             priced : SUBSET Windows,
             summary : SUBSET Entry, marker : MarkerType, manual : BOOLEAN,
             churn : BOOLEAN]
ReportType == [session : 0 .. MaxSessions,
               exit : {"none", "0", "1", "2", "killed"},
               soak : {"none", "0", "1", "2", "killed"},
               summary : SUBSET Entry]

\* TypeOK, group of variables by group, with the types of what it leaves
\* open and the steps of the soak script that have a session and its result.
SoakTypes ==
    /\ soak \in {"off", "prepared", "looping", "rendering", "persisting",
                 "completed"}
    /\ session \in 0 .. MaxSessions /\ run \in RunChoices \cup {NoRun}
    /\ written \in 0 .. 4
    /\ exit \in {"none", "0", "1", "2", "killed"}
    /\ sessionFile \in 0 .. MaxSessions /\ marker \in MarkerType
    /\ disk \in [Files -> SUBSET Entry]
    /\ soak # "off" => session \in 1 .. MaxSessions
    /\ soak \in {"rendering", "persisting", "completed"} => run \in RunChoices
SchedTypes ==
    /\ sched \in {"off", "manifest", "wait", "running", "complete", "ended"}
    /\ window \in DOMAIN Plan /\ log \in Seq(EventType)
DriverTypes ==
    /\ driver \in {"off", "create", "cancel", "fill", "report", "result"}
    /\ legs \subseteq {"create", "cancel", "fill", PriceBand}
    /\ summaries \subseteq Windows /\ priced \subseteq Windows
    /\ results \in ResultsType
    /\ orders \in [Windows -> {"none", "open", "canceled"}]
GateTypes ==
    /\ gate \in {"idle", "results", "summary", "marker", "rows",
                 "reconnects", "judge"}
    /\ seen \in SeenType
    /\ verdict \in {RunType} \X {"none", "FAIL", "PASS", "PASS WITH CAUTION"}
HarnessTypes ==
    /\ harness \in {"off", "checked", "soaking", "done"}
    /\ report \in ReportType
TypeInv ==
    /\ late \in LatePolicies /\ overlap \in BOOLEAN
    /\ SoakTypes /\ SchedTypes /\ DriverTypes /\ GateTypes /\ HarnessTypes

\* The marker is of a session that was started, and of an earlier one until
\* the loop of the current one is entered.
MarkerIsOld ==
    /\ marker.session <= session
    /\ soak = "prepared" => marker.session < session
    /\ soak \in {"looping", "rendering", "persisting", "completed"} =>
         marker.session = session

\* An exit code belongs to a session that is over.
ExitIsLast == soak # "off" => exit = "none"

\* Each artifact counted as written holds the result of this session.
WrittenIsOnDisk ==
    /\ soak \in {"prepared", "looping", "rendering"} => written = 0
    /\ soak \in {"persisting", "completed"} =>
         /\ written >= 1 => Current \in disk["reconnects"]
         /\ written >= 2 => Current \in disk["reconciliations"]
         /\ written >= 3 => disk["summary"] = {Current}
         /\ written >= 4 => disk["markdown"] = {Current}
    /\ soak = "persisting" => marker.status = "started"
    /\ soak = "completed" =>
         /\ written = 4
         /\ marker = Marker(session, "artifact_writer.persist", "completed")

\* A marker of completion stands beside the artifacts of its session alone:
\* until the next session enters its loop nothing touches them.
CompletedIsOnDisk ==
    marker.status = "completed" => \E e \in disk["summary"] :
        /\ e.session = marker.session
        /\ disk["summary"] = {e} /\ disk["markdown"] = {e}
        /\ e \in disk["reconnects"] /\ e \in disk["reconciliations"]

SessionInv ==
    /\ MarkerIsOld /\ ExitIsLast /\ WrittenIsOnDisk /\ CompletedIsOnDisk
    /\ ExitCodeTellsEvidence

\* A driver runs for the window the scheduler is at, or outlives it.
DriverHasWindow == driver # "off" => sched \in {"running", "ended"}

\* The legs of a window are of its driver; one that canceled left no order.
LegsAreOfDriver ==
    /\ driver \in {"off", "create"} => legs = {}
    /\ "cancel" \in legs => orders[Here] = "canceled"

\* A window has no result before its driver is gone.
PendingHasNoResult ==
    /\ \A j \in DOMAIN Plan : j > window => results[Plan[j]] = NoResult
    /\ sched \in {"off", "manifest", "wait"} \/ driver # "off" =>
         results[Here] = NoResult

\* The summary of a window is written before its result.
SummaryComesFirst ==
    /\ driver = "result" => Here \in summaries
    /\ \A w \in Windows : results[w] \in Continues => w \in summaries

DriverInv ==
    /\ DriverHasWindow /\ LegsAreOfDriver /\ PendingHasNoResult
    /\ SummaryComesFirst /\ SuccessLeavesNoOrder

CompleteLogged == \E i \in DOMAIN log : log[i].event = "scheduler_complete"

\* A window is logged as done when the scheduler leaves it, not before.
DoneIsPast ==
    /\ \A j \in DOMAIN Plan : Done(Plan[j]) => j <= window
    /\ sched \in {"off", "manifest", "wait", "running"} => ~Done(Here)

\* What the scheduler got past as done had a usable result.
DoneIsUsable ==
    \A j \in DOMAIN Plan :
        Done(Plan[j]) /\ (j < window \/ sched = "complete" \/ CompleteLogged) =>
            results[Plan[j]] \in Continues

\* The schedule ends with its last event, and began beside a session.
EndIsLast == CompleteLogged => sched = "ended" /\ driver = "off"
StartHasMarker == sched # "off" => marker # NoMarker

ScheduleInv == DoneIsPast /\ DoneIsUsable /\ EndIsLast /\ StartHasMarker

\* While the builder reads nothing runs that it does not overlap with.
BuilderIsAlone == gate # "idle" => ScheduleAtRest /\ (overlap \/ soak = "off")

\* What has been read is what the files hold, or held.
SeenSchedule == gate # "idle" /\ seen.complete => SchedulerComplete
SeenResults ==
    gate \notin {"idle", "results"} =>
        seen.results = results /\ seen.priced = priced
SeenSummary ==
    gate \notin {"idle", "results", "summary"} =>
        overlap \/ seen.summary = disk["summary"]
SeenMarker ==
    gate \in {"rows", "reconnects", "judge"} =>
        /\ overlap \/ seen.marker = marker
        /\ sched # "off" => seen.marker # NoMarker
        /\ seen.marker.status = "completed" =>
             /\ \A f \in Rows : \E e \in disk[f] : e.session = seen.marker.session
             /\ Exists("summary") /\ Exists("markdown")
SeenRows ==
    gate \in {"reconnects", "judge"} =>
        overlap \/ seen.manual = (\E e \in disk["reconciliations"] : e.run.manual)

BuilderInv ==
    /\ BuilderIsAlone /\ SeenSchedule /\ SeenResults /\ SeenSummary
    /\ SeenMarker /\ SeenRows

EvidenceInv ==
    TypeInv /\ SessionInv /\ DriverInv /\ ScheduleInv /\ BuilderInv

-----------------------------------------------------------------------------
(* Type correctness.                                                       *)

LEMMA PlanFacts ==
    /\ Len(Plan) \in Nat /\ Len(Plan) >= 1 /\ DOMAIN Plan = 1 .. Len(Plan)
    /\ \A i \in DOMAIN Plan : Plan[i] \in Windows
    /\ \A w \in Windows : \E i \in DOMAIN Plan : w = Plan[i]
    /\ \A i, j \in DOMAIN Plan : Plan[i] = Plan[j] => i = j
  BY PlanAssumption DEF Windows

LEMMA ArtifactFacts ==
    /\ Len(Artifacts) = 4
    /\ Artifacts[1] = "reconnects" /\ Artifacts[2] = "reconciliations"
    /\ Artifacts[3] = "summary" /\ Artifacts[4] = "markdown"
  BY DEF Artifacts

LEMMA RunFacts == RunChoices \subseteq Runs /\ NoRun \notin RunChoices
  BY RunsAssumption DEF Runs, NoRun, Reasons

LEMMA TypeInvIsEnough == TypeInv => TypeOK
  <1> SUFFICES ASSUME TypeInv PROVE TypeOK
    OBVIOUS
  <1> USE DEF TypeInv
  <1>1. late \in LatePolicies /\ overlap \in BOOLEAN
    OBVIOUS
  <1>2. verdict \in {RunType} \X {"none", "FAIL", "PASS", "PASS WITH CAUTION"}
    BY Zenon DEF GateTypes
  <1>3. report.session \in 0 .. MaxSessions
    BY DEF HarnessTypes, ReportType
  <1> QED
    BY Zenon, <1>1, <1>2, <1>3, ArtifactFacts
    DEF TypeOK, SoakTypes, SchedTypes, DriverTypes, GateTypes, HarnessTypes,
        MarkerType, ResultsType

LEMMA InitType == Init => TypeInv
  <1> SUFFICES ASSUME Init PROVE TypeInv
    OBVIOUS
  <1> USE BoundAssumption DEF Init
  <1>1. NoMarker \in MarkerType
    BY DEF NoMarker, MarkerType
  <1>2. SoakTypes
    BY <1>1 DEF SoakTypes
  <1>3. SchedTypes
    BY PlanFacts DEF SchedTypes
  <1>4. DriverTypes
    BY DEF DriverTypes, ResultsType
  <1>5. Nothing \in SeenType
    BY <1>1 DEF Nothing, SeenType, ResultsType
  <1>6. GateTypes
    BY Zenon, <1>5 DEF GateTypes, NoVerdict
  <1>7. HarnessTypes
    BY DEF HarnessTypes, NoReport, ReportType
  <1> QED  BY <1>2, <1>3, <1>4, <1>6, <1>7 DEF TypeInv

\* The marker and the files a session writes are of their types.
LEMMA SessionTypes ==
    ASSUME SoakTypes
    PROVE  /\ soak # "off" => \A p \in Phases :
                \A t \in {"started", "failed", "completed"} :
                    Marker(session, p, t) \in MarkerType
           /\ soak = "persisting" => Current \in Entry
  <1>1. soak # "off" => session \in 1 .. MaxSessions /\ session \in 0 .. MaxSessions
    BY DEF SoakTypes
  <1>2. soak = "persisting" => run \in RunChoices
    BY DEF SoakTypes
  <1>3. soak # "off" => \A p \in Phases :
            \A t \in {"started", "failed", "completed"} :
                Marker(session, p, t) \in MarkerType
    BY <1>1 DEF Marker, MarkerType
  <1>4. soak = "persisting" => Current \in Entry
    BY <1>1, <1>2 DEF Current, Entry
  <1> QED  BY <1>3, <1>4

LEMMA WriteType == SoakTypes /\ WriteArtifact => disk' \in [Files -> SUBSET Entry]
  <1> SUFFICES ASSUME SoakTypes, WriteArtifact
               PROVE  disk' \in [Files -> SUBSET Entry]
    OBVIOUS
  <1> DEFINE f == Artifacts[written + 1]
  <1>1. written + 1 \in 1 .. 4
    BY ArtifactFacts DEF SoakTypes, WriteArtifact
  <1>2. f \in Files
    BY <1>1, ArtifactFacts DEF Files, Rows
  <1>3. Current \in Entry
    BY SessionTypes DEF WriteArtifact
  <1>4. disk \in [Files -> SUBSET Entry]
    BY DEF SoakTypes
  <1>5. disk' = [disk EXCEPT ![f] = IF f \in Rows THEN disk[f] \cup {Current}
                                    ELSE {Current}]
    BY <1>4, <1>2 DEF WriteArtifact
  <1> HIDE DEF f
  <1>6. (IF f \in Rows THEN disk[f] \cup {Current} ELSE {Current}) \in SUBSET Entry
    BY <1>2, <1>3, <1>4
  <1> QED  BY <1>4, <1>5, <1>6

\* A group of variables that does not change keeps its types.
LEMMA TypeFrames ==
    /\ SchedTypes /\ UNCHANGED schedVars => SchedTypes'
    /\ DriverTypes /\ UNCHANGED driverVars => DriverTypes'
    /\ GateTypes /\ UNCHANGED gateVars => GateTypes'
    /\ SoakTypes /\ UNCHANGED soakVars => SoakTypes'
    /\ HarnessTypes /\ UNCHANGED harnessVars => HarnessTypes'
  <1>1. SchedTypes /\ UNCHANGED schedVars => SchedTypes'
    BY DEF SchedTypes, schedVars
  <1>2. DriverTypes /\ UNCHANGED driverVars => DriverTypes'
    BY DEF DriverTypes, driverVars
  <1>3. GateTypes /\ UNCHANGED gateVars => GateTypes'
    BY Zenon DEF GateTypes, gateVars
  <1>4. SoakTypes /\ UNCHANGED soakVars => SoakTypes'
    BY DEF SoakTypes, soakVars
  <1>5. HarnessTypes /\ UNCHANGED harnessVars => HarnessTypes'
    BY DEF HarnessTypes, harnessVars
  <1> QED  BY <1>1, <1>2, <1>3, <1>4, <1>5

LEMMA SessionType == TypeInv /\ Session => TypeInv'
  <1> SUFFICES ASSUME TypeInv, Session PROVE TypeInv'
    OBVIOUS
  <1> USE BoundAssumption, TypeFrames DEF TypeInv, options
  <1>1. CASE RefuseSession \/ StartSession
    <2>1. SoakTypes' /\ HarnessTypes'
      BY <1>1 DEF RefuseSession, StartSession, SoakTypes, HarnessTypes
    <2> QED  BY <1>1, <2>1 DEF RefuseSession, StartSession
  <1>3. ASSUME StartLoop \/ LoopReturns \/ StartPersisting \/ MarkCompleted
               \/ PhaseFails \/ WriteArtifact \/ BootstrapFails \/ Exit
               \/ KillSession
        PROVE  TypeInv'
    <2>1. UNCHANGED <<options, schedVars, driverVars, gateVars, harnessVars>>
      BY <1>3 DEF StartLoop, LoopReturns, StartPersisting, MarkCompleted,
                  PhaseFails, WriteArtifact, BootstrapFails, Exit, KillSession
    <2>2. SoakTypes'
      <3>1. CASE BootstrapFails \/ Exit \/ KillSession
        BY <3>1 DEF SoakTypes, BootstrapFails, Exit, KillSession, Leave
      <3>2. CASE StartLoop \/ LoopReturns \/ StartPersisting \/ MarkCompleted
        <4>1. marker' \in MarkerType
          BY <3>2, SessionTypes
          DEF StartLoop, LoopReturns, StartPersisting, MarkCompleted, Enter,
              Phases
        <4> QED
          BY <3>2, <4>1
          DEF SoakTypes, StartLoop, LoopReturns, StartPersisting,
              MarkCompleted, Enter
      <3>3. CASE PhaseFails
        <4>1. PhaseOf[soak] \in Phases /\ soak # "off"
          BY <3>3 DEF PhaseFails, PhaseOf, Phases
        <4>2. marker' \in MarkerType
          BY <3>3, <4>1, SessionTypes DEF PhaseFails
        <4> QED  BY <3>3, <4>2 DEF SoakTypes, PhaseFails, Leave
      <3>4. CASE WriteArtifact
        <4>1. disk' \in [Files -> SUBSET Entry]
          BY <3>4, WriteType
        <4>2. written' \in 0 .. 4
          BY <3>4, ArtifactFacts DEF WriteArtifact, SoakTypes
        <4> QED  BY <3>4, <4>1, <4>2 DEF WriteArtifact, SoakTypes
      <3> QED  BY <1>3, <3>1, <3>2, <3>3, <3>4
    <2> QED  BY <2>1, <2>2
  <1> QED  BY <1>1, <1>3 DEF Session

LEMMA LoggedType ==
    ASSUME SchedTypes,
           NEW e \in {"scheduler_start", "window_aborted_late",
                      "window_skipped_late", "window_start", "window_done",
                      "scheduler_complete"},
           NEW w \in Windows \cup {NoWindow}, NEW o \in Outcomes \cup {NoResult},
           Logged(e, w, o)
    PROVE  log' \in Seq(EventType) /\ log' = Append(log, Event(e, w, o))
  <1>1. Event(e, w, o) \in EventType
    BY DEF Event, EventType
  <1> QED  BY <1>1 DEF SchedTypes, Logged

LEMMA SchedulerType == TypeInv /\ Scheduler => TypeInv'
  <1> SUFFICES ASSUME TypeInv, Scheduler PROVE TypeInv'
    OBVIOUS
  <1> USE TypeFrames, PlanFacts DEF TypeInv, options
  <1>1. CASE StartScheduler \/ KillScheduler
    BY <1>1 DEF StartScheduler, KillScheduler, SchedTypes
  <1>2. ASSUME LogSchedule \/ WindowAborted \/ WindowSkipped \/ LaunchWindow
               \/ WindowDone \/ ScheduleComplete
        PROVE  SchedTypes'
    <2>1. Plan[window] \in Windows
      BY DEF SchedTypes
    <2>2. results[Plan[window]] \in Outcomes \cup {NoResult}
      BY <2>1 DEF DriverTypes, ResultsType
    <2>3. log' \in Seq(EventType)
      BY <1>2, <2>1, <2>2, LoggedType
      DEF LogSchedule, WindowAborted, WindowSkipped, LaunchWindow, WindowDone,
          ScheduleComplete, Outcomes
    <2>4. NextWindow => sched' \in {"complete", "wait"} /\ window' \in DOMAIN Plan
      BY DEF NextWindow, SchedTypes
    <2> QED
      BY <1>2, <2>3, <2>4
      DEF SchedTypes, LogSchedule, WindowAborted, WindowSkipped, LaunchWindow,
          WindowDone, ScheduleComplete
  <1>3. CASE LogSchedule \/ WindowAborted \/ WindowSkipped \/ WindowDone
             \/ ScheduleComplete
    BY <1>2, <1>3
    DEF LogSchedule, WindowAborted, WindowSkipped, WindowDone, ScheduleComplete
  <1>4. CASE LaunchWindow
    <2>1. DriverTypes'
      BY <1>4 DEF LaunchWindow, DriverTypes
    <2> QED  BY <1>2, <1>4, <2>1 DEF LaunchWindow
  <1> QED  BY <1>1, <1>3, <1>4 DEF Scheduler

LEMMA DriverType == TypeInv /\ Driver => TypeInv'
  <1> SUFFICES ASSUME TypeInv, Driver PROVE TypeInv'
    OBVIOUS
  <1>1. UNCHANGED <<options, soakVars, schedVars, gateVars, harnessVars>>
    BY DEF Driver, CreateAccepted, CreateRejected, CancelAccepted,
           CancelRejected, FillAttempt, DriverRaises, WriteSummary,
           WriteResult, KillDriver
  <1>2. Here \in Windows /\ AfterCancel \in {"fill", "report"}
    BY PlanFacts DEF TypeInv, SchedTypes, Here, AfterCancel
  <1>3. Outcome \in Outcomes /\ "FATAL_FAILURE" \in Outcomes
    BY DEF Outcome, Outcomes
  <1>4. DriverTypes
    BY DEF TypeInv
  <1>5. DriverTypes'
    <2>1. CASE CreateAccepted \/ CreateRejected \/ CancelAccepted
               \/ CancelRejected \/ FillAttempt
      BY <1>2, <1>4, <2>1
      DEF DriverTypes, CreateAccepted, CreateRejected, CancelAccepted,
          CancelRejected, FillAttempt
    <2>2. CASE DriverRaises \/ WriteSummary \/ WriteResult \/ KillDriver
      BY <1>2, <1>3, <1>4, <2>2
      DEF DriverTypes, ResultsType, DriverRaises, WriteSummary, WriteResult,
          KillDriver
    <2> QED  BY <2>1, <2>2 DEF Driver
  <1> QED  BY <1>1, <1>5, TypeFrames DEF TypeInv, options

\* A field read into the inputs is of the type of the file it is read from.
LEMMA SeenUpdate ==
    ASSUME NEW x \in SeenType
    PROVE  /\ \A b \in BOOLEAN : /\ [x EXCEPT !.complete = b] \in SeenType
                                 /\ [x EXCEPT !.manual = b] \in SeenType
                                 /\ [x EXCEPT !.churn = b] \in SeenType
           /\ \A d \in SUBSET Entry : [x EXCEPT !.summary = d] \in SeenType
           /\ \A m \in MarkerType : [x EXCEPT !.marker = m] \in SeenType
  BY DEF SeenType

LEMMA NothingType == Nothing \in SeenType
  <1>1. NoMarker \in MarkerType
    BY BoundAssumption DEF NoMarker, MarkerType
  <1> QED  BY <1>1 DEF Nothing, SeenType, ResultsType

LEMMA BuilderType == TypeInv /\ Builder => TypeInv'
  <1> SUFFICES ASSUME TypeInv, Builder PROVE TypeInv'
    OBVIOUS
  <1>1. UNCHANGED <<options, soakVars, schedVars, driverVars, harnessVars>>
    BY DEF Builder, ReadScheduler, ReadResults, ReadSummary, ReadMarker,
           ReadRows, ReadReconnects, Judge
  <1>2. /\ seen \in SeenType /\ results \in ResultsType
        /\ priced \in SUBSET Windows
        /\ disk["summary"] \in SUBSET Entry /\ marker \in MarkerType
    BY Zenon DEF TypeInv, GateTypes, DriverTypes, SoakTypes, Files
  <1>3. /\ SchedulerComplete \in BOOLEAN
        /\ (\E e \in disk["reconciliations"] : e.run.manual) \in BOOLEAN
        /\ (\E e \in disk["reconnects"] : e.run.churn) \in BOOLEAN
    BY DEF SchedulerComplete
  <1>4. seen' \in SeenType
    <2>1. CASE ReadResults
      BY <1>2, <2>1 DEF ReadResults, SeenType
    <2> QED
      BY <1>2, <1>3, <2>1, SeenUpdate, NothingType
      DEF Builder, ReadScheduler, ReadSummary, ReadMarker, ReadRows,
          ReadReconnects, Judge, SummaryOnDisk
  <1>5. gate' \in {"idle", "results", "summary", "marker", "rows",
                   "reconnects", "judge"}
    BY DEF Builder, ReadScheduler, ReadResults, ReadSummary, ReadMarker,
           ReadRows, ReadReconnects, Judge, Read
  <1>6. verdict' \in {RunType} \X {"none", "FAIL", "PASS", "PASS WITH CAUTION"}
    <2>1. Grade \in {"FAIL", "PASS", "PASS WITH CAUTION"}
      BY Zenon DEF Grade
    <2>2. Judge => verdict' = <<RunType, Grade>>
      BY DEF Judge
    <2>3. Judge \/ UNCHANGED verdict
      BY DEF Builder, ReadScheduler, ReadResults, ReadSummary, ReadMarker,
             ReadRows, ReadReconnects
    <2>4. verdict \in {RunType} \X {"none", "FAIL", "PASS", "PASS WITH CAUTION"}
      BY Zenon DEF TypeInv, GateTypes
    <2>5. Judge => verdict' \in {RunType} \X {"none", "FAIL", "PASS", "PASS WITH CAUTION"}
      <3> DEFINE g == Grade
      <3>1. g \in {"FAIL", "PASS", "PASS WITH CAUTION"}
        BY Zenon, <2>1
      <3> HIDE DEF g
      <3>2. <<RunType, g>> \in {RunType} \X {"none", "FAIL", "PASS", "PASS WITH CAUTION"}
        BY Zenon, <3>1
      <3> QED  BY Zenon, <2>2, <3>2 DEF g
    <2> QED  BY Zenon, <2>3, <2>4, <2>5
  <1> QED  BY Zenon, <1>1, <1>4, <1>5, <1>6, TypeFrames DEF TypeInv, GateTypes, options

LEMMA HarnessType == TypeInv /\ Harness => TypeInv'
  <1> SUFFICES ASSUME TypeInv, Harness PROVE TypeInv'
    OBVIOUS
  <1>1. UNCHANGED <<options, soakVars, schedVars, driverVars, gateVars>>
    BY DEF Harness, HarnessRefused, HarnessPrepares,
           HarnessStart, HarnessReports
  <1>2. HarnessTypes'
    BY BoundAssumption
    DEF TypeInv, HarnessTypes, SoakTypes, Harness, HarnessRefused,
        HarnessPrepares, HarnessStart, HarnessReports, ReportType, NoReport,
        SummaryOnDisk, Files
  <1> QED  BY <1>1, <1>2, TypeFrames DEF TypeInv, options

LEMMA NextType == TypeInv /\ [Next]_vars => TypeInv'
  <1> SUFFICES ASSUME TypeInv, [Next]_vars PROVE TypeInv'
    OBVIOUS
  <1>1. CASE UNCHANGED vars
    BY <1>1, TypeFrames DEF TypeInv, vars, options
  <1> QED
    BY <1>1, SessionType, SchedulerType, DriverType, BuilderType, HarnessType
    DEF Next

\* The soak script, the scheduler, its driver, the builder and the harness
\* keep every file, exit code and step of theirs in its range.
THEOREM EvidenceTypes == Spec => []TypeOK
  <1>1. Spec => []TypeInv
    BY InitType, NextType, PTL DEF Spec
  <1> QED  BY <1>1, TypeInvIsEnough, PTL

-----------------------------------------------------------------------------
(* What a session leaves behind.                                           *)

LEMMA InitSession == Init => SessionInv
  BY BoundAssumption
  DEF Init, SessionInv, MarkerIsOld, ExitIsLast, WrittenIsOnDisk,
      CompletedIsOnDisk, ExitCodeTellsEvidence, NoMarker, Marker

LEMMA SessionFrame == SessionInv /\ UNCHANGED soakVars => SessionInv'
  BY DEF SessionInv, soakVars, MarkerIsOld, ExitIsLast, WrittenIsOnDisk,
         CompletedIsOnDisk, ExitCodeTellsEvidence, Current

\* One artifact goes to its file and leaves the others alone.
LEMMA WriteEffect ==
    ASSUME SoakTypes, WriteArtifact
    PROVE  /\ written = 0 => disk' = [disk EXCEPT !["reconnects"] = @ \cup {Current}]
           /\ written = 1 => disk' = [disk EXCEPT !["reconciliations"] = @ \cup {Current}]
           /\ written = 2 => disk' = [disk EXCEPT !["summary"] = {Current}]
           /\ written = 3 => disk' = [disk EXCEPT !["markdown"] = {Current}]
           /\ written \in 0 .. 3
  <1>1. /\ disk \in [Files -> SUBSET Entry] /\ written \in 0 .. 4
        /\ written < 4
    BY ArtifactFacts DEF SoakTypes, WriteArtifact
  <1>2. {"reconnects", "reconciliations", "summary", "markdown"} \subseteq Files
    BY DEF Files, Rows
  <1> DEFINE f == Artifacts[written + 1]
  <1>3. disk' = [disk EXCEPT ![f] = IF f \in Rows THEN @ \cup {Current}
                                    ELSE {Current}]
    BY DEF WriteArtifact
  <1>4. /\ written = 0 => f = "reconnects"
        /\ written = 1 => f = "reconciliations"
        /\ written = 2 => f = "summary"
        /\ written = 3 => f = "markdown"
    BY ArtifactFacts
  <1>5. /\ "reconnects" \in Rows /\ "reconciliations" \in Rows
        /\ "summary" \notin Rows /\ "markdown" \notin Rows
    BY DEF Rows
  <1> HIDE DEF f
  <1>6. written = 0 \/ written = 1 => disk' = [disk EXCEPT ![f] = @ \cup {Current}]
    BY <1>3, <1>4, <1>5
  <1>7. written = 2 \/ written = 3 => disk' = [disk EXCEPT ![f] = {Current}]
    BY <1>3, <1>4, <1>5
  <1> QED  BY <1>1, <1>4, <1>6, <1>7

LEMMA SessionStep == TypeInv /\ SessionInv /\ Session => SessionInv'
  <1> SUFFICES ASSUME TypeInv, SessionInv, Session PROVE SessionInv'
    OBVIOUS
  <1>0. SoakTypes /\ session \in Nat /\ marker.session \in Int /\ MaxSessions \in Nat
    BY BoundAssumption DEF TypeInv, SoakTypes, MarkerType
  <1> USE <1>0 DEF SessionInv
  <1>1. CASE RefuseSession
    BY <1>1
    DEF RefuseSession, MarkerIsOld, ExitIsLast, WrittenIsOnDisk,
        CompletedIsOnDisk, ExitCodeTellsEvidence
  <1>2. CASE StartSession
    BY <1>2
    DEF StartSession, MarkerIsOld, ExitIsLast, WrittenIsOnDisk,
        CompletedIsOnDisk, ExitCodeTellsEvidence
  <1>3. CASE BootstrapFails
    BY <1>3
    DEF BootstrapFails, Leave, MarkerIsOld, ExitIsLast, WrittenIsOnDisk,
        CompletedIsOnDisk, ExitCodeTellsEvidence
  <1>4. CASE StartLoop \/ LoopReturns \/ StartPersisting
    BY <1>4
    DEF StartLoop, LoopReturns, StartPersisting, Enter, Marker, MarkerIsOld,
        ExitIsLast, WrittenIsOnDisk, CompletedIsOnDisk, ExitCodeTellsEvidence
  <1>5. CASE PhaseFails
    BY <1>5
    DEF PhaseFails, PhaseOf, Leave, Marker, MarkerIsOld, ExitIsLast,
        WrittenIsOnDisk, CompletedIsOnDisk, ExitCodeTellsEvidence
  <1>6. CASE WriteArtifact
    <2>1. /\ soak = "persisting" /\ written' = written + 1
          /\ UNCHANGED <<soak, session, run, exit, marker>>
      BY <1>6 DEF WriteArtifact
    <2>2. Current' = Current
      BY <2>1 DEF Current
    <2>3. /\ disk \in [Files -> SUBSET Entry]
          /\ {"reconnects", "reconciliations", "summary", "markdown"} \subseteq Files
      BY DEF SoakTypes, Files, Rows
    <2>4. MarkerIsOld' /\ ExitIsLast' /\ ExitCodeTellsEvidence'
      BY <2>1 DEF MarkerIsOld, ExitIsLast, ExitCodeTellsEvidence
    <2>5. CompletedIsOnDisk'
      BY <2>1 DEF WrittenIsOnDisk, CompletedIsOnDisk
    <2>6. WrittenIsOnDisk'
      BY <1>6, <2>1, <2>2, <2>3, WriteEffect DEF WrittenIsOnDisk
    <2> QED  BY <2>4, <2>5, <2>6
  <1>7. CASE MarkCompleted
    <2>1. /\ soak = "persisting" /\ soak' = "completed" /\ written = 4
          /\ marker' = Marker(session, "artifact_writer.persist", "completed")
          /\ UNCHANGED <<session, run, written, exit, disk>>
      BY <1>7, ArtifactFacts DEF MarkCompleted
    <2>2. MarkerIsOld' /\ ExitIsLast' /\ ExitCodeTellsEvidence'
      BY <2>1 DEF MarkerIsOld, ExitIsLast, ExitCodeTellsEvidence, Marker
    <2>3. CompletedIsOnDisk'
      BY <2>1 DEF WrittenIsOnDisk, CompletedIsOnDisk, Marker, Current
    <2>4. WrittenIsOnDisk'
      BY <2>1 DEF WrittenIsOnDisk, Current
    <2> QED  BY <2>2, <2>3, <2>4
  <1>8. CASE Exit
    <2>1. /\ soak = "completed" /\ soak' = "off"
          /\ exit' = IF run.reason = "completed" THEN "0" ELSE "2"
          /\ UNCHANGED <<session, run, written, marker, disk>>
      BY <1>8 DEF Exit, Leave
    <2>2. MarkerIsOld' /\ ExitIsLast' /\ WrittenIsOnDisk' /\ CompletedIsOnDisk'
      BY <2>1 DEF MarkerIsOld, ExitIsLast, WrittenIsOnDisk, CompletedIsOnDisk
    <2>3. ExitCodeTellsEvidence'
      BY <2>1 DEF WrittenIsOnDisk, ExitCodeTellsEvidence, Current, Files, Rows
    <2> QED  BY <2>2, <2>3
  <1>9. CASE KillSession
    BY <1>9
    DEF KillSession, Leave, MarkerIsOld, ExitIsLast, WrittenIsOnDisk,
        CompletedIsOnDisk, ExitCodeTellsEvidence
  <1> QED
    BY <1>1, <1>2, <1>3, <1>4, <1>5, <1>6, <1>7, <1>8, <1>9 DEF Session

\* Nobody else writes the files of a session.
LEMMA OthersKeepSession == [Next]_vars => Session \/ UNCHANGED soakVars
  BY DEF Next, vars, Scheduler, StartScheduler, LogSchedule, WindowAborted,
         WindowSkipped, LaunchWindow, WindowDone, ScheduleComplete,
         KillScheduler, Driver, CreateAccepted, CreateRejected, CancelAccepted,
         CancelRejected, FillAttempt, DriverRaises, WriteSummary, WriteResult,
         KillDriver, Builder, ReadScheduler, ReadResults, ReadSummary,
         ReadMarker, ReadRows, ReadReconnects, Judge, Harness, HarnessRefused,
         HarnessPrepares, HarnessStart, HarnessReports

LEMMA NextSession == TypeInv /\ SessionInv /\ [Next]_vars => SessionInv'
  BY OthersKeepSession, SessionStep, SessionFrame

LEMMA SessionInvariant == Spec => [](TypeInv /\ SessionInv)
  <1>1. Init => TypeInv /\ SessionInv
    BY InitType, InitSession
  <1>2. (TypeInv /\ SessionInv) /\ [Next]_vars => (TypeInv /\ SessionInv)'
    BY NextType, NextSession
  <1> QED  BY <1>1, <1>2, PTL DEF Spec

\* A session that ends with 0 or 2 has written all of its artifacts and the
\* marker of its completion; one that ends with 1 never has (main).
THEOREM ExitCodes == Spec => []ExitCodeTellsEvidence
  <1>1. SessionInv => ExitCodeTellsEvidence
    BY DEF SessionInv
  <1> QED  BY <1>1, SessionInvariant, PTL

LEMMA NextExercise ==
    TypeInv /\ SessionInv /\ ExerciseSuccessIsFresh /\ [Next]_vars =>
        ExerciseSuccessIsFresh'
  <1> SUFFICES ASSUME TypeInv, SessionInv, ExerciseSuccessIsFresh, [Next]_vars
               PROVE  ExerciseSuccessIsFresh'
    OBVIOUS
  <1>1. CASE UNCHANGED report
    BY <1>1 DEF ExerciseSuccessIsFresh
  <1>2. CASE HarnessRefused \/ HarnessPrepares
    BY <1>2 DEF HarnessRefused, HarnessPrepares, ExerciseSuccessIsFresh, NoReport
  <1>3. CASE HarnessReports
    <2> SUFFICES ASSUME exit = "0"
                 PROVE  /\ Current \in disk["summary"]
                        /\ Current.session = session
                        /\ Current.run.reason = "completed"
      BY <1>3 DEF HarnessReports, ExerciseSuccessIsFresh, SummaryOnDisk
    <2> QED
      BY DEF SessionInv, ExitCodeTellsEvidence, Current, Files
  <1>4. UNCHANGED report \/ HarnessRefused \/ HarnessPrepares \/ HarnessReports
    BY DEF Next, vars, harnessVars, Session, RefuseSession, StartSession,
           BootstrapFails, StartLoop, LoopReturns, StartPersisting, PhaseFails,
           WriteArtifact, MarkCompleted, Exit, KillSession, Scheduler,
           StartScheduler, LogSchedule, WindowAborted, WindowSkipped,
           LaunchWindow, WindowDone, ScheduleComplete, KillScheduler, Driver,
           CreateAccepted, CreateRejected, CancelAccepted, CancelRejected,
           FillAttempt, DriverRaises, WriteSummary, WriteResult, KillDriver,
           Builder, ReadScheduler, ReadResults, ReadSummary, ReadMarker,
           ReadRows, ReadReconnects, Judge, Harness, HarnessStart
  <1> QED  BY <1>1, <1>2, <1>3, <1>4

\* The harness reports success for the session it started itself, and then
\* with the summary of that session; or, of an exercise that was only prepared,
\* with a report that tells of no session at all.  Never does it report the
\* success of a session whose summary it only found (main of the exercise).
THEOREM ExercisesAreFresh == Spec => []ExerciseSuccessIsFresh
  <1>1. Init => ExerciseSuccessIsFresh
    BY DEF Init, ExerciseSuccessIsFresh, NoReport
  <1>2. TypeInv /\ SessionInv /\ ExerciseSuccessIsFresh /\ [Next]_vars =>
            ExerciseSuccessIsFresh'
    BY NextExercise
  <1> QED  BY <1>1, <1>2, SessionInvariant, PTL DEF Spec

-----------------------------------------------------------------------------
(* What a window leaves behind.                                            *)

LEMMA InitDriver == Init => DriverInv
  <1> SUFFICES ASSUME Init PROVE DriverInv
    OBVIOUS
  <1>1. /\ 1 \in DOMAIN Plan /\ Here = Plan[1]
        /\ \A w \in Windows : results[w] = NoResult
        /\ \A j \in DOMAIN Plan : results[Plan[j]] = NoResult
    BY PlanFacts DEF Init, Here
  <1>2. NoResult # "SUCCESS" /\ NoResult \notin Continues
    BY DEF NoResult, Continues
  <1>3. driver = "off" /\ legs = {}
    BY DEF Init
  <1> QED
    BY <1>1, <1>2, <1>3
    DEF DriverInv, DriverHasWindow, LegsAreOfDriver, PendingHasNoResult,
        SummaryComesFirst, SuccessLeavesNoOrder, Here, Init

LEMMA DriverFrame ==
    ASSUME DriverInv, UNCHANGED <<schedVars, driverVars>>
    PROVE  DriverInv'
  BY DEF DriverInv, schedVars, driverVars, DriverHasWindow, LegsAreOfDriver,
         PendingHasNoResult, SummaryComesFirst, SuccessLeavesNoOrder, Here

LEMMA SchedulerKeepsDriver == TypeInv /\ DriverInv /\ Scheduler => DriverInv'
  <1> SUFFICES ASSUME TypeInv, DriverInv, Scheduler PROVE DriverInv'
    OBVIOUS
  <1>0. window \in 1 .. Len(Plan) /\ window \in DOMAIN Plan
    BY PlanFacts DEF TypeInv, SchedTypes
  <1> USE PlanFacts
      DEF DriverInv, driverVars, DriverHasWindow, LegsAreOfDriver,
          PendingHasNoResult, SummaryComesFirst, SuccessLeavesNoOrder, Here
  <1>1. CASE StartScheduler \/ LogSchedule \/ WindowAborted \/ ScheduleComplete
             \/ KillScheduler
    BY <1>1
    DEF StartScheduler, LogSchedule, WindowAborted, ScheduleComplete,
        KillScheduler
  <1>2. CASE LaunchWindow
    BY <1>2 DEF LaunchWindow
  <1>3. CASE WindowSkipped \/ WindowDone
    <2>1. driver = "off" /\ sched \in {"wait", "running"} /\ UNCHANGED driverVars
      BY <1>3 DEF WindowSkipped, WindowDone
    <2>2. \/ sched' = "ended" /\ UNCHANGED window
          \/ sched' = "complete" /\ UNCHANGED window
          \/ /\ sched' = "wait" /\ window # Len(Plan) /\ window' = window + 1
      BY <1>3 DEF WindowSkipped, WindowDone, NextWindow
    <2>3. window' \in DOMAIN Plan
      BY <1>0, <2>2
    <2> QED  BY <1>0, <2>1, <2>2, <2>3
  <1> QED  BY <1>1, <1>2, <1>3 DEF Scheduler

LEMMA DriverStep == TypeInv /\ DriverInv /\ Driver => DriverInv'
  <1> SUFFICES ASSUME TypeInv, DriverInv, Driver PROVE DriverInv'
    OBVIOUS
  <1>0. /\ window \in DOMAIN Plan /\ Here \in Windows /\ DOMAIN Plan \subseteq Int
        /\ \A j \in DOMAIN Plan : j > window => Plan[j] # Here
        /\ results \in ResultsType
        /\ orders \in [Windows -> {"none", "open", "canceled"}]
        /\ AfterCancel \in {"fill", "report"}
    BY PlanFacts DEF TypeInv, SchedTypes, DriverTypes, Here, AfterCancel
  <1>1. UNCHANGED <<sched, window, log>> /\ Here' = Here /\ driver # "off"
    BY DEF Driver, CreateAccepted, CreateRejected, CancelAccepted,
           CancelRejected, FillAttempt, DriverRaises, WriteSummary,
           WriteResult, KillDriver, schedVars, Here
  <1>2. results[Here] = NoResult /\ results[Here] # "SUCCESS"
    BY Zenon, <1>1 DEF DriverInv, PendingHasNoResult, Here, NoResult
  <1> USE <1>0, <1>1, <1>2 DEF DriverInv
  <1>3. CASE CreateAccepted \/ CreateRejected \/ CancelAccepted
             \/ CancelRejected \/ FillAttempt
    <2>1. UNCHANGED <<results, summaries>> /\ driver' \notin {"off", "create", "result"}
      BY <1>3 DEF CreateAccepted, CreateRejected, CancelAccepted,
                  CancelRejected, FillAttempt
    <2>2. SuccessLeavesNoOrder'
      BY <1>3, <2>1
      DEF SuccessLeavesNoOrder, CreateAccepted, CreateRejected,
          CancelAccepted, CancelRejected, FillAttempt
    <2>3. LegsAreOfDriver'
      BY <1>3, <2>1
      DEF LegsAreOfDriver, CreateAccepted, CreateRejected, CancelAccepted,
          CancelRejected, FillAttempt, PriceBand
    <2> QED
      BY <2>1, <2>2, <2>3
      DEF DriverHasWindow, PendingHasNoResult, SummaryComesFirst, Here
  <1>4. CASE DriverRaises
    <2>1. /\ driver' = "off" /\ legs' = {} /\ UNCHANGED summaries
          /\ results' = [results EXCEPT ![Here] = "FATAL_FAILURE"]
          /\ \A w \in Windows \ {Here} : orders'[w] = orders[w]
      BY <1>4 DEF DriverRaises
    <2>2. SuccessLeavesNoOrder'
      BY <2>1 DEF SuccessLeavesNoOrder, ResultsType
    <2>3. PendingHasNoResult'
      BY <2>1, PlanFacts DEF PendingHasNoResult, ResultsType, DriverHasWindow
    <2>4. SummaryComesFirst'
      BY <2>1 DEF SummaryComesFirst, ResultsType, Continues
    <2> QED  BY <2>1, <2>2, <2>3, <2>4 DEF DriverHasWindow, LegsAreOfDriver
  <1>5. CASE WriteSummary
    BY <1>5
    DEF WriteSummary, DriverHasWindow, LegsAreOfDriver, PendingHasNoResult,
        SummaryComesFirst, SuccessLeavesNoOrder, Here
  <1>6. CASE WriteResult
    <2>1. /\ driver = "result" /\ driver' = "off" /\ legs' = {}
          /\ results' = [results EXCEPT ![Here] = Outcome]
          /\ UNCHANGED <<summaries, orders>>
      BY <1>6 DEF WriteResult
    <2>2. Outcome = "SUCCESS" => orders[Here] = "canceled"
      BY DEF Outcome, LegsAreOfDriver
    <2>3. SuccessLeavesNoOrder'
      BY <2>1, <2>2 DEF SuccessLeavesNoOrder, ResultsType
    <2>4. PendingHasNoResult'
      BY <2>1, PlanFacts DEF PendingHasNoResult, ResultsType, DriverHasWindow
    <2>5. SummaryComesFirst'
      BY <2>1 DEF SummaryComesFirst, ResultsType
    <2> QED  BY <2>1, <2>3, <2>4, <2>5 DEF DriverHasWindow, LegsAreOfDriver
  <1>7. CASE KillDriver
    BY <1>7
    DEF KillDriver, DriverHasWindow, LegsAreOfDriver, PendingHasNoResult,
        SummaryComesFirst, SuccessLeavesNoOrder, Here
  <1> QED
    BY <1>3, <1>4, <1>5, <1>6, <1>7 DEF Driver

\* Sessions, the builder and the harness leave the windows alone.
LEMMA OthersKeepWindows ==
    [Next]_vars => Scheduler \/ Driver \/ UNCHANGED <<schedVars, driverVars>>
  BY DEF Next, vars, Session, RefuseSession, StartSession, BootstrapFails,
         StartLoop, LoopReturns, StartPersisting, PhaseFails, WriteArtifact,
         MarkCompleted, Exit, KillSession, Builder, ReadScheduler,
         ReadResults, ReadSummary, ReadMarker, ReadRows, ReadReconnects,
         Judge, Harness, HarnessRefused, HarnessPrepares,
         HarnessStart, HarnessReports

LEMMA NextDriver == TypeInv /\ DriverInv /\ [Next]_vars => DriverInv'
  BY OthersKeepWindows, SchedulerKeepsDriver, DriverStep, DriverFrame

LEMMA DriverInvariant == Spec => [](TypeInv /\ DriverInv)
  <1>1. Init => TypeInv /\ DriverInv
    BY InitType, InitDriver
  <1>2. (TypeInv /\ DriverInv) /\ [Next]_vars => (TypeInv /\ DriverInv)'
    BY NextType, NextDriver
  <1> QED  BY <1>1, <1>2, PTL DEF Spec

\* A window told as a success has its order canceled at the venue, whatever
\* was killed, raised or refused (_classify_window_outcome).
THEOREM SuccessesLeaveNoOrder == Spec => []SuccessLeavesNoOrder
  <1>1. DriverInv => SuccessLeavesNoOrder
    BY DEF DriverInv
  <1> QED  BY <1>1, DriverInvariant, PTL

-----------------------------------------------------------------------------
(* What the log of the scheduler tells.                                    *)

\* One more event in the log.
LEMMA LoggedEvent ==
    ASSUME log \in Seq(EventType), NEW e, NEW w, NEW o, Logged(e, w, o)
    PROVE  /\ \A v : Done(v)' <=> (Done(v) \/ (e = "window_done" /\ v = w))
           /\ CompleteLogged' <=> (CompleteLogged \/ e = "scheduler_complete")
  <1> DEFINE n == Len(log)
             x == Event(e, w, o)
  <1>1. n \in Nat /\ DOMAIN log = 1 .. n
    OBVIOUS
  <1>2. x.event = e /\ x.window = w
    BY DEF Event
  <1>3. log' = Append(log, x)
    BY DEF Logged
  <1> HIDE DEF x
  <1>4. /\ DOMAIN log' = 1 .. n + 1 /\ log'[n + 1] = x
        /\ \A i \in 1 .. n : log'[i] = log[i]
    BY <1>3
  <1> HIDE DEF n
  <1>5. 1 .. n + 1 = (1 .. n) \cup {n + 1}
    BY <1>1
  <1>6. ASSUME NEW v
        PROVE  Done(v)' <=> (Done(v) \/ (e = "window_done" /\ v = w))
    <2>1. Done(v)' <=> \E i \in DOMAIN log' :
                          log'[i].event = "window_done" /\ log'[i].window = v
      BY DEF Done
    <2>2. @ <=> \/ \E i \in 1 .. n : log'[i].event = "window_done" /\ log'[i].window = v
                \/ log'[n + 1].event = "window_done" /\ log'[n + 1].window = v
      BY <1>4, <1>5
    <2>3. @ <=> Done(v) \/ (e = "window_done" /\ v = w)
      BY <1>1, <1>2, <1>4 DEF Done
    <2> QED  BY <2>1, <2>2, <2>3
  <1>7. CompleteLogged' <=> (CompleteLogged \/ e = "scheduler_complete")
    BY <1>1, <1>2, <1>4, <1>5 DEF CompleteLogged
  <1> QED  BY <1>6, <1>7

LEMMA InitSchedule == Init => ScheduleInv
  BY DEF Init, ScheduleInv, DoneIsPast, DoneIsUsable, EndIsLast,
         StartHasMarker, Done, CompleteLogged

\* The marker of a session that is past its preparation is there.
LEMMA MarkerStays ==
    ASSUME TypeInv, SessionInv, [Next]_vars, marker # NoMarker
    PROVE  marker' # NoMarker
  <1>1. UNCHANGED marker \/ \E p \in Phases : \E t : marker' = Marker(session, p, t)
    <2>1. Session \/ UNCHANGED soakVars
      BY OthersKeepSession
    <2>2. CASE StartLoop \/ LoopReturns \/ StartPersisting \/ MarkCompleted
      BY <2>2
      DEF StartLoop, LoopReturns, StartPersisting, MarkCompleted, Enter, Phases
    <2>3. CASE PhaseFails
      <3>1. PhaseOf[soak] \in Phases
        BY <2>3 DEF PhaseFails, PhaseOf, Phases
      <3> QED  BY <2>3, <3>1 DEF PhaseFails
    <2>4. CASE RefuseSession \/ StartSession \/ BootstrapFails \/ WriteArtifact
               \/ Exit \/ KillSession \/ UNCHANGED soakVars
      BY <2>4 DEF RefuseSession, StartSession, BootstrapFails, WriteArtifact,
                  Exit, KillSession, soakVars
    <2> QED  BY <2>1, <2>2, <2>3, <2>4 DEF Session
  <1>2. \A p \in Phases : \A t : Marker(session, p, t) # NoMarker
    BY DEF Marker, NoMarker, Phases
  <1> QED  BY <1>1, <1>2

LEMMA ScheduleFrame ==
    ASSUME TypeInv, SessionInv, ScheduleInv, [Next]_vars,
           UNCHANGED <<schedVars, driverVars>>
    PROVE  ScheduleInv'
  <1>1. DoneIsPast' /\ DoneIsUsable' /\ EndIsLast'
    BY DEF ScheduleInv, schedVars, driverVars, DoneIsPast, DoneIsUsable,
           EndIsLast, Done, CompleteLogged, Here
  <1>2. StartHasMarker'
    BY MarkerStays DEF ScheduleInv, StartHasMarker, schedVars
  <1> QED  BY <1>1, <1>2 DEF ScheduleInv

LEMMA DriverKeepsSchedule ==
    ASSUME TypeInv, DriverInv, ScheduleInv, Driver
    PROVE  ScheduleInv'
  <1>1. /\ UNCHANGED <<sched, window, log, marker>> /\ driver # "off"
        /\ UNCHANGED results \/ \E r \in Outcomes : results' = [results EXCEPT ![Here] = r]
    <2>1. Outcome \in Outcomes /\ "FATAL_FAILURE" \in Outcomes
      BY DEF Outcome, Outcomes
    <2> QED
      BY <2>1
      DEF Driver, CreateAccepted, CreateRejected, CancelAccepted,
          CancelRejected, FillAttempt, DriverRaises, WriteSummary,
          WriteResult, KillDriver, schedVars, soakVars
  <1>2. /\ window \in DOMAIN Plan /\ results \in ResultsType
        /\ \A j \in DOMAIN Plan : Plan[j] \in Windows /\ j \in Int
        /\ \A j \in DOMAIN Plan : j < window => Plan[j] # Here
    BY PlanFacts DEF TypeInv, SchedTypes, DriverTypes, Here
  <1>3. sched \in {"running", "ended"} /\ ~CompleteLogged
    BY <1>1 DEF DriverInv, DriverHasWindow, ScheduleInv, EndIsLast
  <1>4. (CompleteLogged' <=> CompleteLogged) /\ \A v : Done(v)' <=> Done(v)
    BY <1>1 DEF CompleteLogged, Done
  <1>5. \A j \in DOMAIN Plan : j < window => results'[Plan[j]] = results[Plan[j]]
    BY <1>1, <1>2 DEF ResultsType
  <1>6. DoneIsPast' /\ EndIsLast' /\ StartHasMarker'
    BY <1>1, <1>3, <1>4
    DEF ScheduleInv, DoneIsPast, EndIsLast, StartHasMarker, Here
  <1>7. DoneIsUsable'
    BY <1>1, <1>3, <1>4, <1>5 DEF ScheduleInv, DoneIsUsable
  <1> QED  BY <1>6, <1>7 DEF ScheduleInv

LEMMA SchedulerStep ==
    ASSUME TypeInv, SessionInv, DriverInv, ScheduleInv, Scheduler
    PROVE  ScheduleInv'
  <1>0. /\ log \in Seq(EventType) /\ window \in DOMAIN Plan /\ window \in Int
        /\ window <= Len(Plan) /\ Len(Plan) \in Int
        /\ \A j \in DOMAIN Plan : j \in Int /\ j <= Len(Plan)
        /\ \A i, j \in DOMAIN Plan : Plan[i] = Plan[j] => i = j
    BY PlanFacts DEF TypeInv, SchedTypes
  <1>1. UNCHANGED <<marker, results>>
    BY DEF Scheduler, StartScheduler, LogSchedule, WindowAborted,
           WindowSkipped, LaunchWindow, WindowDone, ScheduleComplete,
           KillScheduler, soakVars, driverVars
  <1> USE <1>0, <1>1
  <1>2. CASE StartScheduler
    <2>1. UNCHANGED <<window, log, driver>> /\ sched = "off" /\ sched' = "manifest"
      BY <1>2 DEF StartScheduler, driverVars
    <2>2. marker # NoMarker
      BY <1>2
      DEF StartScheduler, TypeInv, SoakTypes, SessionInv, MarkerIsOld, NoMarker
    <2> QED
      BY <2>1, <2>2
      DEF ScheduleInv, DoneIsPast, DoneIsUsable, EndIsLast, StartHasMarker,
          Done, CompleteLogged, Here
  <1>3. CASE KillScheduler
    BY <1>3
    DEF KillScheduler, driverVars, ScheduleInv, DoneIsPast, DoneIsUsable,
        EndIsLast, StartHasMarker, Done, CompleteLogged, Here
  <1>4. CASE LogSchedule
    <2>1. /\ Logged("scheduler_start", NoWindow, NoResult)
          /\ sched = "manifest" /\ sched' = "wait" /\ UNCHANGED <<window, driver>>
      BY <1>4 DEF LogSchedule, driverVars
    <2>2. (CompleteLogged' <=> CompleteLogged) /\ \A v : Done(v)' <=> Done(v)
      BY <2>1, LoggedEvent
    <2> QED
      BY <2>1, <2>2
      DEF ScheduleInv, DoneIsPast, DoneIsUsable, EndIsLast, StartHasMarker, Here
  <1>5. CASE WindowAborted
    <2>1. /\ Logged("window_aborted_late", Plan[window], NoResult)
          /\ sched = "wait" /\ sched' = "ended" /\ UNCHANGED <<window, driver>>
      BY <1>5 DEF WindowAborted, driverVars
    <2>2. (CompleteLogged' <=> CompleteLogged) /\ \A v : Done(v)' <=> Done(v)
      BY <2>1, LoggedEvent
    <2> QED
      BY <2>1, <2>2
      DEF ScheduleInv, DoneIsPast, DoneIsUsable, EndIsLast, StartHasMarker, Here
  <1>6. CASE LaunchWindow
    <2>1. /\ Logged("window_start", Plan[window], NoResult)
          /\ sched = "wait" /\ sched' = "running" /\ UNCHANGED window
      BY <1>6 DEF LaunchWindow
    <2>2. (CompleteLogged' <=> CompleteLogged) /\ \A v : Done(v)' <=> Done(v)
      BY <2>1, LoggedEvent
    <2> QED
      BY <2>1, <2>2
      DEF ScheduleInv, DoneIsPast, DoneIsUsable, EndIsLast, StartHasMarker, Here
  <1>7. CASE WindowSkipped
    <2>1. /\ Logged("window_skipped_late", Plan[window], NoResult)
          /\ sched = "wait" /\ NextWindow /\ UNCHANGED driver
      BY <1>7 DEF WindowSkipped, driverVars
    <2>2. (CompleteLogged' <=> CompleteLogged) /\ \A v : Done(v)' <=> Done(v)
      BY <2>1, LoggedEvent
    <2>3. ~Done(Here) /\ ~CompleteLogged /\ marker # NoMarker
      BY <2>1 DEF ScheduleInv, DoneIsPast, EndIsLast, StartHasMarker
    <2> QED
      BY <2>1, <2>2, <2>3
      DEF ScheduleInv, DoneIsPast, DoneIsUsable, EndIsLast, StartHasMarker,
          Here, NextWindow
  <1>8. CASE WindowDone
    <2> DEFINE found == results[Here]
               told == IF found = NoResult THEN "FATAL_FAILURE" ELSE found
    <2>1. /\ Logged("window_done", Here, told) /\ sched = "running"
          /\ driver = "off" /\ UNCHANGED driver
          /\ IF found \in Continues THEN NextWindow
             ELSE sched' = "ended" /\ UNCHANGED window
      BY <1>8 DEF WindowDone, driverVars, Here
    <2>2. /\ CompleteLogged' <=> CompleteLogged
          /\ \A v : Done(v)' <=> (Done(v) \/ v = Here)
      BY <2>1, LoggedEvent
    <2>3. ~CompleteLogged /\ marker # NoMarker
      BY <2>1 DEF ScheduleInv, EndIsLast, StartHasMarker
    <2>4. \A j \in DOMAIN Plan : Plan[j] = Here <=> j = window
      BY DEF Here
    <2>5. window' = window \/ window' = window + 1
      BY <2>1 DEF NextWindow
    <2>6. DoneIsPast'
      <3>1. \A j \in DOMAIN Plan : Done(Plan[j])' => j <= window'
        BY <2>2, <2>4, <2>5 DEF ScheduleInv, DoneIsPast
      <3>2. CASE sched' = "wait"
        <4>1. window' = window + 1 /\ window' \in DOMAIN Plan
          BY <2>1, <3>2, PlanFacts DEF NextWindow
        <4>2. \A j \in DOMAIN Plan : j = window + 1 => ~Done(Plan[j])'
          BY <2>2, <2>4 DEF ScheduleInv, DoneIsPast
        <4>3. ~Done(Here)'
          BY <4>1, <4>2 DEF Done, Here
        <4> QED  BY <3>1, <4>3 DEF DoneIsPast
      <3>3. CASE sched' \in {"complete", "ended"}
        BY <3>1, <3>3 DEF DoneIsPast
      <3> QED  BY <2>1, <3>2, <3>3 DEF NextWindow
    <2>7. DoneIsUsable'
      <3> SUFFICES ASSUME NEW j \in DOMAIN Plan, Done(Plan[j])',
                          j < window' \/ sched' = "complete"
                   PROVE  results[Plan[j]] \in Continues
        BY <2>2, <2>3 DEF DoneIsUsable
      <3>1. CASE Plan[j] = Here
        BY <2>1, <2>4, <3>1
      <3>2. CASE Plan[j] # Here
        <4>1. Done(Plan[j]) /\ j <= window /\ j # window
          BY <2>2, <2>4, <3>2 DEF ScheduleInv, DoneIsPast
        <4> QED  BY <4>1 DEF ScheduleInv, DoneIsUsable
      <3> QED  BY <3>1, <3>2
    <2> QED
      BY <2>2, <2>3, <2>6, <2>7 DEF ScheduleInv, EndIsLast, StartHasMarker
  <1>9. CASE ScheduleComplete
    <2>1. /\ Logged("scheduler_complete", NoWindow, NoResult)
          /\ sched = "complete" /\ sched' = "ended" /\ UNCHANGED <<window, driver>>
      BY <1>9 DEF ScheduleComplete, driverVars
    <2>2. CompleteLogged' /\ \A v : Done(v)' <=> Done(v)
      BY <2>1, LoggedEvent
    <2>3. driver = "off"
      BY <2>1 DEF DriverInv, DriverHasWindow
    <2> QED
      BY <2>1, <2>2, <2>3
      DEF ScheduleInv, DoneIsPast, DoneIsUsable, EndIsLast, StartHasMarker, Here
  <1> QED
    BY <1>2, <1>3, <1>4, <1>5, <1>6, <1>7, <1>8, <1>9 DEF Scheduler

LEMMA NextSchedule ==
    TypeInv /\ SessionInv /\ DriverInv /\ ScheduleInv /\ [Next]_vars =>
        ScheduleInv'
  BY OthersKeepWindows, SchedulerStep, DriverKeepsSchedule, ScheduleFrame

-----------------------------------------------------------------------------
(* What the builder has read.                                              *)

\* Rows are appended to and an artifact, once there, is only replaced.
LEMMA FilesOnlyGrow ==
    ASSUME TypeInv, Session
    PROVE  /\ \A f \in Rows : disk[f] \subseteq disk'[f]
           /\ disk["summary"] # {} => disk'["summary"] # {}
           /\ disk["markdown"] # {} => disk'["markdown"] # {}
  <1>1. CASE UNCHANGED disk
    BY <1>1
  <1>2. CASE WriteArtifact
    <2>1. SoakTypes /\ disk \in [Files -> SUBSET Entry] /\ Rows \subseteq Files
          /\ "summary" \in Files \ Rows /\ "markdown" \in Files \ Rows
      BY DEF TypeInv, SoakTypes, Files, Rows
    <2>2. PICK f \in Files, d \in SUBSET Entry :
              /\ disk' = [disk EXCEPT ![f] = d] /\ d # {}
              /\ f \in Rows => disk[f] \subseteq d
      <3>1. Current \in Entry
        BY <1>2, <2>1, SessionTypes DEF WriteArtifact
      <3>2. /\ disk["reconnects"] \in SUBSET Entry
            /\ disk["reconciliations"] \in SUBSET Entry
            /\ "reconnects" \in Rows /\ "reconciliations" \in Rows
        BY <2>1 DEF Rows
      <3> QED  BY <1>2, <2>1, <3>1, <3>2, WriteEffect
    <2> QED  BY <2>1, <2>2
  <1>3. UNCHANGED disk \/ WriteArtifact
    BY DEF Session, RefuseSession, StartSession, BootstrapFails, StartLoop,
           LoopReturns, StartPersisting, PhaseFails, MarkCompleted, Exit,
           KillSession
  <1> QED  BY <1>1, <1>2, <1>3

LEMMA InitBuilder == Init => BuilderInv
  BY DEF Init, BuilderInv, BuilderIsAlone, SeenSchedule, SeenResults,
         SeenSummary, SeenMarker, SeenRows

\* While the builder reads no window runs, and no session that it does not
\* overlap with.
LEMMA ReaderIsAlone ==
    ASSUME TypeInv, BuilderIsAlone, gate # "idle"
    PROVE  ~Scheduler /\ ~Driver /\ (Session => overlap)
  <1>1. sched \in {"off", "ended"} /\ driver = "off" /\ (overlap \/ soak = "off")
    BY DEF BuilderIsAlone, ScheduleAtRest
  <1>2. ~Scheduler
    BY <1>1 DEF Scheduler, StartScheduler, LogSchedule, WindowAborted,
                WindowSkipped, LaunchWindow, WindowDone, ScheduleComplete,
                KillScheduler
  <1>3. ~Driver
    BY <1>1 DEF Driver, CreateAccepted, CreateRejected, CancelAccepted,
                CancelRejected, FillAttempt, DriverRaises, WriteSummary,
                WriteResult, KillDriver
  <1>4. Session => overlap
    <2> SUFFICES ASSUME Session, soak = "off" PROVE overlap
      BY <1>1
    <2>1. RefuseSession \/ StartSession
      BY DEF Session, BootstrapFails, StartLoop, LoopReturns, StartPersisting,
             PhaseFails, PhaseOf, WriteArtifact, MarkCompleted, Exit, KillSession
    <2> QED  BY <2>1 DEF RefuseSession, StartSession, Undisturbed
  <1> QED  BY <1>2, <1>3, <1>4

LEMMA SessionKeepsBuilder == TypeInv /\ BuilderInv /\ Session => BuilderInv'
  <1> SUFFICES ASSUME TypeInv, BuilderInv, Session PROVE BuilderInv'
    OBVIOUS
  <1>1. UNCHANGED <<overlap, sched, window, log, driver, results, priced, gate,
                    seen>>
    BY DEF Session, RefuseSession, StartSession, BootstrapFails, StartLoop,
           LoopReturns, StartPersisting, PhaseFails, WriteArtifact,
           MarkCompleted, Exit, KillSession, options, schedVars, driverVars,
           gateVars
  <1>2. CASE gate = "idle"
    BY <1>1, <1>2
    DEF BuilderInv, BuilderIsAlone, SeenSchedule, SeenResults, SeenSummary,
        SeenMarker, SeenRows
  <1>3. CASE gate # "idle"
    <2>1. overlap
      BY <1>3, ReaderIsAlone DEF BuilderInv
    <2>2. BuilderIsAlone' /\ SeenSummary' /\ SeenRows' /\ SeenResults'
      BY <1>1, <2>1
      DEF BuilderInv, BuilderIsAlone, ScheduleAtRest, SeenResults, SeenSummary,
          SeenRows
    <2>3. SeenSchedule'
      BY <1>1
      DEF BuilderInv, SeenSchedule, SchedulerComplete, Done
    <2>4. SeenMarker'
      BY <1>1, <2>1, FilesOnlyGrow DEF BuilderInv, SeenMarker, Exists
    <2> QED  BY <2>2, <2>3, <2>4 DEF BuilderInv
  <1> QED  BY <1>2, <1>3

LEMMA WindowsKeepBuilder ==
    TypeInv /\ BuilderInv /\ (Scheduler \/ Driver) => BuilderInv'
  <1> SUFFICES ASSUME TypeInv, BuilderInv, Scheduler \/ Driver
               PROVE  BuilderInv'
    OBVIOUS
  <1>1. gate = "idle"
    BY ReaderIsAlone DEF BuilderInv
  <1>2. gate' = gate
    BY DEF Scheduler, StartScheduler, LogSchedule, WindowAborted,
           WindowSkipped, LaunchWindow, WindowDone, ScheduleComplete,
           KillScheduler, Driver, CreateAccepted, CreateRejected,
           CancelAccepted, CancelRejected, FillAttempt, DriverRaises,
           WriteSummary, WriteResult, KillDriver, gateVars
  <1> QED
    BY <1>1, <1>2
    DEF BuilderInv, BuilderIsAlone, SeenSchedule, SeenResults, SeenSummary,
        SeenMarker, SeenRows

LEMMA BuilderFrame ==
    BuilderInv /\ UNCHANGED <<options, soakVars, schedVars, driverVars, gateVars>> =>
        BuilderInv'
  <1> SUFFICES ASSUME BuilderInv,
                      UNCHANGED <<options, soakVars, schedVars, driverVars, gateVars>>
               PROVE  BuilderInv'
    OBVIOUS
  <1>1. UNCHANGED <<overlap, soak, marker, disk, sched, log, driver, results,
                    priced, gate, seen>>
    BY DEF options, soakVars, schedVars, driverVars, gateVars
  <1>2. BuilderIsAlone' /\ SeenSchedule' /\ SeenResults' /\ SeenSummary'
    BY <1>1
    DEF BuilderInv, BuilderIsAlone, ScheduleAtRest, SeenSchedule,
        SchedulerComplete, Done, SeenResults, SeenSummary
  <1>3. SeenMarker' /\ SeenRows'
    BY <1>1 DEF BuilderInv, SeenMarker, SeenRows, Exists
  <1> QED  BY <1>2, <1>3 DEF BuilderInv

LEMMA BuilderStep ==
    ASSUME TypeInv, SessionInv, ScheduleInv, BuilderInv, ScheduleAtRest, Builder
    PROVE  BuilderInv'
  <1>0. UNCHANGED <<overlap, soak, marker, disk, sched, window, log, driver, results,
                    priced>>
    BY DEF Builder, ReadScheduler, ReadResults, ReadSummary, ReadMarker,
           ReadRows, ReadReconnects, Judge, options, soakVars, schedVars,
           driverVars
  <1>1. SchedulerComplete' <=> SchedulerComplete
    BY <1>0 DEF SchedulerComplete, Done
  <1>2. seen \in SeenType
    BY Zenon DEF TypeInv, GateTypes
  <1>3. BuilderIsAlone'
    BY <1>0 DEF BuilderInv, BuilderIsAlone, ScheduleAtRest, Builder, Read,
                ReadScheduler, Finished, ReadResults, ReadSummary, ReadMarker,
                ReadRows, ReadReconnects, Judge
  <1> USE <1>0, <1>1, <1>2
  <1>4. CASE ReadScheduler
    <2>1. /\ gate' = "results" /\ seen'.complete = SchedulerComplete
      BY <1>4 DEF ReadScheduler, Read, Nothing
    <2> QED
      BY <1>3, <2>1
      DEF BuilderInv, SeenSchedule, SeenResults, SeenSummary, SeenMarker, SeenRows
  <1>5. CASE ReadResults
    <2>1. /\ gate = "results" /\ gate' = "summary" /\ seen'.results = results
          /\ seen'.priced = priced
          /\ seen'.complete = seen.complete
      BY <1>5 DEF ReadResults, Read, SeenType
    <2> QED
      BY <1>3, <2>1
      DEF BuilderInv, SeenSchedule, SeenResults, SeenSummary, SeenMarker, SeenRows
  <1>6. CASE ReadSummary
    <2>1. /\ gate = "summary" /\ gate' = "marker"
          /\ seen'.summary = disk["summary"]
          /\ seen'.results = seen.results /\ seen'.complete = seen.complete
          /\ seen'.priced = seen.priced
      BY <1>6 DEF ReadSummary, Read, SeenType, SummaryOnDisk
    <2> QED
      BY <1>3, <2>1
      DEF BuilderInv, SeenSchedule, SeenResults, SeenSummary, SeenMarker, SeenRows
  <1>7. CASE ReadMarker
    <2>1. /\ gate = "marker" /\ gate' = "rows" /\ seen'.marker = marker
          /\ seen'.summary = seen.summary
          /\ seen'.results = seen.results /\ seen'.complete = seen.complete
          /\ seen'.priced = seen.priced
      BY <1>7 DEF ReadMarker, Read, SeenType
    <2>2. marker.status = "completed" =>
            /\ \A f \in Rows : \E e \in disk[f] : e.session = marker.session
            /\ Exists("summary") /\ Exists("markdown")
      BY DEF SessionInv, CompletedIsOnDisk, Exists, Rows
    <2>3. SeenMarker'
      BY <2>1, <2>2 DEF SeenMarker, Exists, ScheduleInv, StartHasMarker
    <2> QED
      BY <1>3, <2>1, <2>3
      DEF BuilderInv, SeenSchedule, SeenResults, SeenSummary, SeenRows
  <1>8. CASE ReadRows
    <2>1. /\ gate = "rows" /\ gate' = "reconnects"
          /\ seen'.manual = (\E e \in disk["reconciliations"] : e.run.manual)
          /\ seen'.marker = seen.marker /\ seen'.summary = seen.summary
          /\ seen'.results = seen.results /\ seen'.complete = seen.complete
          /\ seen'.priced = seen.priced
      BY <1>8 DEF ReadRows, Read, SeenType
    <2>2. SeenMarker' /\ SeenRows'
      BY <2>1 DEF BuilderInv, SeenMarker, SeenRows, Exists
    <2> QED
      BY <1>3, <2>1, <2>2
      DEF BuilderInv, SeenSchedule, SeenResults, SeenSummary
  <1>9. CASE ReadReconnects
    <2>1. /\ gate = "reconnects" /\ gate' = "judge"
          /\ seen'.manual = seen.manual
          /\ seen'.marker = seen.marker /\ seen'.summary = seen.summary
          /\ seen'.results = seen.results /\ seen'.complete = seen.complete
          /\ seen'.priced = seen.priced
      BY <1>9 DEF ReadReconnects, Read, SeenType
    <2>2. SeenMarker' /\ SeenRows'
      BY <2>1 DEF BuilderInv, SeenMarker, SeenRows, Exists
    <2> QED
      BY <1>3, <2>1, <2>2
      DEF BuilderInv, SeenSchedule, SeenResults, SeenSummary
  <1>10. CASE Judge
    <2>1. gate' = "idle"
      BY <1>10 DEF Judge, Read
    <2> QED
      BY <1>3, <2>1
      DEF BuilderInv, SeenSchedule, SeenResults, SeenSummary, SeenMarker, SeenRows
  <1> QED
    BY <1>4, <1>5, <1>6, <1>7, <1>8, <1>9, <1>10 DEF Builder

LEMMA NextBuilder == EvidenceInv /\ [Next]_vars => BuilderInv'
  <1> SUFFICES ASSUME EvidenceInv, [Next]_vars PROVE BuilderInv'
    OBVIOUS
  <1>1. CASE Session \/ Scheduler \/ Driver
    BY <1>1, SessionKeepsBuilder, WindowsKeepBuilder DEF EvidenceInv
  <1>2. CASE ScheduleAtRest /\ Builder
    BY <1>2, BuilderStep DEF EvidenceInv
  <1>3. CASE Harness
    <2>1. UNCHANGED <<options, soakVars, schedVars, driverVars, gateVars>>
      BY <1>3 DEF Harness, HarnessRefused, HarnessPrepares,
                  HarnessStart, HarnessReports
    <2> QED  BY <2>1, BuilderFrame DEF EvidenceInv
  <1>4. CASE UNCHANGED vars
    BY <1>4, BuilderFrame DEF EvidenceInv, vars
  <1> QED  BY <1>1, <1>2, <1>3, <1>4 DEF Next

LEMMA EvidenceInvariant == Spec => []EvidenceInv
  <1>1. Init => EvidenceInv
    BY InitType, InitSession, InitDriver, InitSchedule, InitBuilder
    DEF EvidenceInv
  <1>2. EvidenceInv /\ [Next]_vars => EvidenceInv'
    BY NextType, NextSession, NextDriver, NextSchedule, NextBuilder
    DEF EvidenceInv
  <1> QED  BY <1>1, <1>2, PTL DEF Spec

-----------------------------------------------------------------------------
(* What a pass means.                                                      *)

\* A pass has no failure class, and an unqualified one no caution.
LEMMA PassMeans ==
    ASSUME Judge, Passes
    PROVE  /\ ~MissingEvidence
           /\ seen.marker = NoMarker \/ seen.marker.status = "completed"
           /\ seen.complete /\ ~seen.manual
           /\ \A e \in seen.summary : ~Unclean(e.run)
           /\ verdict'[2] = "PASS" => ~Cautions
  <1>1. verdict'[2] = Grade
    BY DEF Judge
  <1>2. FailureClass = "none" /\ (verdict'[2] = "PASS" => ~Cautions)
    BY Zenon, <1>1 DEF Passes, Grade
  <1>3. /\ ~MissingEvidence
        /\ ~(seen.marker # NoMarker /\ seen.marker.status # "completed")
        /\ seen.complete /\ ~seen.manual
        /\ ~ \E e \in seen.summary : Unclean(e.run)
    BY <1>2 DEF FailureClass
  <1> QED  BY <1>2, <1>3

LEMMA PassHasArtifacts ==
    ASSUME EvidenceInv, Judge, Passes
    PROVE  /\ \A f \in Rows : \E e \in disk[f] : e.session = seen.marker.session
           /\ Exists("summary") /\ Exists("markdown")
           /\ overlap \/ \E e \in disk["summary"] :
                /\ e.session = seen.marker.session /\ Clean(e)
                /\ \A f \in Files : e \in disk[f]
  <1>1. gate = "judge"
    BY DEF Judge, Read
  <1>2. sched # "off"
    <2>1. CompleteLogged
      BY <1>1, PassMeans
      DEF EvidenceInv, BuilderInv, SeenSchedule, SchedulerComplete, CompleteLogged
    <2> QED  BY <2>1 DEF EvidenceInv, ScheduleInv, EndIsLast
  <1>3. seen.marker.status = "completed"
    BY <1>1, <1>2, PassMeans DEF EvidenceInv, BuilderInv, SeenMarker
  <1>4. /\ \A f \in Rows : \E e \in disk[f] : e.session = seen.marker.session
        /\ Exists("summary") /\ Exists("markdown")
    BY <1>1, <1>3 DEF EvidenceInv, BuilderInv, SeenMarker
  <1>5. ASSUME ~overlap
        PROVE  \E e \in disk["summary"] :
                  /\ e.session = seen.marker.session /\ Clean(e)
                  /\ \A f \in Files : e \in disk[f]
    <2>1. seen.marker = marker /\ seen.summary = disk["summary"]
      BY <1>1, <1>5 DEF EvidenceInv, BuilderInv, SeenMarker, SeenSummary
    <2>2. PICK e \in disk["summary"] :
              /\ e.session = marker.session
              /\ disk["summary"] = {e} /\ disk["markdown"] = {e}
              /\ e \in disk["reconnects"] /\ e \in disk["reconciliations"]
      BY <1>3, <2>1 DEF EvidenceInv, SessionInv, CompletedIsOnDisk
    <2>3. \A f \in Files : e \in disk[f]
      BY <2>2 DEF Files, Rows
    <2>4. ~Unclean(e.run)
      BY <2>1, PassMeans
    <2>5. e.run.blocked \in BOOLEAN
      <3>1. e \in Entry
        BY DEF EvidenceInv, TypeInv, SoakTypes, Files
      <3> QED  BY <3>1, RunFacts DEF Entry, Runs
    <2> QED  BY <2>1, <2>2, <2>3, <2>4, <2>5 DEF Unclean, Clean
  <1> QED  BY <1>4, <1>5

\* A pass is backed by the files of one session that completed, and without
\* overlap that session is the one of the summary and it was clean
\* (_failure_class, _missing_evidence).
THEOREM PassesHaveArtifacts == Spec => PassIsBackedByArtifacts
  <1>1. EvidenceInv =>
            (Judge /\ Passes =>
                /\ \A f \in Rows : \E e \in disk[f] : e.session = seen.marker.session
                /\ Exists("summary") /\ Exists("markdown")
                /\ overlap \/ \E e \in disk["summary"] :
                     /\ e.session = seen.marker.session /\ Clean(e)
                     /\ \A f \in Files : e \in disk[f])
    BY PassHasArtifacts
  <1> QED  BY <1>1, EvidenceInvariant, PTL DEF PassIsBackedByArtifacts

LEMMA PassHasWindows ==
    ASSUME EvidenceInv, Judge, Passes, NEW w \in Windows
    PROVE  /\ results[w] \in Continues /\ w \in summaries /\ Done(w)
           /\ verdict'[2] = "PASS" => results[w] = "SUCCESS" /\ w \notin priced
  <1>1. gate = "judge"
    BY DEF Judge, Read
  <1>2. SchedulerComplete
    BY <1>1, PassMeans DEF EvidenceInv, BuilderInv, SeenSchedule
  <1>3. CompleteLogged /\ Done(w)
    BY <1>2 DEF SchedulerComplete, CompleteLogged
  <1>4. PICK j \in DOMAIN Plan : w = Plan[j]
    BY PlanFacts
  <1>5. results[w] \in Continues
    BY <1>3, <1>4 DEF EvidenceInv, ScheduleInv, DoneIsUsable
  <1>6. w \in summaries
    BY <1>5 DEF EvidenceInv, DriverInv, SummaryComesFirst
  <1>7. verdict'[2] = "PASS" =>
            results[w] # "PARTIAL_SUCCESS_NONBLOCKING" /\ w \notin priced
    BY <1>1, PassMeans DEF EvidenceInv, BuilderInv, SeenResults, Cautions
  <1> QED  BY <1>3, <1>5, <1>6, <1>7 DEF Continues

\* A pass means that every window of the plan ran to a usable result, and an
\* unqualified one that each created and canceled its order, refused for its
\* price in none of its requests
\* (_scheduler_complete, _detect_known_cautions).
THEOREM PassesHaveWindows == Spec => PassIsBackedByWindows
  <1>1. EvidenceInv =>
            (Judge /\ Passes => \A w \in Windows :
                /\ results[w] \in Continues /\ w \in summaries /\ Done(w)
                /\ verdict'[2] = "PASS" =>
                     results[w] = "SUCCESS" /\ w \notin priced)
    BY PassHasWindows
  <1> QED  BY <1>1, EvidenceInvariant, PTL DEF PassIsBackedByWindows

\* Manual attention in any session under the run id fails the gate, also when
\* a later session is clean: once its rows are on file, and when the builder
\* does not overlap with a session (_manual_attention_count).
THEOREM ManualAttentionFails == Spec => ManualAttentionSticks
  <1>1. EvidenceInv =>
            (Judge /\ (\E e \in disk["reconciliations"] : e.run.manual) =>
                overlap \/ ~Passes)
    <2> SUFFICES ASSUME EvidenceInv, Judge, ~overlap, Passes,
                        \E e \in disk["reconciliations"] : e.run.manual
                 PROVE  FALSE
      OBVIOUS
    <2>1. seen.manual
      BY DEF Judge, Read, EvidenceInv, BuilderInv, SeenRows
    <2> QED  BY <2>1, PassMeans
  <1> QED  BY <1>1, EvidenceInvariant, PTL DEF ManualAttentionSticks
=============================================================================
