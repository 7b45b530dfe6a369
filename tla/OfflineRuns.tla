----------------------------- MODULE OfflineRuns ----------------------------
(***************************************************************************)
(* The offline modes of the runtime: paper sessions                        *)
(* (PaperRunner.run_cycles), parity replays (RuntimeReplayHarness.replay)  *)
(* and dry runs (run_dry_run_session through launch_runtime_rehearsal),    *)
(* with the files they leave.  One process runs at a time; it may be       *)
(* killed between any two writes, and is started again on the same files,  *)
(* which are appended to or overwritten as the code does.                  *)
(*                                                                         *)
(* "run" numbers the processes: the cycle ids and run ids of the code may  *)
(* repeat, so the rows carry the number to tell who wrote them.            *)
(***************************************************************************)
EXTENDS PaperCycle, FiniteSets

CONSTANTS Bars,       \* the bars an input may hold: [valid, price, plan]
          MaxRuns,    \* bound: processes started
          MaxCycles   \* bound: bars taken by all of them

ASSUME OfflineAssumption ==
    /\ Bars \subseteq [valid : BOOLEAN, price : Nat, plan : DOMAIN Asks]
    /\ MaxRuns \in Nat /\ MaxCycles \in Nat

Divides(d, n) == \E m \in 0 .. n : n = m * d

\* Decimal averages are exact, to 28 digits; integers are where the prices are
\* multiples of enough.  The average after the k-th bar is a multiple of
\* scale[k], whatever position of at most two units a bar it divides by.
ExactAverages(scale) ==
    /\ scale \in [1 .. MaxCycles -> Nat \ {0}]
    /\ \A k \in 1 .. MaxCycles, b \in Bars : Divides(scale[k], b.price)
    /\ \A k \in 2 .. MaxCycles : \A qty \in 1 .. 2 * k :
          Divides(qty * scale[k], scale[k - 1])

VARIABLES
    runs,     \* processes started so far
    taken,    \* bars taken so far
    task,     \* what the process runs and how far it is
    step,     \* what it does next
    books,    \* the portfolio carried from cycle to cycle
    bar,      \* the bar of the cycle
    reported, \* report-only result of the replay's cycle
    out,      \* result of the runner that ran last
    disk      \* the files, per kind of run

vars == <<runs, taken, task, step, books, bar, reported, out, disk>>

Modes  == {"report_only", "paper", "restricted_live"}
Venues == {"binance", "unassigned_venue"}
Dirs   == {"session", "dry", "replay_report", "replay_paper"}

NoTask == [kind |-> "none", mode |-> "paper", venue |-> "binance",
           done |-> 0, acted |-> 0, launch |-> "none"]
NoBar  == [valid |-> FALSE, price |-> 0, plan |-> "quiet"]
NoRow  == [run |-> 0, cycle |-> 0]

Empty == [cycles |-> << >>, statuses |-> << >>, health |-> NoRow,
          transitions |-> << >>, sessions |-> << >>, parity |-> << >>,
          verdict |-> [run |-> 0, exit |-> 0, ok |-> FALSE,
                       mode |-> "paper", final |-> Initial]]

\* A cycle refused before any decision leaves the portfolio as it was.
Refused(start) ==
    [success |-> FALSE, decisions |-> NoDecisions, fills |-> << >>,
     start |-> start, end |-> start]

Init ==
    /\ runs = 0 /\ taken = 0
    /\ task = NoTask /\ step = "off"
    /\ books = Initial /\ bar = NoBar
    /\ reported = Refused(Initial) /\ out = Refused(Initial)
    /\ disk = [d \in Dirs |-> Empty]

Dir == CASE task.kind = "dry"       -> "dry"
         [] task.kind = "replay"    -> IF task.mode = "paper"
                                       THEN "replay_paper" ELSE "replay_report"
         [] OTHER                   -> "session"

\* A row of the process that runs, about the cycle it is in.
Row == [run |-> runs, cycle |-> task.done + 1]

Append1(file, row) == disk' = [disk EXCEPT ![Dir][file] = Append(@, row)]

-----------------------------------------------------------------------------
(* The three runners, in memory.                                           *)

\* PaperRunner.run_cycle.
PaperOutcome(b, start) ==
    IF ~b.valid THEN Refused(start)
    ELSE LET decisions == Decisions(b, start, "binance")
             simulated == Simulate(decisions.shape, b.price)
             fills == [i \in DOMAIN simulated |-> simulated[i].fill]
         IN  [success |-> TRUE, decisions |-> decisions, fills |-> fills,
              start |-> start, end |-> ApplyFills(start, fills)]

\* Mutant: the report-only runner simulates its intents.
ReportOutcomeTrades(b, start) == PaperOutcome(b, start)

\* ReportOnlyRunner.run_cycle: decides and reports, changes nothing.
ReportOutcome(b, start) ==
    IF ~b.valid THEN Refused(start)
    ELSE [success |-> TRUE, decisions |-> Decisions(b, start, task.venue),
          fills |-> << >>, start |-> start, end |-> start]

\* RestrictedLiveRunner.run_cycle without a gate, as the launcher builds it:
\* the quality gate may fail the cycle closed.
LiveOutcome(b, start, degraded) ==
    IF ~b.valid \/ degraded THEN Refused(start)
    ELSE [success |-> TRUE, decisions |-> Decisions(b, start, "binance"),
          fills |-> << >>, start |-> start, end |-> start]

\* A refused bar is reported by the report-only runner alone; the restricted
\* live runner reports a cycle it failed closed for its quality.
Reports(b) == b.valid \/ task.mode = "report_only"

\* The paper runner raises on a portfolio the contracts refuse, before it
\* writes anything: risk looks at no cash and at no position.
Raises(b, mode, start) ==
    mode = "paper" /\ ~Canonical(PaperOutcome(b, start).end)

Run(b, start) ==
    /\ ~Raises(b, task.mode, start)
    /\ \/ task.mode = "paper" /\ out' = PaperOutcome(b, start)
       \/ task.mode = "report_only" /\ out' = ReportOutcome(b, start)
       \/ task.mode = "restricted_live"
            /\ \E degraded \in BOOLEAN : out' = LiveOutcome(b, start, degraded)
    /\ step' = IF Reports(b) THEN "cycle" ELSE "returned"

-----------------------------------------------------------------------------
(* What a runner leaves on disk, one write at a time.                      *)

\* JsonlReportPersistenceGateway.persist_cycle: the row, then the status files.
PersistCycle ==
    /\ step = "cycle"
    /\ Append1("cycles", Row)
    /\ step' = "status"
    /\ UNCHANGED <<runs, taken, task, books, bar, reported, out>>

PersistSummary ==
    /\ step = "status"
    /\ Append1("statuses", Row)
    /\ step' = "health"
    /\ UNCHANGED <<runs, taken, task, books, bar, reported, out>>

\* The replay's paper runner has no state persistence gateway.
PersistHealth ==
    /\ step = "health"
    /\ disk' = [disk EXCEPT ![Dir].health = Row]
    /\ step' = IF task.mode = "paper" /\ task.kind # "replay"
               THEN "transition" ELSE "returned"
    /\ UNCHANGED <<runs, taken, task, books, bar, reported, out>>

PersistTransition ==
    /\ step = "transition"
    /\ Append1("transitions", [run   |-> runs, cycle |-> task.done + 1,
                               start |-> out.start, end |-> out.end,
                               fills |-> out.fills])
    /\ step' = "returned"
    /\ UNCHANGED <<runs, taken, task, books, bar, reported, out>>

-----------------------------------------------------------------------------
(* A paper session.                                                        *)

Start(kind, mode, venue) ==
    /\ task.kind = "none" /\ runs < MaxRuns
    /\ runs' = runs + 1
    /\ task' = [NoTask EXCEPT !.kind = kind, !.mode = mode, !.venue = venue]
    /\ books' = Initial

StartSession ==
    /\ Start("session", "paper", "binance")
    /\ step' = "input"
    /\ UNCHANGED <<taken, bar, reported, out, disk>>

TakeBar(b) ==
    /\ step = "input" /\ taken < MaxCycles
    /\ taken' = taken + 1
    /\ bar' = b
    /\ Run(b, IF task.kind = "replay" THEN Initial ELSE books)
    /\ UNCHANGED <<runs, task, books, reported, disk>>

\* Mutant: a cycle without a fill leaves the portfolio of the one before it.
CarryTraded ==
    /\ books' = IF out.fills # << >> THEN out.end ELSE books
    /\ task' = [task EXCEPT
          !.done  = @ + 1,
          !.acted = @ + (IF out.fills # << >> THEN 1 ELSE 0),
          !.mode  = IF task.kind = "replay" THEN "report_only" ELSE @]
    /\ step' = "input"

\* The next cycle starts from where this one ended.
Carry ==
    /\ books' = out.end
    /\ task' = [task EXCEPT
          !.done  = @ + 1,
          !.acted = @ + (IF out.fills # << >> THEN 1 ELSE 0),
          !.mode  = IF task.kind = "replay" THEN "report_only" ELSE @]
    /\ step' = "input"

CarryPortfolio ==
    /\ step = "returned" /\ task.kind = "session"
    /\ Carry
    /\ UNCHANGED <<runs, taken, bar, reported, out, disk>>

Stopped ==
    /\ task' = NoTask /\ step' = "off"
    /\ books' = Initial /\ bar' = NoBar
    /\ reported' = Refused(Initial) /\ out' = Refused(Initial)

PersistSessionSummary ==
    /\ step = "input" /\ task.kind = "session"
    /\ Append1("sessions", [run |-> runs, total |-> task.done,
                            acted |-> task.acted, final |-> books])
    /\ Stopped
    /\ UNCHANGED <<runs, taken>>

-----------------------------------------------------------------------------
(* A parity replay: the report-only runner on the portfolio of the input,  *)
(* the paper runner on the one carried along, each against a reference.    *)

StartReplay ==
    /\ \E venue \in Venues : Start("replay", "report_only", venue)
    /\ step' = "input"
    /\ UNCHANGED <<taken, bar, reported, out, disk>>

ReplayPaper ==
    /\ step = "returned" /\ task.kind = "replay" /\ task.mode = "report_only"
    /\ reported' = out
    /\ task' = [task EXCEPT !.mode = "paper"]
    /\ ~Raises(bar, "paper", books)
    /\ out' = PaperOutcome(bar, books)
    /\ step' = IF bar.valid THEN "cycle" ELSE "returned"
    /\ UNCHANGED <<runs, taken, books, bar, disk>>

\* Mutant: the paper reference looks at the portfolio after the cycle.
ReferenceAfterCycle(mode) ==
    IF mode = "paper" THEN Decisions(bar, out.end, "binance")
                      ELSE Decisions(bar, Initial, "binance")

\* ReferenceBacktestEvaluator.evaluate: the decision path on the portfolio the
\* runner started from, without the validation of the bar.  The evaluator's own
\* context names the venue when the runtime context does not.
Reference(mode) ==
    IF mode = "paper" THEN Decisions(bar, books, "binance")
                      ELSE Decisions(bar, Initial, "binance")

Compared == {"sides", "actionable", "posture", "shape"}

ParityRecord(mode, decisions) ==
    [run |-> runs, mode |-> mode, venue |-> task.venue,
     runtime |-> decisions, reference |-> Reference(mode),
     mismatches |-> {k \in Compared : decisions[k] # Reference(mode)[k]}]

PersistParity ==
    \/ /\ step = "returned" /\ task.kind = "replay" /\ task.mode = "paper"
       /\ Append1("parity", ParityRecord("report_only", reported.decisions))
       /\ step' = "paper_parity"
       /\ UNCHANGED <<runs, taken, task, books, bar, reported, out>>
    \/ /\ step = "paper_parity"
       /\ Append1("parity", ParityRecord("paper", out.decisions))
       /\ Carry
       /\ UNCHANGED <<runs, taken, bar, reported, out>>

EndReplay ==
    /\ step = "input" /\ task.kind = "replay"
    /\ Stopped
    /\ UNCHANGED <<runs, taken, disk>>

-----------------------------------------------------------------------------
(* A dry run: preflight, launch of one cycle, verdict.                     *)

Settings == [mode : Modes, inputs : BOOLEAN, credentials : BOOLEAN,
             exchangeMode : {"read_only", "paper", "restricted_live_rehearsal"},
             rehearsalOnly : BOOLEAN, allowed : BOOLEAN, noSubmission : BOOLEAN]

ExchangeMode == [report_only     |-> "read_only", paper |-> "paper",
                 restricted_live |-> "restricted_live_rehearsal"]

\* validate_runtime_rehearsal without errors.
PreflightOk(s) ==
    /\ s.inputs
    /\ s.exchangeMode = ExchangeMode[s.mode]
    /\ s.rehearsalOnly
    /\ s.mode = "restricted_live" =>
         s.credentials /\ s.allowed /\ s.noSubmission

StartDryRun(s) ==
    /\ Start("dry", s.mode, "binance")
    /\ step' = IF PreflightOk(s) THEN "input" ELSE "verdict"
    /\ UNCHANGED <<taken, bar, reported, out, disk>>

\* Loading the configuration or the klines, a write of the runner or of the
\* launch summary fails: the exception becomes the verdict.
LaunchRaises ==
    /\ task.kind = "dry"
    /\ step \in {"input", "cycle", "status", "health", "transition", "returned"}
    /\ task' = [task EXCEPT !.launch = "raised"]
    /\ step' = "verdict"
    /\ UNCHANGED <<runs, taken, books, bar, reported, out, disk>>

\* Mutant: a launch that returns counts as a success.
LaunchReturned ==
    /\ step = "returned" /\ task.kind = "dry"
    /\ task' = [task EXCEPT !.launch = "success"]
    /\ step' = "verdict"
    /\ UNCHANGED <<runs, taken, books, bar, reported, out, disk>>

\* The launch summary is written over the one of an earlier run.
LaunchEnds ==
    /\ step = "returned" /\ task.kind = "dry"
    /\ task' = [task EXCEPT
          !.launch = IF out.success THEN "success" ELSE "unsuccessful"]
    /\ step' = "verdict"
    /\ UNCHANGED <<runs, taken, books, bar, reported, out, disk>>

ExitCode == CASE task.launch = "none"    -> 1
              [] task.launch = "success" -> 0
              [] OTHER                   -> 2

\* run_summary.json and the markdown of the same result.
WriteVerdict ==
    /\ step = "verdict"
    /\ disk' = [disk EXCEPT !["dry"].verdict =
          [run |-> runs, exit |-> ExitCode, ok |-> task.launch = "success",
           mode |-> task.mode, final |-> out.end]]
    /\ Stopped
    /\ UNCHANGED <<runs, taken>>

\* A runner raises: nobody handles it in a session or a replay, the dry run
\* makes it the verdict.
RunnerRaises(b) ==
    /\ \/ step = "input" /\ taken < MaxCycles /\ Raises(b, task.mode, books)
         /\ taken' = taken + 1
       \/ step = "returned" /\ task.kind = "replay" /\ b = bar
         /\ task.mode = "report_only" /\ Raises(b, "paper", books)
         /\ taken' = taken
    /\ IF task.kind = "dry"
       THEN /\ task' = [task EXCEPT !.launch = "raised"] /\ step' = "verdict"
            /\ UNCHANGED <<books, bar, reported, out>>
       ELSE Stopped
    /\ UNCHANGED <<runs, disk>>

-----------------------------------------------------------------------------
\* The process dies, or an exception nobody handles ends it.
Killed ==
    /\ step # "off"
    /\ Stopped
    /\ UNCHANGED <<runs, taken, disk>>

Next ==
    \/ StartSession \/ StartReplay \/ (\E s \in Settings : StartDryRun(s))
    \/ \E b \in Bars : TakeBar(b)
    \/ PersistCycle \/ PersistSummary \/ PersistHealth \/ PersistTransition
    \/ CarryPortfolio \/ PersistSessionSummary
    \/ ReplayPaper \/ PersistParity \/ EndReplay
    \/ \E b \in Bars : RunnerRaises(b)
    \/ LaunchRaises \/ LaunchEnds \/ WriteVerdict
    \/ Killed

Spec == Init /\ [][Next]_vars

-----------------------------------------------------------------------------
(* Properties.                                                             *)

Book == [cash : Nat, qty : Nat, avg : Nat, realized : Int, unrealized : Int]
Steps == {"off", "input", "cycle", "status", "health", "transition",
          "returned", "paper_parity", "verdict"}

TypeOK ==
    /\ runs \in 0 .. MaxRuns /\ taken \in 0 .. MaxCycles
    /\ task.kind \in {"none", "session", "replay", "dry"}
    /\ task.mode \in Modes /\ task.venue \in Venues
    /\ task.done \in Nat /\ task.acted \in 0 .. task.done
    /\ task.launch \in {"none", "raised", "success", "unsuccessful"}
    /\ step \in Steps
    /\ books \in Book /\ bar \in Bars \cup {NoBar}
    /\ out.start \in Book /\ out.end \in Book /\ reported.end = reported.start
    /\ \A d \in Dirs : disk[d].verdict.exit \in 0 .. 2

\* The rows that run r left.
Of(rows, r) == Picked(rows, {i \in DOMAIN rows : rows[i].run = r})
Ids(rows) == [i \in DOMAIN rows |-> rows[i].cycle]

\* The transitions of one session lead from the initial portfolio to "final",
\* each starting where the one before ended.
LeadTo(rows, final) ==
    LET end(i) == IF i = 0 THEN Initial ELSE rows[i].end IN
    /\ \A i \in DOMAIN rows : rows[i].start = end(i - 1)
    /\ end(Len(rows)) = final

Total(seq) == FoldLeft(LAMBDA sum, x : sum + x, 0, seq)
BuyFees(fills) == Total([i \in DOMAIN fills |->
                            IF fills[i].side = "buy" THEN fills[i].fee ELSE 0])
FeesPaid(rows) == Total([i \in DOMAIN rows |-> BuyFees(rows[i].fills)])

\* Money neither appears nor vanishes: cash and the position at cost are the
\* initial cash, what was realized, and the fees of the buys, which no
\* realized profit holds.
Balances(rows, final) ==
    final.cash + final.qty * final.avg
      = InitialCash + final.realized - FeesPaid(rows)

\* The summary of a paper session follows from the transitions on file, as an
\* operator is told to check: they chain without continuity drift and end in
\* the final portfolio, one for every cycle row, and those that acted are as
\* many as the summary counts.
SessionIsExplained ==
    \A i \in DOMAIN disk["session"].sessions :
        LET s    == disk["session"].sessions[i]
            rows == Of(disk["session"].transitions, s.run)
        IN  /\ LeadTo(rows, s.final)
            /\ s.acted = Cardinality({j \in DOMAIN rows : rows[j].fills # << >>})
            /\ Len(rows) <= s.total
            /\ Ids(rows) = Ids(Of(disk["session"].cycles, s.run))

\* The final portfolio of a session balances against the fees its transitions
\* tell of, whatever it bought and sold.
BooksBalance ==
    \A i \in DOMAIN disk["session"].sessions :
        LET s == disk["session"].sessions[i]
        IN  Balances(Of(disk["session"].transitions, s.run), s.final)

\* A parity record that tells of drift tells of a bar the runner refused and
\* the reference, which validates no bar, acted on; or of a report-only
\* context without a venue.  Nothing else in the two paths differs, whatever
\* the paper portfolio has become by then.
DriftIsRefusal ==
    \A d \in Dirs : \A i \in DOMAIN disk[d].parity :
        LET p == disk[d].parity[i] IN
        p.mismatches # {} =>
            \/ p.runtime = NoDecisions /\ p.reference.sides # << >>
            \/ /\ p.mode = "report_only" /\ p.venue = "unassigned_venue"
               /\ p.mismatches = {"shape"}

\* The only row that run r left.
IsOnlyRow(rows, i, r) ==
    \A j \in DOMAIN rows : rows[j].run = r <=> j = i

\* A dry run that tells of success, exit code 0, left the row of its cycle and
\* the status files that name it, and in paper mode the transition to the
\* portfolio it reports; whatever an earlier run of the same id left there.
VerdictIsOnDisk ==
    LET dry == disk["dry"] IN
    /\ dry.verdict.run > 0 => (dry.verdict.ok <=> dry.verdict.exit = 0)
    /\ dry.verdict.ok =>
         /\ \E i \in DOMAIN dry.cycles :
               IsOnlyRow(dry.cycles, i, dry.verdict.run)
         /\ \E i \in DOMAIN dry.statuses : dry.statuses[i].run = dry.verdict.run
         /\ dry.health.run >= dry.verdict.run
         /\ dry.verdict.mode = "paper" =>
              \E i \in DOMAIN dry.transitions :
                 /\ IsOnlyRow(dry.transitions, i, dry.verdict.run)
                 /\ dry.transitions[i].start = Initial
                 /\ dry.transitions[i].end = dry.verdict.final
=============================================================================
