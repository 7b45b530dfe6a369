-------------------------- MODULE OfflineRunsProofs -------------------------
(***************************************************************************)
(* What the files of the offline modes can be trusted to say, for any bars *)
(* and portfolios, and for any number of processes started on the same     *)
(* files and killed wherever they are.                                     *)
(***************************************************************************)
EXTENDS OfflineRuns, SequenceTheorems, TLAPS

USE OfflineAssumption, PaperAssumption

-----------------------------------------------------------------------------
(* Files, and the row that comes to one of them.                           *)

RowFiles == {"cycles", "statuses", "transitions", "sessions", "parity"}
FileNames == RowFiles \cup {"health", "verdict"}

IsFile(rows) == \E S : rows \in Seq(S)

DiskShape ==
    /\ disk = [d \in Dirs |-> disk[d]]
    /\ \A d \in Dirs :
          /\ disk[d] = [f \in FileNames |-> disk[d][f]]
          /\ \A f \in RowFiles : IsFile(disk[d][f])

Launches == {"none", "raised", "success", "unsuccessful"}
TaskShape ==
    task \in [kind : {"none", "session", "replay", "dry"}, mode : Modes,
              venue : Venues, done : Nat, acted : Nat, launch : Launches]

LEMMA DirIsOne == Dir \in Dirs /\ (Dir = "dry" <=> task.kind = "dry")
BY DEF Dir, Dirs

\* A row appended to a file is the only one that comes.
LEMMA AppendedRow ==
    ASSUME NEW rows, IsFile(rows), NEW row
    PROVE  LET more == Append(rows, row)
               n    == Len(rows) + 1
           IN  /\ IsFile(more) /\ n \notin DOMAIN rows
               /\ DOMAIN more = DOMAIN rows \cup {n}
               /\ more[n] = row /\ \A i \in DOMAIN rows : more[i] = rows[i]
<1>1. PICK S : rows \in Seq(S)
  BY DEF IsFile
<1> DEFINE T == S \cup {row}
<1>2. rows \in Seq(T) /\ row \in T
  <2>1. Len(rows) \in Nat /\ rows \in [1 .. Len(rows) -> S]
    BY <1>1, LenProperties
  <2>2. rows \in [1 .. Len(rows) -> T]
    BY <2>1
  <2> QED BY <2>1, <2>2, IsASeq
<1> HIDE DEF T
<1>3. Append(rows, row) \in Seq(T)
  BY <1>2, AppendProperties
<1>4. /\ Len(rows) \in Nat /\ DOMAIN rows = 1 .. Len(rows)
      /\ Len(Append(rows, row)) = Len(rows) + 1
      /\ DOMAIN Append(rows, row) = 1 .. Len(Append(rows, row))
      /\ Append(rows, row)[Len(rows) + 1] = row
      /\ \A i \in 1 .. Len(rows) : Append(rows, row)[i] = rows[i]
  BY <1>2, <1>3, AppendProperties, LenProperties
<1> QED BY <1>3, <1>4 DEF IsFile

Written(d, f, content) == disk' = [disk EXCEPT ![d][f] = content]

\* Writing one file leaves the others as they are.
LEMMA WrittenFile ==
    ASSUME DiskShape, NEW d \in Dirs, NEW f \in FileNames, NEW content,
           Written(d, f, content), f \in RowFiles => IsFile(content)
    PROVE  /\ DiskShape'
           /\ disk'[d][f] = content
           /\ \A e \in Dirs : \A g \in FileNames :
                 e # d \/ g # f => disk'[e][g] = disk[e][g]
<1>1. /\ disk'[d] = [disk[d] EXCEPT ![f] = content]
      /\ \A e \in Dirs : e # d => disk'[e] = disk[e]
      /\ disk' = [e \in Dirs |-> disk'[e]]
  BY DEF DiskShape, Written
<1>2. /\ disk'[d][f] = content
      /\ \A g \in FileNames : g # f => disk'[d][g] = disk[d][g]
      /\ disk'[d] = [g \in FileNames |-> disk'[d][g]]
  BY <1>1 DEF DiskShape
<1>3. RowFiles \subseteq FileNames
  BY DEF FileNames
<1>4. ASSUME NEW e \in Dirs
      PROVE  /\ disk'[e] = [g \in FileNames |-> disk'[e][g]]
             /\ \A g \in RowFiles : IsFile(disk'[e][g])
  BY <1>1, <1>2, <1>3 DEF DiskShape
<1> QED BY <1>1, <1>2, <1>4 DEF DiskShape

LEMMA AppendedFile ==
    ASSUME DiskShape, NEW f \in RowFiles, NEW row, Append1(f, row)
    PROVE  /\ DiskShape'
           /\ disk'[Dir][f] = Append(disk[Dir][f], row)
           /\ \A e \in Dirs : \A g \in FileNames :
                 e # Dir \/ g # f => disk'[e][g] = disk[e][g]
<1>1. Dir \in Dirs /\ f \in FileNames
  BY DirIsOne DEF FileNames
<1>2. IsFile(Append(disk[Dir][f], row))
  BY <1>1, AppendedRow DEF DiskShape
<1>3. Written(Dir, f, Append(disk[Dir][f], row))
  BY DEF Append1, Written
<1> QED BY <1>1, <1>2, <1>3, WrittenFile

-----------------------------------------------------------------------------
(* Decisions, compared as a parity record does.                            *)

LEMMA NoSignalsNoIntents ==
    ASSUME NEW signals, DOMAIN signals = {}, NEW venue
    PROVE  Intents(signals, venue) = << >>
<1>1. Taken(signals) = << >>
  BY DEF Taken, Picked, FoldLeftDomain, FoldLeft, MapThenFoldSet
<1>2. DOMAIN Taken(signals) = {}
  BY <1>1
<1> QED BY <1>2 DEF Intents

\* A strategy that signals nothing decides nothing.
LEMMA QuietDecisions ==
    ASSUME NEW b, NEW book, NEW venue, Decisions(b, book, venue).sides = << >>
    PROVE  Decisions(b, book, venue) = NoDecisions
<1> DEFINE signals == Signals(b, book)
<1>1. DOMAIN signals = {}
  BY DEF Decisions
<1> HIDE DEF signals
<1>2. Intents(signals, venue) = << >>
  BY <1>1, NoSignalsNoIntents
<1>3. [i \in DOMAIN signals |-> signals[i].side] = << >>
  BY <1>1
<1>4. [i \in DOMAIN signals |-> RiskStatus(signals[i])] = << >>
  BY <1>1
<1> QED BY <1>2, <1>3, <1>4 DEF Decisions, NoDecisions, signals

\* On the same bar and the same portfolio two venues make the same decisions,
\* but for the venue in the intents.
LEMMA VenueOnlyInShape ==
    ASSUME NEW b, NEW book, NEW v, NEW w
    PROVE  LET p == Decisions(b, book, v)
               q == Decisions(b, book, w)
           IN  /\ p.sides = q.sides /\ p.posture = q.posture
               /\ p.actionable = q.actionable
<1> DEFINE traded == Taken(Signals(b, book))
           actionable(x) == Intents(Signals(b, book), x) # << >>
<1>1. ASSUME NEW x PROVE actionable(x) <=> DOMAIN traded # {}
  <2>1. DOMAIN Intents(Signals(b, book), x) = DOMAIN traded
    BY DEF Intents
  <2>2. ASSUME DOMAIN traded = {} PROVE Intents(Signals(b, book), x) = << >>
    <3> HIDE DEF traded
    <3> QED BY <2>2 DEF Intents, traded
  <2>3. Intents(Signals(b, book), x) = << >> => DOMAIN traded = {}
    BY <2>1
  <2> QED BY <2>2, <2>3
<1>2. /\ Decisions(b, book, v).actionable <=> actionable(v)
      /\ Decisions(b, book, w).actionable <=> actionable(w)
      /\ Decisions(b, book, v).actionable \in BOOLEAN
      /\ Decisions(b, book, w).actionable \in BOOLEAN
  BY DEF Decisions
<1>3. Decisions(b, book, v).actionable = Decisions(b, book, w).actionable
  BY <1>1, <1>2
<1>4. /\ Decisions(b, book, v).sides = Decisions(b, book, w).sides
      /\ Decisions(b, book, v).posture = Decisions(b, book, w).posture
  BY DEF Decisions
<1> QED BY <1>3, <1>4

\* What a runner of the replay decides of a bar.
Decided(b, book, venue) ==
    IF b.valid THEN Decisions(b, book, venue) ELSE NoDecisions

Explained(p) ==
    p.mismatches # {} =>
        \/ p.runtime = NoDecisions /\ p.reference.sides # << >>
        \/ /\ p.mode = "report_only" /\ p.venue = "unassigned_venue"
           /\ p.mismatches = {"shape"}

LEMMA NothingDiffers ==
    ASSUME NEW mode, NEW decisions, decisions = Reference(mode)
    PROVE  ParityRecord(mode, decisions).mismatches = {}
BY DEF ParityRecord

\* A refused bar is the one the reference acts on, or the records agree.
LEMMA RefusalExplained ==
    ASSUME NEW mode, mode \in {"paper", "report_only"}
    PROVE  Explained(ParityRecord(mode, NoDecisions))
<1> DEFINE p == ParityRecord(mode, NoDecisions)
<1>1. p.runtime = NoDecisions /\ p.reference = Reference(mode)
  BY DEF ParityRecord
<1>2. CASE Reference(mode).sides = << >>
  <2>1. Reference(mode) = NoDecisions
    BY <1>2, QuietDecisions DEF Reference
  <2> QED BY <2>1, NothingDiffers DEF Explained
<1>3. CASE Reference(mode).sides # << >>
  BY <1>1, <1>3 DEF Explained
<1> QED BY <1>2, <1>3

LEMMA PaperExplained ==
    Explained(ParityRecord("paper", Decided(bar, books, "binance")))
<1>1. CASE bar.valid
  <2>1. Decided(bar, books, "binance") = Reference("paper")
    BY <1>1 DEF Decided, Reference
  <2> QED BY <2>1, NothingDiffers DEF Explained
<1>2. CASE ~ bar.valid
  BY <1>2, RefusalExplained DEF Decided
<1> QED BY <1>1, <1>2

LEMMA ReportExplained ==
    ASSUME task.venue \in Venues
    PROVE  Explained(ParityRecord("report_only",
                                  Decided(bar, Initial, task.venue)))
<1> DEFINE decisions == Decisions(bar, Initial, task.venue)
           reference == Decisions(bar, Initial, "binance")
           p == ParityRecord("report_only", decisions)
<1>1. CASE ~ bar.valid
  BY <1>1, RefusalExplained DEF Decided
<1>2. CASE bar.valid /\ task.venue = "binance"
  <2>1. Decided(bar, Initial, task.venue) = Reference("report_only")
    BY <1>2 DEF Decided, Reference
  <2> QED BY <2>1, NothingDiffers DEF Explained
<1>3. CASE bar.valid /\ task.venue = "unassigned_venue"
  <2>1. Decided(bar, Initial, task.venue) = decisions
    BY <1>3 DEF Decided
  <2>2. /\ decisions.sides = reference.sides
        /\ decisions.posture = reference.posture
        /\ decisions.actionable = reference.actionable
    BY VenueOnlyInShape
  <2>3. Reference("report_only") = reference
    BY DEF Reference
  <2> HIDE DEF decisions, reference
  <2>4. p.mismatches = {k \in Compared : decisions[k] # reference[k]}
    BY <2>3 DEF ParityRecord
  <2>5. p.mismatches \subseteq {"shape"}
    BY <2>2, <2>4 DEF Compared
  <2>6. p.mode = "report_only" /\ p.venue = "unassigned_venue"
    BY <1>3 DEF ParityRecord
  <2>7. Explained(p)
    <3> HIDE DEF p
    <3> QED BY <2>5, <2>6 DEF Explained
  <2> QED BY <2>1, <2>7
<1> QED BY <1>1, <1>2, <1>3 DEF Venues

-----------------------------------------------------------------------------
(* What runs, and how far it can be.                                       *)

ShapeInv ==
    /\ DiskShape /\ TaskShape /\ runs \in Nat
    /\ step = "off" <=> task.kind = "none"
    /\ step = "verdict" => task.kind = "dry"
    /\ step = "paper_parity" => task.kind = "replay" /\ task.mode = "paper"
    /\ task.kind = "replay" => task.mode \in {"report_only", "paper"}
    /\ task.kind = "replay" /\ step = "input" => task.mode = "report_only"

\* The file a step writes, if it writes any.
Appends ==
    \/ PersistCycle \/ PersistSummary \/ PersistTransition
    \/ PersistSessionSummary \/ PersistParity

Starts ==
    \/ StartSession \/ StartReplay
    \/ \E s \in Settings : StartDryRun(s)

LEMMA StepsOfDisk ==
    ASSUME [Next]_vars
    PROVE  \/ Appends \/ PersistHealth \/ WriteVerdict
           \/ disk' = disk
BY DEF Next, vars, Appends, StartSession, StartReplay, StartDryRun, TakeBar,
       CarryPortfolio, ReplayPaper, EndReplay, RunnerRaises, LaunchRaises,
       LaunchEnds, Killed

\* The disk keeps its shape.
LEMMA DiskStep ==
    ASSUME DiskShape, [Next]_vars PROVE DiskShape'
<1>1. ASSUME NEW f \in RowFiles, NEW row, Append1(f, row) PROVE DiskShape'
  BY <1>1, AppendedFile
<1>2. CASE Appends
  <2>1. \E f \in RowFiles : \E row : Append1(f, row)
    BY <1>2 DEF Appends, PersistCycle, PersistSummary, PersistTransition,
                PersistSessionSummary, PersistParity, RowFiles
  <2> QED BY <1>1, <2>1
<1>3. CASE PersistHealth
  <2>1. Written(Dir, "health", Row)
    BY <1>3 DEF PersistHealth, Written
  <2>2. "health" \in FileNames /\ "health" \notin RowFiles
    BY DEF FileNames, RowFiles
  <2> QED BY <2>1, <2>2, DirIsOne, WrittenFile
<1>4. CASE WriteVerdict
  <2>1. \E v : Written("dry", "verdict", v)
    BY <1>4 DEF WriteVerdict, Written
  <2>2. /\ "verdict" \in FileNames /\ "verdict" \notin RowFiles
        /\ "dry" \in Dirs
    BY DEF FileNames, RowFiles, Dirs
  <2> QED BY <2>1, <2>2, WrittenFile
<1>5. CASE disk' = disk
  BY <1>5 DEF DiskShape
<1> QED BY <1>2, <1>3, <1>4, <1>5, StepsOfDisk

LEMMA ShapeInit == Init => ShapeInv
<1> SUFFICES ASSUME Init PROVE ShapeInv
  OBVIOUS
<1>1. DiskShape
  <2>1. disk = [d \in Dirs |-> Empty]
    BY DEF Init
  <2>2. Empty = [f \in FileNames |-> Empty[f]]
    BY DEF Empty, FileNames, RowFiles
  <2>3. \A f \in RowFiles : Empty[f] = << >>
    BY DEF Empty, RowFiles
  <2>4. IsFile(<< >>)
    BY EmptySeq DEF IsFile
  <2> QED BY <2>1, <2>2, <2>3, <2>4 DEF DiskShape
<1>2. TaskShape
  BY DEF Init, NoTask, TaskShape, Modes, Venues, Launches
<1> QED BY <1>1, <1>2 DEF Init, ShapeInv, NoTask

LEMMA ShapeStep == ShapeInv /\ [Next]_vars => ShapeInv'
<1> SUFFICES ASSUME ShapeInv, [Next]_vars PROVE ShapeInv'
  OBVIOUS
<1>1. DiskShape'
  BY DiskStep DEF ShapeInv
<1> DEFINE Rest == /\ TaskShape /\ runs \in Nat
                   /\ step = "off" <=> task.kind = "none"
                   /\ step = "verdict" => task.kind = "dry"
                   /\ step = "paper_parity" =>
                        task.kind = "replay" /\ task.mode = "paper"
                   /\ task.kind = "replay" =>
                        task.mode \in {"report_only", "paper"}
                   /\ task.kind = "replay" /\ step = "input" =>
                        task.mode = "report_only"
<1>2. SUFFICES Rest'
  BY <1>1 DEF ShapeInv
<1>3. CASE Starts
  <2>1. PICK k \in {"session", "replay", "dry"}, m \in Modes, v \in Venues :
           /\ task' = [NoTask EXCEPT !.kind = k, !.mode = m, !.venue = v]
           /\ runs' = runs + 1 /\ step' \in {"input", "verdict"}
           /\ k = "replay" => m = "report_only" /\ step' = "input"
           /\ k = "session" => step' = "input"
    BY Zenon, <1>3 DEF Starts, StartSession, StartReplay, StartDryRun, Start, Settings,
                Modes, Venues
  <2>2. /\ task' \in [kind : {"none", "session", "replay", "dry"}, mode : Modes,
                      venue : Venues, done : Nat, acted : Nat,
                      launch : Launches]
        /\ task'.kind = k /\ task'.mode = m
    BY <2>1 DEF NoTask, Launches
  <2> QED BY <2>1, <2>2 DEF ShapeInv, TaskShape
<1>4. CASE UNCHANGED <<task, runs>> /\ step' \notin {"off", "input", "verdict", "paper_parity"} /\ step # "off"
  BY <1>4 DEF ShapeInv, TaskShape
<1>5. CASE (\E b \in Bars : TakeBar(b)) \/ PersistCycle \/ PersistSummary
           \/ PersistHealth \/ PersistTransition
  <2>1. /\ UNCHANGED <<task, runs>> /\ step # "off"
        /\ step' \notin {"off", "input", "verdict", "paper_parity"}
    BY <1>5 DEF TakeBar, Run, PersistCycle, PersistSummary, PersistHealth,
                PersistTransition
  <2> QED BY <1>4, <2>1
<1>6. CASE task.kind \in {"session", "replay"} /\ Carry /\ runs' = runs
  <2>1. /\ task' \in [kind : {"none", "session", "replay", "dry"}, mode : Modes,
                      venue : Venues, done : Nat, acted : Nat,
                      launch : Launches]
        /\ task'.kind = task.kind
        /\ task.kind = "replay" => task'.mode = "report_only"
        /\ step' = "input"
    <3> DEFINE n == IF out.fills # << >> THEN 1 ELSE 0
               m == IF task.kind = "replay" THEN "report_only" ELSE task.mode
    <3>1. /\ task \in [kind : {"none", "session", "replay", "dry"}, mode : Modes,
                       venue : Venues, done : Nat, acted : Nat,
                       launch : Launches]
          /\ n \in Nat /\ m \in Modes
      BY DEF ShapeInv, TaskShape, Modes
    <3>2. /\ task' = [task EXCEPT !.done = task.done + 1,
                                 !.acted = task.acted + n, !.mode = m]
          /\ step' = "input"
      BY <1>6 DEF Carry
    <3>3. task.kind = "replay" => m = "report_only"
      OBVIOUS
    <3> HIDE DEF n, m
    <3>4. task.done + 1 \in Nat /\ task.acted + n \in Nat
      BY <3>1
    <3>5. /\ task'.kind = task.kind /\ task'.mode = m
          /\ task' \in [kind : {"none", "session", "replay", "dry"},
                       mode : Modes, venue : Venues, done : Nat,
                       acted : Nat, launch : Launches]
      BY <3>1, <3>2, <3>4
    <3> QED BY <3>2, <3>3, <3>5
  <2> QED BY <1>6, <2>1 DEF ShapeInv, TaskShape
<1>7. CASE CarryPortfolio
  BY <1>6, <1>7 DEF CarryPortfolio
<1>8. CASE Stopped /\ runs' = runs
  BY <1>8 DEF Stopped, NoTask, ShapeInv, TaskShape, Modes, Venues, Launches
<1>9. CASE PersistSessionSummary \/ EndReplay \/ WriteVerdict \/ Killed
  <2>1. Stopped /\ runs' = runs
    BY <1>9 DEF PersistSessionSummary, EndReplay, WriteVerdict, Killed
  <2> QED BY <1>8, <2>1
<1>10. CASE ReplayPaper
  <2>1. /\ task' = [task EXCEPT !.mode = "paper"] /\ runs' = runs
        /\ step' \in {"cycle", "returned"} /\ step # "off"
        /\ task.kind = "replay"
    BY <1>10 DEF ReplayPaper
  <2> QED BY <2>1 DEF ShapeInv, TaskShape, Modes
<1>11. CASE PersistParity
  <2>1. CASE step = "paper_parity"
    BY <1>6, <1>11, <2>1 DEF PersistParity, ShapeInv
  <2>2. CASE step # "paper_parity"
    BY <1>11, <2>2 DEF PersistParity, ShapeInv, TaskShape
  <2> QED BY <2>1, <2>2
<1>12. CASE /\ task.kind = "dry" /\ step' = "verdict" /\ runs' = runs
            /\ \E l \in Launches : task' = [task EXCEPT !.launch = l]
  BY <1>12 DEF ShapeInv, TaskShape
<1>13. CASE \E b \in Bars : RunnerRaises(b)
  <2>1. CASE task.kind = "dry"
    BY <1>12, <1>13, <2>1 DEF RunnerRaises, Launches
  <2>2. CASE task.kind # "dry"
    BY <1>8, <1>13, <2>2 DEF RunnerRaises
  <2> QED BY <2>1, <2>2
<1>14. CASE LaunchRaises \/ LaunchEnds
  <2>1. /\ task.kind = "dry" /\ step' = "verdict" /\ runs' = runs
        /\ \E l \in Launches : task' = [task EXCEPT !.launch = l]
    BY <1>14 DEF LaunchRaises, LaunchEnds, Launches
  <2> QED BY <1>12, <2>1
<1>15. CASE UNCHANGED vars
  BY <1>15 DEF vars, ShapeInv, TaskShape
<1> HIDE DEF Rest
<1> QED
  BY <1>3, <1>5, <1>7, <1>9, <1>10, <1>11, <1>13, <1>14, <1>15
  DEF Next, Starts

-----------------------------------------------------------------------------
(* The parity replay.                                                      *)

\* The two results that a parity record compares with their references are
\* of the bar at hand; the portfolio the paper runner started from is still
\* there when the record is made.
ReplayInv ==
    task.kind = "replay" =>
       /\ /\ task.mode = "report_only"
          /\ step \in {"cycle", "status", "health", "transition", "returned"}
          => out.decisions = Decided(bar, Initial, task.venue)
       /\ task.mode = "paper" =>
             /\ reported.decisions = Decided(bar, Initial, task.venue)
             /\ out.decisions = Decided(bar, books, "binance")

LEMMA PaperDecides ==
    ASSUME NEW b, NEW start
    PROVE  PaperOutcome(b, start).decisions = Decided(b, start, "binance")
BY DEF PaperOutcome, Refused, Decided

LEMMA ReportDecides ==
    ASSUME NEW b, NEW start
    PROVE  ReportOutcome(b, start).decisions = Decided(b, start, task.venue)
BY DEF ReportOutcome, Refused, Decided

LEMMA ReplayInit == Init => ReplayInv
BY DEF Init, ReplayInv, NoTask

LEMMA ReplayStep == ShapeInv /\ ReplayInv /\ [Next]_vars => ReplayInv'
<1> SUFFICES ASSUME ShapeInv, ReplayInv, [Next]_vars, task'.kind = "replay"
             PROVE  ReplayInv'
  BY DEF ReplayInv
<1>1. CASE step' = "input" /\ task'.mode = "report_only"
  BY <1>1 DEF ReplayInv
<1>2. CASE Starts
  <2>1. step' \in {"input", "verdict"} /\ task'.mode = "report_only"
    BY Zenon, <1>2 DEF Starts, StartSession, StartReplay, StartDryRun, Start, NoTask
  <2> QED BY <2>1 DEF ReplayInv
<1>3. CASE Stopped
  BY <1>3 DEF Stopped, NoTask
<1>4. CASE \E b \in Bars : TakeBar(b)
  <2>1. PICK b \in Bars : TakeBar(b)
    BY <1>4
  <2>2. /\ task' = task /\ bar' = b /\ task.mode = "report_only"
        /\ out' = ReportOutcome(b, Initial)
    BY <2>1 DEF TakeBar, Run, ShapeInv
  <2>3. out'.decisions = Decided(b, Initial, task.venue)
    BY <2>2, ReportDecides
  <2> QED BY <2>2, <2>3 DEF ReplayInv, Decided
<1>5. CASE PersistCycle \/ PersistSummary \/ PersistHealth \/ PersistTransition
  <2>1. /\ UNCHANGED <<task, books, bar, reported, out>>
        /\ step \in {"cycle", "status", "health", "transition", "returned"}
    BY <1>5 DEF PersistCycle, PersistSummary, PersistHealth, PersistTransition
  <2> QED BY <2>1 DEF ReplayInv, Decided
<1>6. CASE ReplayPaper
  <2>1. /\ task.kind = "replay" /\ task.mode = "report_only"
        /\ step = "returned" /\ reported' = out
        /\ out' = PaperOutcome(bar, books)
        /\ UNCHANGED <<books, bar>>
        /\ task'.mode = "paper" /\ task'.venue = task.venue
    BY <1>6 DEF ReplayPaper, ShapeInv, TaskShape
  <2>2. out'.decisions = Decided(bar, books, "binance")
    BY <2>1, PaperDecides
  <2> QED BY <2>1, <2>2 DEF ReplayInv, Decided
<1>7. CASE PersistParity
  <2>1. CASE step = "paper_parity"
    <3>1. Carry /\ task.kind = "replay"
      BY <1>7, <2>1 DEF PersistParity, ShapeInv
    <3>2. step' = "input" /\ task'.mode = "report_only"
      BY <3>1 DEF Carry, ShapeInv, TaskShape
    <3> QED BY <1>1, <3>2
  <2>2. CASE step # "paper_parity"
    <3>1. UNCHANGED <<task, books, bar, reported, out>> /\ task.mode = "paper"
      BY <1>7, <2>2 DEF PersistParity
    <3> QED BY <3>1 DEF ReplayInv, Decided
  <2> QED BY <2>1, <2>2
<1>8. CASE CarryPortfolio
  <2>1. task'.kind = "session"
    BY <1>8 DEF CarryPortfolio, Carry, ShapeInv, TaskShape
  <2> QED BY <2>1
<1>9. CASE (\E b \in Bars : RunnerRaises(b)) \/ LaunchRaises \/ LaunchEnds
  <2>1. \/ Stopped
        \/ task.kind = "dry" /\ \E l : task' = [task EXCEPT !.launch = l]
    BY <1>9 DEF RunnerRaises, LaunchRaises, LaunchEnds
  <2> QED BY <1>3, <2>1 DEF ShapeInv, TaskShape
<1>10. CASE UNCHANGED vars
  BY <1>10 DEF vars, ReplayInv, Decided
<1>11. CASE PersistSessionSummary \/ EndReplay \/ WriteVerdict \/ Killed
  BY <1>3, <1>11 DEF PersistSessionSummary, EndReplay, WriteVerdict, Killed
<1> QED
  BY <1>2, <1>4, <1>5, <1>6, <1>7, <1>8, <1>9, <1>10, <1>11 DEF Next, Starts

\* Only PersistParity writes the parity file.
LEMMA ParityFileStep ==
    ASSUME ShapeInv, [Next]_vars, NEW d \in Dirs
    PROVE  \/ disk'[d].parity = disk[d].parity
           \/ PersistParity /\ d = Dir
<1>0. DiskShape /\ "parity" \in FileNames /\ Dir \in Dirs
  BY DirIsOne DEF ShapeInv, FileNames, RowFiles
<1>1. CASE \/ PersistCycle \/ PersistSummary \/ PersistTransition
           \/ PersistSessionSummary
  <2>1. PICK f \in RowFiles : f # "parity" /\ \E row : Append1(f, row)
    BY <1>1 DEF PersistCycle, PersistSummary, PersistTransition,
                PersistSessionSummary, RowFiles
  <2>2. disk'[d]["parity"] = disk[d]["parity"]
    BY <1>0, <2>1, AppendedFile
  <2> QED BY <2>2
<1>2. CASE PersistParity
  <2>1. \E row : Append1("parity", row)
    BY <1>2 DEF PersistParity
  <2>2. d # Dir => disk'[d]["parity"] = disk[d]["parity"]
    BY <1>0, <2>1, AppendedFile DEF RowFiles
  <2> QED BY <1>2, <2>2
<1>3. CASE PersistHealth
  <2>1. Written(Dir, "health", Row)
    BY <1>3 DEF PersistHealth, Written
  <2>2. disk'[d]["parity"] = disk[d]["parity"]
    BY <1>0, <2>1, WrittenFile DEF FileNames, RowFiles
  <2> QED BY <2>2
<1>4. CASE WriteVerdict
  <2>1. \E v : Written("dry", "verdict", v)
    BY <1>4 DEF WriteVerdict, Written
  <2>2. disk'[d]["parity"] = disk[d]["parity"]
    BY <1>0, <2>1, WrittenFile DEF FileNames, RowFiles, Dirs
  <2> QED BY <2>2
<1>5. CASE disk' = disk
  BY <1>5
<1> QED BY <1>1, <1>2, <1>3, <1>4, <1>5, StepsOfDisk DEF Appends

\* The row that comes is explained.
LEMMA ParityRowExplained ==
    ASSUME ShapeInv, ReplayInv, PersistParity
    PROVE  \E row : Append1("parity", row) /\ Explained(row)
<1>1. task.venue \in Venues
  BY DEF ShapeInv, TaskShape
<1>2. CASE step = "returned"
  <2>1. /\ Append1("parity", ParityRecord("report_only", reported.decisions))
        /\ task.kind = "replay" /\ task.mode = "paper"
    BY <1>2 DEF PersistParity
  <2>2. reported.decisions = Decided(bar, Initial, task.venue)
    BY <2>1 DEF ReplayInv
  <2> QED BY <1>1, <2>1, <2>2, ReportExplained
<1>3. CASE step = "paper_parity"
  <2>1. Append1("parity", ParityRecord("paper", out.decisions))
    BY <1>3 DEF PersistParity
  <2>2. out.decisions = Decided(bar, books, "binance")
    BY <1>3 DEF ShapeInv, ReplayInv
  <2> QED BY <2>1, <2>2, PaperExplained
<1> QED BY <1>2, <1>3 DEF PersistParity

LEMMA DriftStep ==
    ShapeInv /\ ReplayInv /\ DriftIsRefusal /\ [Next]_vars => DriftIsRefusal'
<1> SUFFICES ASSUME ShapeInv, ReplayInv, DriftIsRefusal, [Next]_vars,
                    NEW d \in Dirs, NEW i \in DOMAIN disk'[d].parity
             PROVE  Explained(disk'[d].parity[i])
  BY DEF DriftIsRefusal, Explained
<1>1. \A j \in DOMAIN disk[d].parity : Explained(disk[d].parity[j])
  BY DEF DriftIsRefusal, Explained
<1>2. CASE disk'[d].parity = disk[d].parity
  BY <1>1, <1>2
<1>3. CASE PersistParity /\ d = Dir
  <2>1. PICK row : Append1("parity", row) /\ Explained(row)
    BY <1>3, ParityRowExplained
  <2>2. /\ disk'[d]["parity"] = Append(disk[d]["parity"], row)
        /\ IsFile(disk[d]["parity"])
    BY <1>3, <2>1, AppendedFile DEF ShapeInv, DiskShape, RowFiles
  <2>3. \/ i \in DOMAIN disk[d].parity /\ disk'[d].parity[i] = disk[d].parity[i]
        \/ disk'[d].parity[i] = row
    BY <2>2, AppendedRow
  <2> QED BY <1>1, <2>1, <2>3
<1> QED BY <1>2, <1>3, ParityFileStep

\* Every drift a parity record tells of is explained, on any bars and whatever
\* the portfolio has become.
THEOREM DriftExplained == Spec => []DriftIsRefusal
<1>1. Init => ShapeInv /\ ReplayInv /\ DriftIsRefusal
  <2>1. Init => DriftIsRefusal
    BY DEF Init, Empty, DriftIsRefusal
  <2> QED BY <2>1, ShapeInit, ReplayInit
<1>2. ShapeInv /\ ReplayInv /\ DriftIsRefusal /\ [Next]_vars
        => ShapeInv' /\ ReplayInv' /\ DriftIsRefusal'
  BY ShapeStep, ReplayStep, DriftStep
<1> QED BY <1>1, <1>2, PTL DEF Spec

-----------------------------------------------------------------------------
(* The dry run.                                                            *)

\* The row of run r that comes to a file without one is the only one; no row
\* of another run changes that.
LEMMA OnlyRowMade ==
    ASSUME NEW rows, IsFile(rows), NEW row, NEW r, row.run = r,
           \A j \in DOMAIN rows : rows[j].run # r
    PROVE  \E i \in DOMAIN Append(rows, row) :
              /\ IsOnlyRow(Append(rows, row), i, r)
              /\ Append(rows, row)[i] = row
BY AppendedRow DEF IsOnlyRow

LEMMA OnlyRowKept ==
    ASSUME NEW rows, IsFile(rows), NEW row, NEW r, row.run # r,
           NEW i \in DOMAIN rows, IsOnlyRow(rows, i, r)
    PROVE  /\ i \in DOMAIN Append(rows, row)
           /\ IsOnlyRow(Append(rows, row), i, r)
           /\ Append(rows, row)[i] = rows[i]
BY AppendedRow DEF IsOnlyRow

RunRowFiles == {"cycles", "statuses", "transitions"}

\* What a run r that ended well left in the directory of the dry runs.
LeftCycle(r) == \E i \in DOMAIN disk["dry"].cycles :
                   IsOnlyRow(disk["dry"].cycles, i, r)
LeftStatus(r) == \E i \in DOMAIN disk["dry"].statuses :
                    disk["dry"].statuses[i].run = r
LeftTransition(r, end) ==
    \E i \in DOMAIN disk["dry"].transitions :
       /\ IsOnlyRow(disk["dry"].transitions, i, r)
       /\ disk["dry"].transitions[i].start = Initial
       /\ disk["dry"].transitions[i].end = end

\* No file of the dry runs names a run that has not been started.
DryRowsInv ==
    /\ \A f \in RunRowFiles : \A i \in DOMAIN disk["dry"][f] :
          disk["dry"][f][i].run \in 0 .. runs
    /\ disk["dry"].verdict.run \in 0 .. runs

\* The cycle of the dry run is over, and was a success.
WentWell ==
    \/ step = "returned" /\ out.success
    \/ step = "verdict" /\ task.launch = "success"

\* What a dry run has left so far.
DryRunInv ==
    task.kind = "dry" =>
       /\ disk["dry"].verdict.run < runs
       /\ books = Initial
       /\ step \in {"cycle", "status", "health", "transition", "returned"}
             => out.start = Initial
       /\ step \in {"input", "cycle"} =>
             \A i \in DOMAIN disk["dry"].cycles :
                disk["dry"].cycles[i].run # runs
       /\ step \in {"input", "cycle", "status", "health", "transition"} =>
             \A i \in DOMAIN disk["dry"].transitions :
                disk["dry"].transitions[i].run # runs
       /\ step \in {"status", "health", "transition"} \/ WentWell =>
             LeftCycle(runs)
       /\ step \in {"health", "transition"} \/ WentWell => LeftStatus(runs)
       /\ step = "transition" \/ WentWell => disk["dry"].health.run = runs
       /\ WentWell /\ task.mode = "paper" => LeftTransition(runs, out.end)

DryInv == DryRowsInv /\ DryRunInv /\ VerdictIsOnDisk

SameDry == \A f \in FileNames : disk'["dry"][f] = disk["dry"][f]

LEMMA DryFileNames ==
    /\ {"cycles", "statuses", "transitions", "health", "verdict"}
         \subseteq FileNames
    /\ RunRowFiles \subseteq RowFiles /\ "dry" \in Dirs
BY DEF FileNames, RowFiles, RunRowFiles, Dirs

LEMMA SameDryLeft ==
    ASSUME SameDry
    PROVE  /\ disk'["dry"].cycles = disk["dry"].cycles
           /\ disk'["dry"].statuses = disk["dry"].statuses
           /\ disk'["dry"].transitions = disk["dry"].transitions
           /\ disk'["dry"].health = disk["dry"].health
           /\ disk'["dry"].verdict = disk["dry"].verdict
           /\ \A r : LeftCycle(r)' <=> LeftCycle(r)
           /\ \A r : LeftStatus(r)' <=> LeftStatus(r)
           /\ \A r, e : LeftTransition(r, e)' <=> LeftTransition(r, e)
<1>1. /\ disk'["dry"]["cycles"] = disk["dry"]["cycles"]
      /\ disk'["dry"]["statuses"] = disk["dry"]["statuses"]
      /\ disk'["dry"]["transitions"] = disk["dry"]["transitions"]
      /\ disk'["dry"]["health"] = disk["dry"]["health"]
      /\ disk'["dry"]["verdict"] = disk["dry"]["verdict"]
  BY DryFileNames DEF SameDry
<1> QED
  BY <1>1 DEF LeftCycle, LeftStatus, LeftTransition, IsOnlyRow, Initial

LEMMA VerdictMeans ==
    VerdictIsOnDisk <=>
        LET v == disk["dry"].verdict
        IN  /\ v.run > 0 => (v.ok <=> v.exit = 0)
            /\ v.ok => /\ LeftCycle(v.run) /\ LeftStatus(v.run)
                       /\ disk["dry"].health.run >= v.run
                       /\ v.mode = "paper" => LeftTransition(v.run, v.final)
BY DEF VerdictIsOnDisk, LeftCycle, LeftStatus, LeftTransition

LEMMA VerdictWillMean ==
    ASSUME NEW v, disk'["dry"].verdict = v
    PROVE  VerdictIsOnDisk' <=>
              /\ v.run > 0 => (v.ok <=> v.exit = 0)
              /\ v.ok => /\ LeftCycle(v.run)' /\ LeftStatus(v.run)'
                         /\ disk'["dry"].health.run >= v.run
                         /\ v.mode = "paper" => LeftTransition(v.run, v.final)'
BY DEF VerdictIsOnDisk, LeftCycle, LeftStatus, LeftTransition

\* Steps that leave the files of the dry runs as they are.
LEMMA FilesKept ==
    ASSUME DryInv, SameDry, runs \in Nat, runs' \in Nat, runs <= runs'
    PROVE  DryRowsInv' /\ VerdictIsOnDisk'
<1>1. DryRowsInv'
  <2>1. ASSUME NEW f \in RunRowFiles, NEW i \in DOMAIN disk'["dry"][f]
        PROVE  disk'["dry"][f][i].run \in 0 .. runs'
    <3>1. disk'["dry"][f] = disk["dry"][f]
      BY DryFileNames DEF SameDry, RowFiles, FileNames
    <3>2. disk["dry"][f][i].run \in 0 .. runs
      BY <2>1, <3>1 DEF DryInv, DryRowsInv
    <3> QED BY <3>1, <3>2
  <2>2. disk'["dry"].verdict.run \in 0 .. runs'
    BY SameDryLeft DEF DryInv, DryRowsInv
  <2> QED BY <2>1, <2>2 DEF DryRowsInv
<1>2. VerdictIsOnDisk'
  <2>1. PICK v : v = disk["dry"].verdict
    OBVIOUS
  <2>2. /\ v.run > 0 => (v.ok <=> v.exit = 0)
        /\ v.ok => /\ LeftCycle(v.run) /\ LeftStatus(v.run)
                   /\ disk["dry"].health.run >= v.run
                   /\ v.mode = "paper" => LeftTransition(v.run, v.final)
    BY <2>1, VerdictMeans DEF DryInv
  <2>3. /\ disk'["dry"].verdict = v
        /\ disk'["dry"].health = disk["dry"].health
        /\ LeftCycle(v.run)' <=> LeftCycle(v.run)
        /\ LeftStatus(v.run)' <=> LeftStatus(v.run)
        /\ LeftTransition(v.run, v.final)' <=> LeftTransition(v.run, v.final)
    BY <2>1, SameDryLeft
  <2> QED BY <2>2, <2>3, VerdictWillMean
<1> QED BY <1>1, <1>2

\* A row of this run comes to a file of the dry runs: what other runs left
\* there, and the other files, stay.
LEMMA RowOfThisRun ==
    ASSUME ShapeInv, DryRowsInv, task.kind = "dry", NEW f \in RunRowFiles,
           NEW row, row.run = runs, Append1(f, row), runs' = runs
    PROVE  /\ DryRowsInv'
           /\ disk'["dry"][f] = Append(disk["dry"][f], row)
           /\ \A g \in FileNames \ {f} : disk'["dry"][g] = disk["dry"][g]
           /\ \A r : r # runs => /\ LeftCycle(r) => LeftCycle(r)'
                                 /\ LeftStatus(r) => LeftStatus(r)'
                                 /\ \A e : LeftTransition(r, e) =>
                                              LeftTransition(r, e)'
<1>1. DiskShape /\ Dir = "dry" /\ f \in RowFiles /\ f \in FileNames
  BY DirIsOne, DryFileNames DEF ShapeInv, FileNames
<1>2. /\ disk'["dry"][f] = Append(disk["dry"][f], row)
      /\ \A g \in FileNames \ {f} : disk'["dry"][g] = disk["dry"][g]
  BY <1>1, DryFileNames, AppendedFile
<1>3. \A g \in RunRowFiles : IsFile(disk["dry"][g])
  BY <1>1, DryFileNames DEF DiskShape
<1>4. runs \in Nat
  BY DEF ShapeInv
<1>5. DryRowsInv'
  <2>1. ASSUME NEW g \in RunRowFiles, NEW i \in DOMAIN disk'["dry"][g]
        PROVE  disk'["dry"][g][i].run \in 0 .. runs
    <3>1. CASE g # f
      BY <1>2, <2>1, <3>1, DryFileNames DEF DryRowsInv, FileNames
    <3>2. CASE g = f
      <4>1. \/ /\ i \in DOMAIN disk["dry"][f]
               /\ disk'["dry"][f][i] = disk["dry"][f][i]
            \/ disk'["dry"][f][i] = row
        BY <1>2, <1>3, <2>1, <3>2, AppendedRow
      <4> QED BY <1>4, <3>2, <4>1 DEF DryRowsInv
    <3> QED BY <3>1, <3>2
  <2>2. disk'["dry"]["verdict"] = disk["dry"]["verdict"]
    BY <1>2, DryFileNames DEF RunRowFiles
  <2> QED BY <2>1, <2>2 DEF DryRowsInv
<1>6. ASSUME NEW g \in RunRowFiles, NEW r, r # runs, NEW i \in DOMAIN disk["dry"][g]
      PROVE  /\ i \in DOMAIN disk'["dry"][g]
             /\ disk'["dry"][g][i] = disk["dry"][g][i]
             /\ IsOnlyRow(disk["dry"][g], i, r) => IsOnlyRow(disk'["dry"][g], i, r)
  <2>1. CASE g # f
    <3>1. disk'["dry"][g] = disk["dry"][g]
      BY <1>2, <2>1, DryFileNames DEF FileNames
    <3> QED BY <1>6, <3>1
  <2>2. CASE g = f
    <3>1. IsFile(disk["dry"][f])
      BY <1>3
    <3>2. /\ i \in DOMAIN disk'["dry"][f]
          /\ disk'["dry"][f][i] = disk["dry"][f][i]
      BY <1>2, <1>6, <2>2, <3>1, AppendedRow
    <3>3. IsOnlyRow(disk["dry"][f], i, r) => IsOnlyRow(disk'["dry"][f], i, r)
      BY <1>2, <1>6, <2>2, <3>1, OnlyRowKept
    <3> QED BY <2>2, <3>2, <3>3
  <2> QED BY <2>1, <2>2
<1>7. ASSUME NEW r, r # runs
      PROVE  /\ LeftCycle(r) => LeftCycle(r)'
             /\ LeftStatus(r) => LeftStatus(r)'
             /\ \A e : LeftTransition(r, e) => LeftTransition(r, e)'
  <2>1. LeftCycle(r) => LeftCycle(r)'
    <3>1. "cycles" \in RunRowFiles
      BY DEF RunRowFiles
    <3>2. ASSUME NEW i \in DOMAIN disk["dry"]["cycles"],
                 IsOnlyRow(disk["dry"]["cycles"], i, r)
          PROVE  /\ i \in DOMAIN disk'["dry"]["cycles"]
                 /\ IsOnlyRow(disk'["dry"]["cycles"], i, r)
      BY <1>6, <1>7, <3>1, <3>2
    <3> QED BY <3>2 DEF LeftCycle, IsOnlyRow
  <2>2. LeftStatus(r) => LeftStatus(r)'
    <3>1. "statuses" \in RunRowFiles
      BY DEF RunRowFiles
    <3>2. ASSUME NEW i \in DOMAIN disk["dry"]["statuses"]
          PROVE  /\ i \in DOMAIN disk'["dry"]["statuses"]
                 /\ disk'["dry"]["statuses"][i] = disk["dry"]["statuses"][i]
      BY <1>6, <1>7, <3>1
    <3> QED BY <3>2 DEF LeftStatus
  <2>3. ASSUME NEW e PROVE LeftTransition(r, e) => LeftTransition(r, e)'
    <3>1. "transitions" \in RunRowFiles
      BY DEF RunRowFiles
    <3>2. ASSUME NEW i \in DOMAIN disk["dry"]["transitions"],
                 IsOnlyRow(disk["dry"]["transitions"], i, r)
          PROVE  /\ i \in DOMAIN disk'["dry"]["transitions"]
                 /\ IsOnlyRow(disk'["dry"]["transitions"], i, r)
                 /\ disk'["dry"]["transitions"][i]
                      = disk["dry"]["transitions"][i]
      BY <1>6, <1>7, <3>1, <3>2
    <3> QED BY <3>2 DEF LeftTransition, IsOnlyRow, Initial
  <2> QED BY <2>1, <2>2, <2>3
<1> QED BY <1>2, <1>5, <1>7

-----------------------------------------------------------------------------
(* A dry run, step by step.                                                *)

\* What the next state has left, in terms of the run r and the portfolio e.
LEMMA DryRunWillBe ==
    ASSUME NEW r, runs' = r, NEW e, out'.end = e
    PROVE  DryRunInv' <=>
       (task'.kind = "dry" =>
          /\ disk'["dry"].verdict.run < r
          /\ books' = Initial
          /\ step' \in {"cycle", "status", "health", "transition", "returned"}
                => out'.start = Initial
          /\ step' \in {"input", "cycle"} =>
                \A i \in DOMAIN disk'["dry"].cycles :
                   disk'["dry"].cycles[i].run # r
          /\ step' \in {"input", "cycle", "status", "health", "transition"} =>
                \A i \in DOMAIN disk'["dry"].transitions :
                   disk'["dry"].transitions[i].run # r
          /\ step' \in {"status", "health", "transition"} \/ WentWell' =>
                LeftCycle(r)'
          /\ step' \in {"health", "transition"} \/ WentWell' => LeftStatus(r)'
          /\ step' = "transition" \/ WentWell' => disk'["dry"].health.run = r
          /\ WentWell' /\ task'.mode = "paper" => LeftTransition(r, e)')
BY DEF DryRunInv, LeftCycle, LeftStatus, LeftTransition, Initial

\* The runner has the process leave the dry run, or none ran.
LEMMA LeftAlone ==
    ASSUME ShapeInv, DryInv, SameDry, runs' \in Nat, runs <= runs',
           task'.kind # "dry"
    PROVE  DryInv'
<1>1. DryRowsInv' /\ VerdictIsOnDisk'
  BY FilesKept DEF ShapeInv
<1>2. DryRunInv'
  BY DEF DryRunInv
<1> QED BY <1>1, <1>2 DEF DryInv

\* What runs beside the dry runs writes none of their files.
LEMMA OthersWrite ==
    ASSUME ShapeInv, [Next]_vars, task.kind # "dry" PROVE SameDry
<1>1. Dir \in Dirs /\ Dir # "dry" /\ "dry" \in Dirs /\ DiskShape
  BY DirIsOne, DryFileNames DEF ShapeInv
<1>2. CASE Appends
  <2>1. PICK f \in RowFiles : \E row : Append1(f, row)
    BY <1>2 DEF Appends, PersistCycle, PersistSummary, PersistTransition,
                PersistSessionSummary, PersistParity, RowFiles
  <2>2. PICK row : Append1(f, row)
    BY <2>1
  <2> QED BY <1>1, <2>2, AppendedFile DEF SameDry
<1>3. CASE PersistHealth
  <2>1. Written(Dir, "health", Row)
    BY <1>3 DEF PersistHealth, Written
  <2>2. "health" \in FileNames /\ "health" \notin RowFiles
    BY DEF FileNames, RowFiles
  <2> QED BY <1>1, <2>1, <2>2, WrittenFile DEF SameDry
<1>4. CASE WriteVerdict
  BY <1>4 DEF WriteVerdict, ShapeInv
<1>5. CASE disk' = disk
  BY <1>5 DEF SameDry
<1> QED BY <1>2, <1>3, <1>4, <1>5, StepsOfDisk

LEMMA RunsGrow ==
    ASSUME ShapeInv, [Next]_vars
    PROVE  /\ runs' \in Nat /\ runs <= runs'
           /\ Starts \/ runs' = runs
<1>1. CASE Starts
  <2>1. runs' = runs + 1
    BY Zenon, <1>1 DEF Starts, StartSession, StartReplay, StartDryRun, Start
  <2> QED BY <1>1, <2>1 DEF ShapeInv
<1>2. CASE ~ Starts
  <2>1. runs' = runs
    BY <1>2 DEF Next, vars, Starts, TakeBar, PersistCycle, PersistSummary,
       PersistHealth, PersistTransition, CarryPortfolio, PersistSessionSummary,
       ReplayPaper, PersistParity, EndReplay, RunnerRaises, LaunchRaises,
       LaunchEnds, WriteVerdict, Killed
  <2> QED BY <2>1 DEF ShapeInv
<1> QED BY <1>1, <1>2

LEMMA DryStarts ==
    ASSUME ShapeInv, DryInv, NEW s \in Settings, StartDryRun(s)
    PROVE  DryInv'
<1>1. /\ runs \in Nat /\ runs' = runs + 1 /\ disk' = disk
      /\ books' = Initial /\ step' \in {"input", "verdict"}
      /\ task' = [NoTask EXCEPT !.kind = "dry", !.mode = s.mode,
                                !.venue = "binance"]
  BY DEF StartDryRun, Start, ShapeInv
<1>2. SameDry
  BY <1>1 DEF SameDry
<1>3. DryRowsInv' /\ VerdictIsOnDisk'
  BY <1>1, <1>2, FilesKept
<1>4. ~ WentWell'
  BY <1>1 DEF WentWell, NoTask
<1>5. PICK r : r = runs + 1
  OBVIOUS
<1>6. /\ disk'["dry"].verdict.run < r
      /\ \A i \in DOMAIN disk'["dry"].cycles :
            disk'["dry"].cycles[i].run # r
      /\ \A i \in DOMAIN disk'["dry"].transitions :
            disk'["dry"].transitions[i].run # r
  <2>1. \A f \in RunRowFiles : \A i \in DOMAIN disk["dry"][f] :
           disk["dry"][f][i].run \in 0 .. runs
    BY DEF DryInv, DryRowsInv
  <2>2. /\ \A i \in DOMAIN disk["dry"]["cycles"] :
              disk["dry"]["cycles"][i].run \in 0 .. runs
        /\ \A i \in DOMAIN disk["dry"]["transitions"] :
              disk["dry"]["transitions"][i].run \in 0 .. runs
    BY <2>1 DEF RunRowFiles
  <2>3. disk["dry"].verdict.run \in 0 .. runs
    BY DEF DryInv, DryRowsInv
  <2> QED BY <1>1, <1>5, <2>2, <2>3
<1>7. DryRunInv'
  <2>1. PICK e : out'.end = e
    OBVIOUS
  <2>2. runs' = r
    BY <1>1, <1>5
  <2> QED BY <1>1, <1>4, <1>6, <2>1, <2>2, DryRunWillBe
<1> QED BY <1>3, <1>7 DEF DryInv

\* A dry run that writes nothing in this step: the files it left are the same,
\* and the invariant of the next state follows from where it goes.
LEMMA DryMovesOn ==
    ASSUME ShapeInv, DryInv, SameDry, task.kind = "dry",
           runs' = runs, books' = books,
           step' \in {"cycle", "status", "health", "transition", "returned"}
              => out'.start = Initial,
           step' \in {"input", "cycle"} => step \in {"input", "cycle"},
           step' \notin {"status", "health", "transition"},
           WentWell' => WentWell /\ out' = out /\ task'.mode = task.mode
    PROVE  DryInv'
<1>1. DryRowsInv' /\ VerdictIsOnDisk'
  BY FilesKept DEF ShapeInv
<1>2. PICK r : r = runs
  OBVIOUS
<1>3. PICK e : out'.end = e
  OBVIOUS
<1>4. /\ disk'["dry"].cycles = disk["dry"].cycles
      /\ disk'["dry"].transitions = disk["dry"].transitions
      /\ disk'["dry"].health = disk["dry"].health
      /\ disk'["dry"].verdict = disk["dry"].verdict
      /\ LeftCycle(r)' <=> LeftCycle(r)
      /\ LeftStatus(r)' <=> LeftStatus(r)
      /\ LeftTransition(r, e)' <=> LeftTransition(r, e)
  BY SameDryLeft
<1>5. DryRunInv
  BY DEF DryInv
<1>6. DryRunInv'
  <2>1. /\ disk["dry"].verdict.run < r /\ books = Initial
        /\ step \in {"input", "cycle"} =>
             /\ \A i \in DOMAIN disk["dry"].cycles :
                   disk["dry"].cycles[i].run # r
             /\ \A i \in DOMAIN disk["dry"].transitions :
                   disk["dry"].transitions[i].run # r
    BY <1>2, <1>5 DEF DryRunInv
  <2>2. WentWell' => /\ LeftCycle(r) /\ LeftStatus(r)
                     /\ disk["dry"].health.run = r
                     /\ task'.mode = "paper" => LeftTransition(r, e)
    BY <1>2, <1>3, <1>5 DEF DryRunInv
  <2>3. books' = Initial /\ runs' = r
    BY <1>2, <2>1
  <2> QED BY <1>3, <1>4, <2>1, <2>2, <2>3, DryRunWillBe
<1> QED BY <1>1, <1>6 DEF DryInv

\* The dry run takes its bar.
LEMMA DryTakesBar ==
    ASSUME ShapeInv, DryInv, task.kind = "dry", NEW b \in Bars, TakeBar(b)
    PROVE  DryInv'
<1>1. /\ UNCHANGED <<runs, task, books, disk>> /\ step = "input"
      /\ step' \in {"cycle", "returned"}
      /\ Run(b, books)
  BY DEF TakeBar, Run
<1>2. out'.start = books
  BY <1>1 DEF Run, PaperOutcome, ReportOutcome, LiveOutcome, Refused
<1>3. books = Initial
  BY DEF DryInv, DryRunInv
<1>4. step' = "returned" => ~ out'.success
  BY <1>1 DEF Run, Reports, PaperOutcome, LiveOutcome, Refused
<1>5. ~ WentWell'
  BY <1>1, <1>4 DEF WentWell
<1>6. SameDry
  BY <1>1 DEF SameDry
<1> QED BY <1>1, <1>2, <1>3, <1>5, <1>6, DryMovesOn

\* The launch of the dry run is over, by itself or by an exception.
LEMMA DryLaunchOver ==
    ASSUME ShapeInv, DryInv, task.kind = "dry", step' = "verdict",
           NEW launch, task' = [task EXCEPT !.launch = launch],
           UNCHANGED <<runs, books, out, disk>>,
           launch = "success" => step = "returned" /\ out.success
    PROVE  DryInv'
<1>1. /\ task'.launch = launch /\ task'.mode = task.mode
  BY DEF ShapeInv, TaskShape
<1>2. WentWell' => WentWell
  BY <1>1 DEF WentWell
<1>3. SameDry
  BY DEF SameDry
<1> QED BY <1>1, <1>2, <1>3, DryMovesOn

\* The verdict is written.
LEMMA DryVerdict ==
    ASSUME ShapeInv, DryInv, WriteVerdict PROVE DryInv'
<1>1. /\ task.kind = "dry" /\ step = "verdict" /\ DiskShape
      /\ runs \in Nat /\ runs' = runs /\ task'.kind = "none"
      /\ task.launch \in Launches
  BY DEF WriteVerdict, Stopped, NoTask, ShapeInv, TaskShape
<1>2. PICK v : v = [run |-> runs, exit |-> ExitCode,
                    ok |-> task.launch = "success",
                    mode |-> task.mode, final |-> out.end]
  OBVIOUS
<1>3. /\ disk'["dry"]["verdict"] = v
      /\ \A g \in FileNames : g # "verdict" => disk'["dry"][g] = disk["dry"][g]
  <2>1. Written("dry", "verdict", v)
    BY <1>2 DEF WriteVerdict, Written
  <2>2. "dry" \in Dirs /\ "verdict" \in FileNames /\ "verdict" \notin RowFiles
    BY DryFileNames DEF RowFiles
  <2> QED BY <1>1, <2>1, <2>2, WrittenFile
<1>4. /\ disk'["dry"]["cycles"] = disk["dry"]["cycles"]
      /\ disk'["dry"]["statuses"] = disk["dry"]["statuses"]
      /\ disk'["dry"]["transitions"] = disk["dry"]["transitions"]
      /\ disk'["dry"]["health"] = disk["dry"]["health"]
  BY <1>3, DryFileNames
<1>5. DryRowsInv'
  <2>1. ASSUME NEW f \in RunRowFiles, NEW i \in DOMAIN disk'["dry"][f]
        PROVE  disk'["dry"][f][i].run \in 0 .. runs'
    <3>1. disk'["dry"][f] = disk["dry"][f]
      BY <1>4 DEF RunRowFiles
    <3>2. disk["dry"][f][i].run \in 0 .. runs
      BY <2>1, <3>1 DEF DryInv, DryRowsInv
    <3> QED BY <1>1, <3>1, <3>2
  <2>2. disk'["dry"].verdict.run \in 0 .. runs'
    BY <1>1, <1>2, <1>3
  <2> QED BY <2>1, <2>2 DEF DryRowsInv
<1>6. VerdictIsOnDisk'
  <2>1. v.ok <=> v.exit = 0
    <3>1. task.launch = "success" => ExitCode = 0
      BY DEF ExitCode
    <3>2. task.launch = "none" => ExitCode = 1
      BY DEF ExitCode
    <3>3. task.launch \in {"raised", "unsuccessful"} => ExitCode = 2
      BY DEF ExitCode
    <3>4. task.launch = "success" <=> ExitCode = 0
      BY <1>1, <3>1, <3>2, <3>3 DEF Launches
    <3> QED BY <1>2, <3>4
  <2>2. v.ok => WentWell
    BY <1>1, <1>2 DEF WentWell
  <2>3. v.ok => /\ LeftCycle(v.run) /\ LeftStatus(v.run)
                /\ disk["dry"].health.run = v.run
                /\ v.mode = "paper" => LeftTransition(v.run, v.final)
    BY <1>1, <1>2, <2>2 DEF DryInv, DryRunInv
  <2>4. v.run = runs
    BY <1>2
  <2>5. /\ LeftCycle(v.run)' <=> LeftCycle(v.run)
        /\ LeftStatus(v.run)' <=> LeftStatus(v.run)
        /\ LeftTransition(v.run, v.final)' <=> LeftTransition(v.run, v.final)
    BY <1>4 DEF LeftCycle, LeftStatus, LeftTransition, IsOnlyRow, Initial
  <2>6. v.ok => disk'["dry"].health.run >= v.run
    BY <1>1, <1>4, <2>3, <2>4
  <2> QED BY <1>3, <2>1, <2>3, <2>5, <2>6, VerdictWillMean
<1>7. DryRunInv'
  BY <1>1 DEF DryRunInv
<1> QED BY <1>5, <1>6, <1>7 DEF DryInv

\* A row of the dry run comes to one of its files: the verdict on file is that
\* of an earlier run, and stays true.
LEMMA RowKeepsVerdict ==
    ASSUME ShapeInv, DryInv, task.kind = "dry", NEW f \in RunRowFiles,
           NEW row, row.run = runs, Append1(f, row), runs' = runs
    PROVE  /\ VerdictIsOnDisk'
           /\ disk'["dry"]["verdict"] = disk["dry"]["verdict"]
           /\ disk'["dry"]["health"] = disk["dry"]["health"]
<1>1. /\ \A g \in FileNames \ {f} : disk'["dry"][g] = disk["dry"][g]
      /\ \A r : r # runs => /\ LeftCycle(r) => LeftCycle(r)'
                            /\ LeftStatus(r) => LeftStatus(r)'
                            /\ \A e : LeftTransition(r, e) =>
                                         LeftTransition(r, e)'
  BY RowOfThisRun DEF DryInv
<1>2. /\ disk'["dry"]["verdict"] = disk["dry"]["verdict"]
      /\ disk'["dry"]["health"] = disk["dry"]["health"]
  BY <1>1, DryFileNames DEF RunRowFiles
<1>3. PICK v : v = disk["dry"].verdict
  OBVIOUS
<1>4. /\ v.run > 0 => (v.ok <=> v.exit = 0)
      /\ v.ok => /\ LeftCycle(v.run) /\ LeftStatus(v.run)
                 /\ disk["dry"].health.run >= v.run
                 /\ v.mode = "paper" => LeftTransition(v.run, v.final)
  BY <1>3, VerdictMeans DEF DryInv
<1>5. v.run # runs
  BY <1>3 DEF DryInv, DryRunInv, DryRowsInv, ShapeInv
<1>6. VerdictIsOnDisk'
  BY <1>1, <1>2, <1>3, <1>4, <1>5, VerdictWillMean
<1> QED BY <1>2, <1>6

LEMMA DryPersistsCycle ==
    ASSUME ShapeInv, DryInv, task.kind = "dry", PersistCycle PROVE DryInv'
<1>1. /\ UNCHANGED <<runs, task, books, out>> /\ step = "cycle"
      /\ step' = "status" /\ Append1("cycles", Row) /\ Row.run = runs
      /\ "cycles" \in RunRowFiles
  BY DEF PersistCycle, Row, RunRowFiles
<1>2. /\ DryRowsInv'
      /\ disk'["dry"]["cycles"] = Append(disk["dry"]["cycles"], Row)
      /\ \A g \in FileNames \ {"cycles"} : disk'["dry"][g] = disk["dry"][g]
  BY <1>1, RowOfThisRun DEF DryInv
<1>3. /\ VerdictIsOnDisk'
      /\ disk'["dry"]["verdict"] = disk["dry"]["verdict"]
  BY <1>1, RowKeepsVerdict
<1>4. disk'["dry"]["transitions"] = disk["dry"]["transitions"]
  BY <1>2, DryFileNames
<1>5. PICK r : r = runs
  OBVIOUS
<1>6. PICK e : e = out.end
  OBVIOUS
<1>7. LeftCycle(r)'
  <2>1. IsFile(disk["dry"]["cycles"])
    BY <1>1, DryFileNames DEF ShapeInv, DiskShape
  <2>2. \A j \in DOMAIN disk["dry"]["cycles"] :
           disk["dry"]["cycles"][j].run # r
    BY <1>1, <1>5 DEF DryInv, DryRunInv
  <2>3. \E i \in DOMAIN disk'["dry"]["cycles"] :
           IsOnlyRow(disk'["dry"]["cycles"], i, r)
    BY <1>1, <1>2, <1>5, <2>1, <2>2, OnlyRowMade
  <2> QED BY <2>3 DEF LeftCycle, IsOnlyRow
<1>8. DryRunInv'
  <2>1. /\ disk["dry"].verdict.run < r /\ books = Initial
        /\ out.start = Initial
        /\ \A i \in DOMAIN disk["dry"].transitions :
              disk["dry"].transitions[i].run # r
    BY <1>1, <1>5 DEF DryInv, DryRunInv
  <2>2. ~ WentWell'
    BY <1>1 DEF WentWell
  <2>3. runs' = r /\ out'.end = e
    BY <1>1, <1>5, <1>6
  <2> QED BY <1>1, <1>3, <1>4, <1>7, <2>1, <2>2, <2>3, DryRunWillBe
<1> QED BY <1>2, <1>3, <1>8 DEF DryInv

LEMMA DryPersistsSummary ==
    ASSUME ShapeInv, DryInv, task.kind = "dry", PersistSummary PROVE DryInv'
<1>1. /\ UNCHANGED <<runs, task, books, out>> /\ step = "status"
      /\ step' = "health" /\ Append1("statuses", Row) /\ Row.run = runs
      /\ "statuses" \in RunRowFiles
  BY DEF PersistSummary, Row, RunRowFiles
<1>2. /\ DryRowsInv'
      /\ disk'["dry"]["statuses"] = Append(disk["dry"]["statuses"], Row)
      /\ \A g \in FileNames \ {"statuses"} : disk'["dry"][g] = disk["dry"][g]
  BY <1>1, RowOfThisRun DEF DryInv
<1>3. /\ VerdictIsOnDisk'
      /\ disk'["dry"]["verdict"] = disk["dry"]["verdict"]
  BY <1>1, RowKeepsVerdict
<1>4. /\ disk'["dry"]["transitions"] = disk["dry"]["transitions"]
      /\ disk'["dry"]["cycles"] = disk["dry"]["cycles"]
  BY <1>2, DryFileNames
<1>5. PICK r : r = runs
  OBVIOUS
<1>6. PICK e : e = out.end
  OBVIOUS
<1>7. LeftStatus(r)'
  <2>1. IsFile(disk["dry"]["statuses"])
    BY <1>1, DryFileNames DEF ShapeInv, DiskShape
  <2>2. \E i \in DOMAIN disk'["dry"]["statuses"] :
           disk'["dry"]["statuses"][i] = Row
    BY <1>2, <2>1, AppendedRow
  <2> QED BY <1>1, <1>5, <2>2 DEF LeftStatus
<1>8. DryRunInv'
  <2>1. /\ disk["dry"].verdict.run < r /\ books = Initial
        /\ out.start = Initial /\ LeftCycle(r)
        /\ \A i \in DOMAIN disk["dry"].transitions :
              disk["dry"].transitions[i].run # r
    BY <1>1, <1>5 DEF DryInv, DryRunInv
  <2>2. ~ WentWell'
    BY <1>1 DEF WentWell
  <2>3. LeftCycle(r)'
    BY <1>4, <2>1 DEF LeftCycle, IsOnlyRow
  <2>4. runs' = r /\ out'.end = e
    BY <1>1, <1>5, <1>6
  <2> QED BY <1>1, <1>3, <1>4, <1>7, <2>1, <2>2, <2>3, <2>4, DryRunWillBe
<1> QED BY <1>2, <1>3, <1>8 DEF DryInv

LEMMA DryPersistsTransition ==
    ASSUME ShapeInv, DryInv, task.kind = "dry", PersistTransition
    PROVE  DryInv'
<1>1. PICK row : row = [run   |-> runs, cycle |-> task.done + 1,
                        start |-> out.start, end |-> out.end,
                        fills |-> out.fills]
  OBVIOUS
<1>2. /\ UNCHANGED <<runs, task, books, out>> /\ step = "transition"
      /\ step' = "returned" /\ Append1("transitions", row) /\ row.run = runs
      /\ row.start = out.start /\ row.end = out.end
      /\ "transitions" \in RunRowFiles
  BY <1>1 DEF PersistTransition, RunRowFiles
<1>3. /\ DryRowsInv'
      /\ disk'["dry"]["transitions"] = Append(disk["dry"]["transitions"], row)
      /\ \A g \in FileNames \ {"transitions"} :
            disk'["dry"][g] = disk["dry"][g]
  BY <1>2, RowOfThisRun DEF DryInv
<1>4. /\ VerdictIsOnDisk'
      /\ disk'["dry"]["verdict"] = disk["dry"]["verdict"]
      /\ disk'["dry"]["health"] = disk["dry"]["health"]
  BY <1>2, RowKeepsVerdict
<1>5. /\ disk'["dry"]["cycles"] = disk["dry"]["cycles"]
      /\ disk'["dry"]["statuses"] = disk["dry"]["statuses"]
  BY <1>3, DryFileNames
<1>6. PICK r : r = runs
  OBVIOUS
<1>7. PICK e : e = out.end
  OBVIOUS
<1>8. out.start = Initial
  BY <1>2 DEF DryInv, DryRunInv
<1>9. LeftTransition(r, e)'
  <2>1. IsFile(disk["dry"]["transitions"])
    BY <1>2, DryFileNames DEF ShapeInv, DiskShape
  <2>2. \A j \in DOMAIN disk["dry"]["transitions"] :
           disk["dry"]["transitions"][j].run # r
    BY <1>2, <1>6 DEF DryInv, DryRunInv
  <2>3. \E i \in DOMAIN disk'["dry"]["transitions"] :
           /\ IsOnlyRow(disk'["dry"]["transitions"], i, r)
           /\ disk'["dry"]["transitions"][i] = row
    BY <1>2, <1>3, <1>6, <2>1, <2>2, OnlyRowMade
  <2> QED BY <1>2, <1>7, <1>8, <2>3 DEF LeftTransition, IsOnlyRow, Initial
<1>10. DryRunInv'
  <2>1. /\ disk["dry"].verdict.run < r /\ books = Initial
        /\ LeftCycle(r) /\ LeftStatus(r) /\ disk["dry"].health.run = r
    BY <1>2, <1>6 DEF DryInv, DryRunInv
  <2>2. LeftCycle(r)' /\ LeftStatus(r)'
    BY <1>5, <2>1 DEF LeftCycle, LeftStatus, IsOnlyRow
  <2>3. runs' = r /\ out'.end = e
    BY <1>2, <1>6, <1>7
  <2> QED BY <1>2, <1>4, <1>8, <1>9, <2>1, <2>2, <2>3, DryRunWillBe
<1> QED BY <1>3, <1>4, <1>10 DEF DryInv

LEMMA DryPersistsHealth ==
    ASSUME ShapeInv, DryInv, task.kind = "dry", PersistHealth
    PROVE  DryInv'
<1>1. /\ UNCHANGED <<runs, task, books, out>> /\ step = "health"
      /\ step' = IF task.mode = "paper" THEN "transition" ELSE "returned"
      /\ Row.run = runs /\ Dir = "dry" /\ DiskShape /\ runs \in Nat
  BY DirIsOne DEF PersistHealth, Row, ShapeInv
<1>2. /\ disk'["dry"]["health"] = Row
      /\ \A g \in FileNames : g # "health" => disk'["dry"][g] = disk["dry"][g]
  <2>1. Written("dry", "health", Row)
    BY <1>1 DEF PersistHealth, Written
  <2>2. "dry" \in Dirs /\ "health" \in FileNames /\ "health" \notin RowFiles
    BY DryFileNames DEF RowFiles
  <2> QED BY <1>1, <2>1, <2>2, WrittenFile
<1>3. /\ disk'["dry"]["cycles"] = disk["dry"]["cycles"]
      /\ disk'["dry"]["statuses"] = disk["dry"]["statuses"]
      /\ disk'["dry"]["transitions"] = disk["dry"]["transitions"]
      /\ disk'["dry"]["verdict"] = disk["dry"]["verdict"]
  BY <1>2, DryFileNames
<1>4. DryRowsInv'
  <2>1. ASSUME NEW f \in RunRowFiles, NEW i \in DOMAIN disk'["dry"][f]
        PROVE  disk'["dry"][f][i].run \in 0 .. runs'
    <3>1. disk'["dry"][f] = disk["dry"][f]
      BY <1>3 DEF RunRowFiles
    <3>2. disk["dry"][f][i].run \in 0 .. runs
      BY <2>1, <3>1 DEF DryInv, DryRowsInv
    <3> QED BY <1>1, <3>1, <3>2
  <2>2. disk'["dry"].verdict.run \in 0 .. runs'
    BY <1>1, <1>3 DEF DryInv, DryRowsInv
  <2> QED BY <2>1, <2>2 DEF DryRowsInv
<1>5. PICK r : r = runs
  OBVIOUS
<1>6. PICK e : e = out.end
  OBVIOUS
<1>7. ASSUME NEW q
      PROVE  /\ LeftCycle(q)' <=> LeftCycle(q)
             /\ LeftStatus(q)' <=> LeftStatus(q)
             /\ \A x : LeftTransition(q, x)' <=> LeftTransition(q, x)
  BY <1>3 DEF LeftCycle, LeftStatus, LeftTransition, IsOnlyRow, Initial
<1>8. VerdictIsOnDisk'
  <2>1. PICK v : v = disk["dry"].verdict
    OBVIOUS
  <2>2. /\ v.run > 0 => (v.ok <=> v.exit = 0)
        /\ v.ok => /\ LeftCycle(v.run) /\ LeftStatus(v.run)
                   /\ v.mode = "paper" => LeftTransition(v.run, v.final)
    BY <2>1, VerdictMeans DEF DryInv
  <2>3. disk'["dry"].health.run >= v.run
    BY <1>1, <1>2, <2>1 DEF DryInv, DryRowsInv
  <2> QED BY <1>3, <1>7, <2>1, <2>2, <2>3, VerdictWillMean
<1>9. DryRunInv'
  <2>1. /\ disk["dry"].verdict.run < r /\ books = Initial
        /\ out.start = Initial /\ LeftCycle(r) /\ LeftStatus(r)
        /\ \A i \in DOMAIN disk["dry"].transitions :
              disk["dry"].transitions[i].run # r
    BY <1>1, <1>5 DEF DryInv, DryRunInv
  <2>2. LeftCycle(r)' /\ LeftStatus(r)'
    BY <1>7, <2>1
  <2>3. WentWell' => step' = "returned" /\ task'.mode # "paper"
    BY <1>1 DEF WentWell
  <2>4. disk'["dry"].health.run = r
    BY <1>1, <1>2, <1>5
  <2>5. runs' = r /\ out'.end = e
    BY <1>1, <1>5, <1>6
  <2> QED
    BY <1>1, <1>3, <2>1, <2>2, <2>3, <2>4, <2>5, DryRunWillBe
<1> QED BY <1>4, <1>8, <1>9 DEF DryInv

LEMMA DryStutters ==
    ASSUME DryInv, UNCHANGED vars PROVE DryInv'
<1>1. DryRowsInv'
  BY DEF DryInv, DryRowsInv, vars
<1>2. VerdictIsOnDisk'
  BY DEF DryInv, VerdictIsOnDisk, IsOnlyRow, Initial, vars
<1>3. DryRunInv'
  BY DEF DryInv, DryRunInv, WentWell, LeftCycle, LeftStatus, LeftTransition,
         IsOnlyRow, Initial, vars
<1> QED BY <1>1, <1>2, <1>3 DEF DryInv

LEMMA DryStep == ShapeInv /\ DryInv /\ [Next]_vars => DryInv'
<1> SUFFICES ASSUME ShapeInv, DryInv, [Next]_vars PROVE DryInv'
  OBVIOUS
<1>1. runs' \in Nat /\ runs <= runs' /\ runs \in Nat
  BY RunsGrow DEF ShapeInv
<1>2. CASE Starts
  <2>1. CASE StartSession \/ StartReplay
    <3>1. task'.kind # "dry" /\ disk' = disk
      BY Zenon, <2>1 DEF StartSession, StartReplay, Start, NoTask
    <3>2. SameDry
      BY <3>1 DEF SameDry
    <3> QED BY <1>1, <3>1, <3>2, LeftAlone
  <2>2. CASE \E s \in Settings : StartDryRun(s)
    BY <2>2, DryStarts
  <2> QED BY <1>2, <2>1, <2>2 DEF Starts
<1>3. CASE Stopped /\ SameDry
  <2>1. task'.kind # "dry"
    BY <1>3 DEF Stopped, NoTask
  <2> QED BY <1>1, <1>3, <2>1, LeftAlone
<1>4. CASE task.kind # "dry" /\ ~ Starts
  <2>1. SameDry
    BY <1>4, OthersWrite
  <2>2. task'.kind # "dry"
    <3>1. CASE Stopped
      BY <3>1 DEF Stopped, NoTask
    <3>2. CASE Carry
      BY <1>4, <3>2 DEF Carry, ShapeInv, TaskShape
    <3>3. CASE ReplayPaper
      BY <1>4, <3>3 DEF ReplayPaper, ShapeInv, TaskShape
    <3>4. CASE task' = task
      BY <1>4, <3>4
    <3>5. Stopped \/ Carry \/ ReplayPaper \/ task' = task
      BY <1>4 DEF Next, vars, Starts, TakeBar, PersistCycle, PersistSummary,
         PersistHealth, PersistTransition, CarryPortfolio,
         PersistSessionSummary, PersistParity, EndReplay, RunnerRaises,
         LaunchRaises, LaunchEnds, WriteVerdict, Killed
    <3> QED BY <3>1, <3>2, <3>3, <3>4, <3>5
  <2> QED BY <1>1, <2>1, <2>2, LeftAlone
<1>5. CASE task.kind = "dry" /\ ~ Starts
  <2>1. CASE \E b \in Bars : TakeBar(b)
    BY <1>5, <2>1, DryTakesBar
  <2>2. CASE PersistCycle
    BY <1>5, <2>2, DryPersistsCycle
  <2>3. CASE PersistSummary
    BY <1>5, <2>3, DryPersistsSummary
  <2>4. CASE PersistHealth
    BY <1>5, <2>4, DryPersistsHealth
  <2>5. CASE PersistTransition
    BY <1>5, <2>5, DryPersistsTransition
  <2>6. CASE \/ CarryPortfolio \/ PersistSessionSummary \/ ReplayPaper
             \/ EndReplay \/ PersistParity
    BY <1>5, <2>6 DEF CarryPortfolio, PersistSessionSummary, ReplayPaper,
                      EndReplay, PersistParity, ShapeInv
  <2>7. CASE (\E b \in Bars : RunnerRaises(b)) \/ LaunchRaises \/ LaunchEnds
    <3>1. /\ step' = "verdict" /\ UNCHANGED <<runs, books, out, disk>>
          /\ \E launch : /\ task' = [task EXCEPT !.launch = launch]
                         /\ launch = "success" =>
                               step = "returned" /\ out.success
      BY <1>5, <2>7 DEF RunnerRaises, LaunchRaises, LaunchEnds
    <3> QED BY <1>5, <3>1, DryLaunchOver
  <2>8. CASE WriteVerdict
    BY <2>8, DryVerdict
  <2>9. CASE Killed
    BY <1>3, <2>9 DEF Killed, SameDry
  <2>10. CASE UNCHANGED vars
    BY <2>10, DryStutters
  <2> QED
    BY <1>5, <2>1, <2>2, <2>3, <2>4, <2>5, <2>6, <2>7, <2>8, <2>9, <2>10
    DEF Next, Starts
<1> QED BY <1>2, <1>4, <1>5

LEMMA DryInit == Init => DryInv
<1> SUFFICES ASSUME Init PROVE DryInv
  OBVIOUS
<1>1. disk["dry"] = Empty /\ runs = 0 /\ task.kind = "none"
  BY DEF Init, Dirs, NoTask
<1>2. DryRowsInv
  <2>1. \A f \in RunRowFiles : Empty[f] = << >>
    BY DEF Empty, RunRowFiles
  <2>2. Empty.verdict.run = 0
    BY DEF Empty
  <2> QED BY <1>1, <2>1, <2>2 DEF DryRowsInv
<1>3. VerdictIsOnDisk
  BY <1>1 DEF VerdictIsOnDisk, Empty
<1> QED BY <1>1, <1>2, <1>3 DEF DryInv, DryRunInv

\* A dry run that tells of success left the rows it tells of, whatever other
\* runs left in its files and wherever they were killed.
THEOREM VerdictsAreOnDisk == Spec => []VerdictIsOnDisk
<1>1. Init => ShapeInv /\ DryInv
  BY ShapeInit, DryInit
<1>2. ShapeInv /\ DryInv /\ [Next]_vars => ShapeInv' /\ DryInv'
  BY ShapeStep, DryStep
<1>3. DryInv => VerdictIsOnDisk
  BY DEF DryInv
<1> QED BY <1>1, <1>2, <1>3, PTL DEF Spec
=============================================================================
