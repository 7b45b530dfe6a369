------------------------------ MODULE SoakLoop ------------------------------
(***************************************************************************)
(* A campaign of soak sessions: each repeats one runtime cycle until its   *)
(* deadline, its number of cycles or a stop criterion, and sums up what it *)
(* saw.  What one pass of the gate does is RestrictedLive's business; here *)
(* it is a result.                                                         *)
(*                                                                         *)
(*   scripts/binance_restricted_live_soak_campaign.py   the campaign       *)
(*   monitoring/restricted_live_soak.py                 the loop           *)
(*   runtime/restricted_live_runner.py                  one cycle          *)
(*   runtime/bar_close_validator.py, data_quality.py    when it is refused *)
(*   monitoring/exchange_health.py                      what stops it      *)
(*   monitoring/runtime_status.py                       what it leaves     *)
(***************************************************************************)
EXTENDS Integers, Sequences, FiniteSets

CONSTANTS
    Durations,     \* of the sessions of the campaign, in order
    MaxCycles,     \* --cycles
    MaxBlocked,    \* --max-blocked-mutations
    Intervals,     \* --poll-interval-seconds, one for the campaign
    CycleTimes,    \* how long a cycle may take
    InputChoices,  \* what a session may be given to decide on
    PassChoices,   \* what a pass of the gate may return
    StreamChoices  \* what the private stream may say of itself

ASSUME SessionsAssumption ==
    /\ Durations \in Seq(Nat \ {0}) /\ Durations # <<>>
    /\ MaxCycles \in Nat /\ MaxBlocked \in Nat /\ Intervals \subseteq Nat
    /\ CycleTimes \subseteq Nat /\ IsFiniteSet(CycleTimes) /\ CycleTimes # {}

-----------------------------------------------------------------------------
(* What a cycle is given.                                                  *)

Snapshot == {"none", "ok", "missing", "stale", "version_mismatch"}
Input == [closed : BOOLEAN,        \* the latest candle
          aligned : BOOLEAN,       \* the slice ends with it, no overlap
          context : {"none", "open", "stale", "fresh"},
          index : Snapshot, stablecoin : Snapshot \ {"version_mismatch"},
          clock : {"unknown", "ok", "uncertain"}]
ASSUME InputsAssumption == InputChoices \subseteq Input

BarIsValid(i) == i.closed /\ i.aligned

QualityStates(i) ==
    {q \in {"incomplete_bar", "stale_data", "missing_data",
            "version_mismatch", "time_sync_uncertain"} :
        \/ q = "incomplete_bar" /\ (~i.closed \/ i.context = "open")
        \/ q = "stale_data" /\ "stale" \in {i.context, i.index, i.stablecoin}
        \/ q = "missing_data" /\ "missing" \in {i.index, i.stablecoin}
        \/ q = "version_mismatch" /\ i.index = "version_mismatch"
        \/ q = "time_sync_uncertain" /\ i.clock = "uncertain"}

\* Of restricted-live; the other runners never ask.
FailsClosed(i) == QualityStates(i) # {}

ReachesGate(i) == BarIsValid(i) /\ ~FailsClosed(i)

-----------------------------------------------------------------------------
(* What a pass returns, and what health is made of it.                     *)

Convergences == {"not_required", "pending", "converged_terminal",
                 "unreconciled_manual_attention"}
Pass == [transport : BOOLEAN,      \* FALSE: nothing to reconcile
         attempted : BOOLEAN, applied : BOOLEAN,
         convergence : Convergences,
         queries : Nat, last : {"none", "success", "failed", "blocked"}]
ASSUME PassesAssumption ==
    \A p \in PassChoices :
        /\ p \in Pass
        /\ p.applied => p.attempted
        /\ ~p.transport => p.convergence = "not_required" /\ ~p.attempted
        /\ (p.convergence = "not_required") = (p.queries = 0)
        /\ (p.last = "none") = (p.queries = 0)
        /\ p.convergence = "unreconciled_manual_attention" =>
             p.attempted /\ ~p.applied

NoPass == [transport |-> FALSE, attempted |-> FALSE, applied |-> FALSE,
           convergence |-> "not_required", queries |-> 0, last |-> "none"]

Blocked(p) == p.attempted /\ ~p.applied

StreamStates == {"none", "authoritative", "degraded", "terminated"}
ASSUME StreamsAssumption == StreamChoices \subseteq StreamStates

StreamHealth(s) ==
    CASE s = "none" -> "unknown"
      [] s = "authoritative" -> "healthy"
      [] s = "terminated" -> "fatal"
      [] OTHER -> "degraded"

\* The events of a pass keep the missing or unknown order next to its
\* recovery: a pass that converged is degraded like one that did not.
ReconciliationHealth(p) ==
    IF ~p.transport THEN "unknown"
    ELSE IF p.convergence = "unreconciled_manual_attention" THEN "fatal"
    ELSE IF p.convergence = "not_required" THEN "healthy" ELSE "degraded"

QueryHealth(p) ==
    CASE p.last = "none" -> "unknown"
      [] p.last = "success" -> "healthy"
      [] OTHER -> "degraded"

\* Mutant: the mildest trouble is told first.
OverallDegradedFirst(states) ==
    IF "degraded" \in states THEN "degraded"
    ELSE IF "fatal" \in states THEN "fatal"
    ELSE IF states = {"unknown"} THEN "unknown" ELSE "healthy"

Overall(states) ==
    IF "fatal" \in states THEN "fatal"
    ELSE IF "degraded" \in states THEN "degraded"
    ELSE IF states = {"unknown"} THEN "unknown" ELSE "healthy"

\* The soak gives no clock status.
ExchangeHealth(s, p) ==
    Overall({StreamHealth(s), ReconciliationHealth(p), "unknown",
             QueryHealth(p)})

-----------------------------------------------------------------------------
VARIABLES
    sessions,    \* exit codes of the sessions of the campaign so far
    step,        \* where the loop is
    now, deadline,
    interval,
    inputs,      \* the same for every cycle of every session
    cycle,       \* cycle_index
    last,        \* recording_gate.last_result
    stream, reconnects, refreshes,  \* payload_source
    counts,      \* blocked, attempts, successes, workflows
    previous,    \* reconnects and refreshes as of the last cycle recorded
    deltas,      \* reconnect_events and refresh_events: the deltas
    healths,     \* exchange_health_state of each transition
    reason,      \* stop_reason
    rows,        \* runtime_cycles.jsonl of the session
    passes       \* the gate's results of the session, as it returned them

timeVars == <<now, deadline, interval>>
sourceVars == <<stream, reconnects, refreshes>>
recordVars == <<counts, previous, deltas, healths>>
vars == <<sessions, step, timeVars, inputs, cycle, last, sourceVars,
          recordVars, reason, rows, passes>>

NoCounts == [blocked |-> 0, attempts |-> 0, successes |-> 0, workflows |-> 0]
Zero == [reconnects |-> 0, refreshes |-> 0]

Init ==
    /\ sessions = <<>> /\ step = "off"
    /\ now = 0 /\ deadline = 0 /\ interval \in Intervals
    /\ inputs \in InputChoices
    /\ cycle = 0 /\ last = NoPass
    /\ stream = "none" /\ reconnects = 0 /\ refreshes = 0
    /\ counts = NoCounts /\ previous = Zero
    /\ deltas = [reconnects |-> <<>>, refreshes |-> <<>>] /\ healths = <<>>
    /\ reason = "none" /\ rows = 0 /\ passes = <<>>

-----------------------------------------------------------------------------
CampaignOver ==
    \/ Len(sessions) = Len(Durations)
    \/ \E i \in DOMAIN sessions : sessions[i] # "0"

\* Everything a session works with is made anew.
StartSession ==
    /\ step = "off" /\ ~CampaignOver
    /\ step' = "check" /\ deadline' = now + Durations[Len(sessions) + 1]
    /\ cycle' = 0 /\ last' = NoPass
    /\ stream' = "none" /\ reconnects' = 0 /\ refreshes' = 0
    /\ counts' = NoCounts /\ previous' = Zero
    /\ deltas' = [reconnects |-> <<>>, refreshes |-> <<>>] /\ healths' = <<>>
    /\ reason' = "completed" /\ rows' = 0 /\ passes' = <<>>
    /\ UNCHANGED <<sessions, now, interval, inputs>>

\* Preflight, preparation or the account snapshot fails.
RefuseSession ==
    /\ step = "off" /\ ~CampaignOver
    /\ sessions' = Append(sessions, "1") /\ reason' = "none"
    /\ UNCHANGED <<step, timeVars, inputs, cycle, last, sourceVars,
                   recordVars, rows, passes>>

\* Mutant: one cycle more than asked for.
LoopIsOverLate == cycle > MaxCycles \/ now >= deadline

LoopIsOver == cycle >= MaxCycles \/ now >= deadline

\* Mutant: every cycle decides on inputs of its own.
StartCycleAfresh ==
    /\ step = "check" /\ ~LoopIsOver
    /\ step' = "cycle" /\ cycle' = cycle + 1 /\ inputs' \in InputChoices
    /\ UNCHANGED <<sessions, timeVars, last, sourceVars, recordVars, reason,
                   rows, passes>>

StartCycle ==
    /\ step = "check" /\ ~LoopIsOver
    /\ step' = "cycle" /\ cycle' = cycle + 1
    /\ UNCHANGED <<sessions, timeVars, inputs, last, sourceVars, recordVars,
                   reason, rows, passes>>

EndLoop ==
    /\ step = "check" /\ LoopIsOver /\ step' = "ended"
    /\ UNCHANGED <<sessions, timeVars, inputs, cycle, last, sourceVars,
                   recordVars, reason, rows, passes>>

Takes(t) == now' = now + t /\ UNCHANGED <<deadline, interval>>

\* The gate is not asked, nothing is polled, last_result stays.  Only a bar
\* that is valid leaves a row.
RefuseCycle ==
    /\ step = "cycle" /\ ~ReachesGate(inputs) /\ step' = "record"
    /\ \E t \in CycleTimes : Takes(t)
    /\ rows' = IF BarIsValid(inputs) THEN rows + 1 ELSE rows
    /\ UNCHANGED <<sessions, inputs, cycle, last, sourceVars, recordVars,
                   reason, passes>>

\* Bound: one reconnect and one refresh at most in a poll.
Poll ==
    /\ stream' \in StreamChoices
    /\ reconnects' \in {reconnects, reconnects + 1}
    /\ refreshes' \in {refreshes, refreshes + 1}

RunCycle ==
    /\ step = "cycle" /\ ReachesGate(inputs) /\ step' = "record"
    /\ \E t \in CycleTimes : Takes(t)
    /\ Poll
    /\ last' \in PassChoices /\ passes' = Append(passes, last')
    /\ rows' = rows + 1
    /\ UNCHANGED <<sessions, inputs, cycle, recordVars, reason>>

Leave(code) == step' = "off" /\ sessions' = Append(sessions, code)

\* An exception ends the session, and the loop's records are lost with it: from
\* a refused cycle, from the poll, or from persist_cycle, which may have
\* appended its row before the status files failed it.
CycleRaises ==
    /\ step = "cycle" /\ BarIsValid(inputs) /\ Leave("1")
    /\ \E t \in CycleTimes : Takes(t)
    /\ \/ /\ ~ReachesGate(inputs) /\ rows' \in {rows, rows + 1}
          /\ UNCHANGED <<sourceVars, last, passes>>
       \/ ReachesGate(inputs) /\ Poll /\ UNCHANGED <<last, passes, rows>>
       \/ /\ ReachesGate(inputs) /\ Poll /\ rows' \in {rows, rows + 1}
          /\ last' \in PassChoices /\ passes' = Append(passes, last')
    /\ reason' = "none"
    /\ UNCHANGED <<inputs, cycle, recordVars>>

\* Mutant: whatever is not left to the operator counts as a success.
SucceededSoFar(p) ==
    p.queries > 0 /\ p.convergence # "unreconciled_manual_attention"

Succeeded(p) == p.convergence = "converged_terminal"

One(b) == IF b THEN 1 ELSE 0

Counted(c, p) ==
    [blocked |-> c.blocked + One(Blocked(p)),
     attempts |-> c.attempts + p.queries,
     successes |-> c.successes + One(Succeeded(p)),
     workflows |-> c.workflows + One(p.transport /\ p.queries > 0)]

Previous == [reconnects |-> reconnects, refreshes |-> refreshes]

Rise(seq, d) == IF d > 0 THEN Append(seq, d) ELSE seq

\* One transition, and the events of what went up since the last one.
Record ==
    /\ step = "record" /\ step' = "test"
    /\ counts' = Counted(counts, last)
    /\ deltas' = [reconnects |-> Rise(deltas.reconnects,
                                      reconnects - previous.reconnects),
                  refreshes |-> Rise(deltas.refreshes,
                                     refreshes - previous.refreshes)]
    /\ previous' = Previous
    /\ healths' = Append(healths, ExchangeHealth(stream, last))
    /\ UNCHANGED <<sessions, timeVars, inputs, cycle, last, sourceVars,
                   reason, rows, passes>>

\* The stop criteria, the first that holds.  Manual attention makes the whole
\* health fatal, so that its own reason is never given.
StopReason ==
    IF ExchangeHealth(stream, last) = "fatal" THEN "fatal_exchange_health"
    ELSE IF ReconciliationHealth(last) = "fatal" THEN "manual_attention"
    ELSE IF counts.blocked >= MaxBlocked THEN "max_blocked_mutations"
    ELSE "completed"

Stop ==
    /\ step = "test" /\ StopReason # "completed"
    /\ reason' = StopReason /\ step' = "ended"
    /\ UNCHANGED <<sessions, timeVars, inputs, cycle, last, sourceVars,
                   recordVars, rows, passes>>

DeadlinePassed ==
    /\ step = "test" /\ StopReason = "completed"
    /\ now >= deadline /\ step' = "ended"
    /\ UNCHANGED <<sessions, timeVars, inputs, cycle, last, sourceVars,
                   recordVars, reason, rows, passes>>

Pause == IF interval < deadline - now THEN interval ELSE deadline - now

\* Mutant: without an interval the loop never goes round.
SleepSome ==
    /\ step = "test" /\ StopReason = "completed" /\ interval > 0
    /\ now < deadline /\ step' = "check" /\ Takes(Pause)
    /\ UNCHANGED <<sessions, inputs, cycle, last, sourceVars, recordVars,
                   reason, rows, passes>>

Sleep ==
    /\ step = "test" /\ StopReason = "completed"
    /\ now < deadline /\ step' = "check" /\ Takes(Pause)
    /\ UNCHANGED <<sessions, inputs, cycle, last, sourceVars, recordVars,
                   reason, rows, passes>>

\* The summary is written; its exit code ends the session.
Finish ==
    /\ step = "ended" /\ Leave(IF reason = "completed" THEN "0" ELSE "2")
    /\ UNCHANGED <<timeVars, inputs, cycle, last, sourceVars, recordVars,
                   reason, rows, passes>>

Next ==
    \/ StartSession \/ RefuseSession \/ StartCycle \/ EndLoop \/ RefuseCycle
    \/ RunCycle \/ CycleRaises \/ Record \/ Stop \/ DeadlinePassed \/ Sleep
    \/ Finish

\* The program has one thread and waits for nobody for ever.
Spec == Init /\ [][Next]_vars /\ WF_vars(Next)

-----------------------------------------------------------------------------
Codes == {"0", "1", "2"}
Steps == {"off", "check", "cycle", "record", "test", "ended"}
Health == {"unknown", "healthy", "degraded", "fatal"}

TypeOK ==
    /\ sessions \in Seq(Codes) /\ step \in Steps
    /\ now \in Nat /\ deadline \in Nat /\ interval \in Intervals
    /\ inputs \in InputChoices
    /\ cycle \in 0..MaxCycles /\ last \in PassChoices \cup {NoPass}
    /\ stream \in StreamStates /\ reconnects \in Nat /\ refreshes \in Nat
    /\ counts \in [DOMAIN NoCounts -> Nat]
    /\ previous \in [DOMAIN Zero -> Nat]
    /\ healths \in Seq(Health) /\ rows \in Nat
    /\ reason \in {"none", "completed", "fatal_exchange_health",
                   "max_blocked_mutations"}

AtRest == step \in {"test", "check", "ended"}
Total(seq) ==
    LET sum[n \in 0 .. Len(seq)] == IF n = 0 THEN 0 ELSE sum[n - 1] + seq[n]
    IN sum[Len(seq)]
HowMany(P(_)) == Cardinality({i \in DOMAIN passes : P(passes[i])})

\* The summary of a session adds up.  What the loop counted is what the gate
\* returned: the result of an earlier cycle is never counted twice, although a
\* cycle that does not reach the gate leaves it in last_result
\* (RecordingRestrictedLiveGate); and the reconnect and refresh events add up
\* to the counters, whatever happens between two cycles.
CountsAreOfPasses ==
    AtRest =>
        /\ counts.blocked = HowMany(Blocked)
        /\ counts.attempts = Total([i \in DOMAIN passes |-> passes[i].queries])
        /\ counts.workflows = HowMany(LAMBDA p : p.queries > 0)
        /\ Total(deltas.reconnects) = reconnects
        /\ Total(deltas.refreshes) = refreshes

\* A recovery success rate of one, which the cutover asks for, means that no
\* workflow of the session was left pending or to the operator.
RateTellsConvergence ==
    AtRest =>
        /\ counts.successes <= counts.workflows
        /\ counts.successes = counts.workflows =>
             \A i \in DOMAIN passes : passes[i].queries > 0 =>
                 passes[i].convergence = "converged_terminal"

\* A session that ends as completed ran to its deadline or its last cycle; none
\* of its passes asked for manual attention, the blocked mutations stayed below
\* the limit, and its stream is not terminated (the stop criterion is tested
\* in every cycle, so the last state is the one that counts).
CompletedIsClean ==
    step = "ended" /\ reason = "completed" =>
        /\ cycle = MaxCycles \/ now >= deadline
        /\ \A i \in DOMAIN passes :
             passes[i].convergence # "unreconciled_manual_attention"
        /\ stream # "terminated"
        /\ Len(healths) > 0 => HowMany(Blocked) < MaxBlocked

\* The campaign ends, even with an interval of zero and cycles that take no time.
CampaignEnds == <>[](step = "off" /\ CampaignOver)
=============================================================================
