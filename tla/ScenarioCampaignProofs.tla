------------------------ MODULE ScenarioCampaignProofs ------------------------
(***************************************************************************)
(* The scripted campaigns, started as often as an operator likes on the    *)
(* same directories: what earlier runs left there never turns a verdict.   *)
(***************************************************************************)
EXTENDS ScenarioCampaign, SequenceTheorems, FiniteSetTheorems, TLAPS

USE RunsAssumption

-----------------------------------------------------------------------------
(* One pass, whatever the file holds.                                      *)

Results == {"failed", "new", "filled"}

LEMMA ScriptedRounds ==
    ASSUME NEW c
    PROVE  /\ Scripted(c) = [i \in 1 .. 3 |-> Scripted(c)[i]]
           /\ \A i \in 1 .. 3 : Scripted(c)[i] =
                 IF i \in DOMAIN c.lookups THEN c.lookups[i] ELSE "failed"
BY DEF Scripted, MaxRounds

\* How many rounds the answers of a script take.
LEMMA RoundsTaken ==
    ASSUME NEW c
    PROVE  /\ Rounds(c) \in 1 .. 3
           /\ Scripted(c)[1] = "filled" => Rounds(c) = 1
           /\ (\A i \in 1 .. 3 : Scripted(c)[i] # "filled") => Rounds(c) = 3
<1> DEFINE settling == {i \in 1 .. MaxRounds : Scripted(c)[i] = "filled"}
           first(i) == i \in settling /\ \A j \in settling : i <= j
<1>1. settling \subseteq 1 .. 3
  BY DEF MaxRounds
<1>2. CASE settling = {}
  BY <1>2 DEF Rounds, MaxRounds
<1>3. CASE settling # {}
  <2>1. \E i \in settling : \A j \in settling : i <= j
    <3>1. CASE 1 \in settling
      BY <1>1, <3>1
    <3>2. CASE 1 \notin settling /\ 2 \in settling
      BY <1>1, <3>2
    <3>3. CASE 1 \notin settling /\ 2 \notin settling
      <4>1. settling = {3}
        BY <1>1, <1>3, <3>3
      <4> QED BY <4>1
    <3> QED BY <3>1, <3>2, <3>3
  <2>2. Rounds(c) \in settling /\ \A j \in settling : Rounds(c) <= j
    BY <1>3, <2>1 DEF Rounds
  <2> QED BY <1>1, <1>3, <2>2 DEF MaxRounds
<1> QED BY <1>2, <1>3

LEMMA AnswersGiven ==
    ASSUME NEW c, NEW f, Queried(c, f)
    PROVE  /\ Len(Answers(c, f)) = Rounds(c)
           /\ DOMAIN Answers(c, f) = 1 .. Rounds(c)
           /\ \A i \in 1 .. Rounds(c) : Answers(c, f)[i] = Scripted(c)[i]
           /\ Answers(c, f) # <<>>
<1>1. Rounds(c) \in 1 .. 3 /\ DOMAIN Scripted(c) = 1 .. 3
  BY RoundsTaken, ScriptedRounds
<1>2. PICK S : S = {Scripted(c)[i] : i \in 1 .. 3}
  OBVIOUS
<1>3. \A i \in 1 .. Rounds(c) : Scripted(c)[i] \in S
  BY <1>1, <1>2
<1>4. Answers(c, f) = SubSeq(Scripted(c), 1, Rounds(c))
  BY DEF Answers
<1>5. /\ Answers(c, f) \in Seq(S) /\ Len(Answers(c, f)) = Rounds(c)
      /\ \A i \in 1 .. Rounds(c) : Answers(c, f)[i] = Scripted(c)[i]
  <2>1. PICK s, n : s = Scripted(c) /\ n = Rounds(c)
    OBVIOUS
  <2>2. n \in 1 .. 3 /\ DOMAIN s = 1 .. 3 /\ \A i \in 1 .. n : s[i] \in S
    BY <1>1, <1>3, <2>1
  <2>3. /\ SubSeq(s, 1, n) \in Seq(S)
        /\ Len(SubSeq(s, 1, n)) = IF 1 <= n THEN n - 1 + 1 ELSE 0
        /\ \A i \in 1 .. n - 1 + 1 : SubSeq(s, 1, n)[i] = s[1 + i - 1]
    BY <2>2, SubSeqProperties
  <2>4. /\ 1 <= n /\ n - 1 + 1 = n
        /\ \A i \in 1 .. n : 1 + i - 1 = i
    BY <2>2
  <2> QED BY <1>4, <2>1, <2>3, <2>4
<1>6. DOMAIN Answers(c, f) = 1 .. Rounds(c)
  BY <1>5, LenProperties
<1>7. Answers(c, f) # <<>>
  BY <1>1, <1>5
<1> QED BY <1>5, <1>6, <1>7

\* Nothing is asked: nothing is left open.
LEMMA QuietConvergence ==
    ASSUME NEW c, NEW f, ~ Queried(c, f)
    PROVE  /\ Answers(c, f) = <<>>
           /\ Convergence(c, f) = "not_required" /\ ~ Unsettled(c, f)
<1>1. Answers(c, f) = <<>>
  BY DEF Answers
<1>2. Convergence(c, f) = "not_required"
  <2>1. "filled" \notin ToSet(<<>>)
    BY DEF ToSet
  <2> QED BY <1>1, <2>1 DEF Convergence
<1> QED BY <1>1, <1>2 DEF Unsettled

LEMMA FailedConvergence ==
    ASSUME NEW c, NEW f, Queried(c, f), c.lookups = Failed3
    PROVE  /\ Convergence(c, f) = "unreconciled_manual_attention"
           /\ Unsettled(c, f)
<1>1. \A i \in 1 .. 3 : Scripted(c)[i] = "failed"
  BY ScriptedRounds DEF Failed3
<1>2. Rounds(c) = 3
  BY <1>1, RoundsTaken
<1>3. /\ Len(Answers(c, f)) = 3 /\ Answers(c, f) # <<>>
      /\ DOMAIN Answers(c, f) = 1 .. 3
      /\ \A i \in 1 .. 3 : Answers(c, f)[i] = "failed"
  BY <1>1, <1>2, AnswersGiven
<1>4. "filled" \notin ToSet(Answers(c, f)) /\ Last(Answers(c, f)) = "failed"
  BY <1>3 DEF ToSet, Last
<1> QED BY <1>3, <1>4 DEF Convergence, MaxAttempts, Unsettled

LEMMA NewConvergence ==
    ASSUME NEW c, NEW f, Queried(c, f), c.lookups = <<"new", "new", "new">>
    PROVE  Convergence(c, f) = "pending" /\ Unsettled(c, f)
<1>1. \A i \in 1 .. 3 : Scripted(c)[i] = "new"
  BY ScriptedRounds
<1>2. Rounds(c) = 3
  BY <1>1, RoundsTaken
<1>3. /\ Len(Answers(c, f)) = 3 /\ Answers(c, f) # <<>>
      /\ DOMAIN Answers(c, f) = 1 .. 3
      /\ \A i \in 1 .. 3 : Answers(c, f)[i] = "new"
  BY <1>1, <1>2, AnswersGiven
<1>4. "filled" \notin ToSet(Answers(c, f)) /\ Last(Answers(c, f)) = "new"
  BY <1>3 DEF ToSet, Last
<1> QED BY <1>3, <1>4 DEF Convergence, MaxAttempts, Unsettled

LEMMA FilledConvergence ==
    ASSUME NEW c, NEW f, Queried(c, f), c.lookups = <<"filled">>
    PROVE  Convergence(c, f) = "converged_terminal" /\ ~ Unsettled(c, f)
<1>1. Scripted(c)[1] = "filled"
  BY ScriptedRounds
<1>2. Rounds(c) = 1
  BY <1>1, RoundsTaken
<1>3. /\ Answers(c, f) # <<>> /\ DOMAIN Answers(c, f) = 1 .. 1
      /\ Answers(c, f)[1] = "filled"
  BY <1>1, <1>2, AnswersGiven
<1>4. "filled" \in ToSet(Answers(c, f))
  BY <1>3 DEF ToSet
<1> QED BY <1>3, <1>4 DEF Convergence, Unsettled

-----------------------------------------------------------------------------
(* What a pass is recorded as.                                             *)

\* An order that is asked for is told of as recovered, always.
LEMMA AskedIsTriggered ==
    ASSUME NEW c, NEW f, Queried(c, f) \/ GapDetected(c, f)
    PROVE  Trigger(c, f) \in {"private_stream_gap", "restart_resume",
                              "missing_private_updates"}
BY DEF Trigger

\* The stream was terminated: nothing is applied, and health is bad.
LEMMA TerminatedPass ==
    ASSUME NEW c, NEW f, NEW m, c.payload = "terminated", c.expected,
           c.stream = "terminated",
           NEW r, r = InjectionRecord(c, f, m)
    PROVE  /\ ~ r.applied /\ r.applied \in BOOLEAN /\ r.blocked
           /\ r.trigger \notin {"none", "not_required"}
           /\ r.convergence = Convergence(c, f)
           /\ r.health = "fatal"
<1>1. Queried(c, f)
  BY DEF Queried, Awaited, Seen
<1>2. Blocked(c, f, m)
  BY DEF Blocked
<1>3. ExchangeHealth(c, f) = "fatal"
  BY DEF ExchangeHealth, StreamHealth
<1>4. Trigger(c, f) \notin {"none", "not_required"}
  BY <1>1, AskedIsTriggered
<1> QED BY <1>2, <1>3, <1>4 DEF InjectionRecord, Applied

\* The account came instead of the order, and does not agree.
LEMMA AccountPass ==
    ASSUME NEW c, NEW f \in StoreFile, NEW m, c.payload = "account", c.expected,
           NEW r, r = InjectionRecord(c, f, m)
    PROVE  /\ ~ r.applied /\ r.applied \in BOOLEAN /\ r.blocked
           /\ r.trigger \notin {"none", "not_required"}
           /\ r.convergence = Convergence(c, f)
           /\ Convergence(c, f) = "unreconciled_manual_attention" =>
                 r.health = "fatal"
<1>1. Queried(c, f)
  BY DEF Queried, Awaited, Seen
<1>2. Blocked(c, f, m)
  BY DEF Blocked, Refused
<1>3. Trigger(c, f) \notin {"none", "not_required"}
  BY <1>1, AskedIsTriggered
<1>4. ASSUME Convergence(c, f) = "unreconciled_manual_attention"
      PROVE  ExchangeHealth(c, f) = "fatal"
  <2>1. Persisted(c, f).manual = TRUE
    BY <1>4 DEF Persisted, StoreFile
  <2>2. ReconciliationHealth(c, f) = "fatal"
    BY <2>1 DEF ReconciliationHealth
  <2> QED BY <2>2 DEF ExchangeHealth
<1> QED BY <1>2, <1>3, <1>4 DEF InjectionRecord, Applied

\* The fill came, and was not applied before.
LEMMA FillPass ==
    ASSUME NEW c, NEW f, NEW m, c.payload \in {"fill", "fill_twice"}, ~ m,
           NEW r, r = InjectionRecord(c, f, m)
    PROVE  /\ r.applied /\ r.applied \in BOOLEAN
           /\ c.payload = "fill_twice" => r.ignored # {}
<1>1. ~ Queried(c, f)
  BY DEF Queried, Seen
<1>2. ~ Unsettled(c, f)
  BY <1>1, QuietConvergence
<1>3. ~ Blocked(c, f, m)
  BY <1>2 DEF Blocked, Refused
<1>4. c.payload = "fill_twice" => IgnoredFills(c, f, m) = {"fill"}
  BY <1>2 DEF IgnoredFills, Fills
<1> QED BY <1>3, <1>4 DEF InjectionRecord, Applied

\* Nothing came, on a stream that is degraded.
LEMMA StormPass ==
    ASSUME NEW c, NEW f, NEW m, c.payload = "none", c.stream = "degraded",
           NEW r, r = InjectionRecord(c, f, m)
    PROVE  ~ r.applied /\ r.applied \in BOOLEAN /\ r.health = "degraded"
<1>1. StreamHealth(c.stream) = "degraded"
  BY DEF StreamHealth
<1>2. ReconciliationHealth(c, f) = "unknown" /\ QueryHealth(c, f) = "unknown"
  BY DEF ReconciliationHealth, QueryHealth
<1>3. ExchangeHealth(c, f) = "degraded"
  BY <1>1, <1>2 DEF ExchangeHealth
<1> QED BY <1>3 DEF InjectionRecord, Applied

\* A step of a disruption with a gap.
LEMMA GapPass ==
    ASSUME NEW c, NEW f \in StoreFile, c.gap, c.payload = "none",
           c.expected \/ f.unresolved,
           NEW r, r = DisruptionRecord(c, f)
    PROVE  /\ r.trigger \notin {"none", "not_required"}
           /\ c.lookups = <<"filled">> =>
                 r.convergence = "converged_terminal"
           /\ c.lookups = <<"new", "new", "new">> =>
                 r.unresolved
<1>1. Queried(c, f)
  BY DEF Queried, Awaited, Seen
<1>2. Trigger(c, f) \notin {"none", "not_required"}
  BY DEF Trigger, GapDetected
<1>3. c.lookups = <<"filled">> => Convergence(c, f) = "converged_terminal"
  BY <1>1, FilledConvergence
<1>4. ASSUME c.lookups = <<"new", "new", "new">>
      PROVE  Persisted(c, f).unresolved = TRUE
  <2>1. Unsettled(c, f) = TRUE
    BY <1>1, <1>4, NewConvergence DEF Unsettled
  <2> QED BY <2>1 DEF Persisted, StoreFile
<1> QED BY <1>2, <1>3, <1>4 DEF DisruptionRecord

\* A step that sees its order.
LEMMA SeenPass ==
    ASSUME NEW c, NEW f, c.payload \in {"fill_twice", "partial"}
    PROVE  DisruptionRecord(c, f).convergence = "not_required"
<1>1. ~ Queried(c, f)
  BY DEF Queried, Seen
<1> QED BY <1>1, QuietConvergence DEF DisruptionRecord

-----------------------------------------------------------------------------
(* The verdicts.                                                           *)

Cycles(script, i) == Scenarios[script][i].cycles

\* The records of a scenario so far: each is what its cycle made of some file
\* and of what the cycles before it applied; a step of a disruption finds the
\* order unresolved if the step before it left it so.
Recorded(script, c, f, m) ==
    IF script = "injection" THEN InjectionRecord(c, f, m)
                            ELSE DisruptionRecord(c, f)
MadeFrom(script, i, recs, k, f, m) ==
    /\ recs[k] = Recorded(script, Cycles(script, i)[k], f, m)
    /\ m => \E j \in 1 .. k - 1 : Fills(Cycles(script, i)[j])
    /\ script = "disruption" /\ k > 1 => f.unresolved = recs[k - 1].unresolved
Made(script, i, recs) ==
    \A k \in DOMAIN recs :
        \E f \in StoreFile : \E m \in BOOLEAN :
           MadeFrom(script, i, recs, k, f, m)

LEMMA ScenarioTable ==
    /\ DOMAIN Scenarios["injection"] = 1 .. 6
    /\ Scenarios["injection"][1] = PrivateStreamDisconnect
    /\ Scenarios["injection"][2] = ListenKeyExpiration
    /\ Scenarios["injection"][3] = WebsocketReconnectStorms
    /\ Scenarios["injection"][4] = DelayedPrivateEvents
    /\ Scenarios["injection"][5] = MissingOrderEvents
    /\ Scenarios["injection"][6] = DuplicatedFillEvents
    /\ DOMAIN Scenarios["disruption"] = 1 .. 4
    /\ Scenarios["disruption"][1] = PrivateEventLoss
    /\ Scenarios["disruption"][2] = DelayedStatusQuery
    /\ Scenarios["disruption"][3] = DuplicatedExecutionReports
    /\ Scenarios["disruption"][4] = PartialFillReorder
BY DEF Scenarios

\* What a record shows to the verdict.
LEMMA Shown ==
    ASSUME NEW recs, NEW k \in DOMAIN recs
    PROVE  /\ recs[k].trigger \notin {"none", "not_required"} =>
                 /\ "recovery" \in Observed("injection", recs)
                 /\ "recovery" \in Observed("disruption", recs)
           /\ recs[k].convergence = "unreconciled_manual_attention" =>
                 "manual" \in Observed("injection", recs)
           /\ recs[k].blocked =>
                 "blocked" \in Observed("injection", recs)
           /\ recs[k].ignored # {} =>
                 "duplicate" \in Observed("injection", recs)
           /\ recs[k].health \in {"degraded", "fatal"} =>
                 "degraded" \in Observed("injection", recs)
<1>1. recs[k] \in ToSet(recs)
  BY DEF ToSet
<1>2. recs[k].trigger \notin {"none", "not_required"} => Triggers(recs) # {}
  BY <1>1 DEF Triggers
<1>3. recs[k].convergence = "unreconciled_manual_attention" =>
          ManualAttention(recs)
  BY <1>1 DEF ManualAttention, Convergences
<1> QED BY <1>1, <1>2, <1>3 DEF Observed

LEMMA DisconnectPasses ==
    ASSUME NEW recs, DOMAIN recs = 1 .. 1, Len(recs) = 1,
           Made("injection", 1, recs)
    PROVE  Passed("injection", PrivateStreamDisconnect, recs)
<1> DEFINE s == PrivateStreamDisconnect
           c == s.cycles[1]
<1>1. /\ c.payload = "terminated" /\ c.expected
      /\ c.stream = "terminated" /\ c.lookups = Failed3
  BY DEF PrivateStreamDisconnect, ExpectedCycle, QuietCycle
<1>2. s.expects = {"recovery", "manual", "blocked", "degraded"}
      /\ s.applied = FALSE
  BY DEF PrivateStreamDisconnect
<1>3. Cycles("injection", 1)[1] = c
  BY ScenarioTable DEF Cycles
<1> HIDE DEF s, c
<1>4. PICK f \in StoreFile : \E m \in BOOLEAN :
         MadeFrom("injection", 1, recs, 1, f, m)
  BY DEF Made
<1>5. PICK m \in BOOLEAN : recs[1] = InjectionRecord(c, f, m)
  BY <1>3, <1>4 DEF MadeFrom, Recorded
<1>6. Queried(c, f)
  BY <1>1 DEF Queried, Awaited, Seen
<1>7. Convergence(c, f) = "unreconciled_manual_attention"
  BY <1>1, <1>6, FailedConvergence
<1>8. /\ ~ recs[1].applied /\ recs[1].applied \in BOOLEAN
      /\ recs[1].blocked
      /\ recs[1].trigger \notin {"none", "not_required"}
      /\ recs[1].convergence = "unreconciled_manual_attention"
      /\ recs[1].health = "fatal"
  BY <1>1, <1>5, <1>7, TerminatedPass
<1>9. s.expects \subseteq Observed("injection", recs)
  BY <1>2, <1>8, Shown
<1>10. Last(recs).applied = s.applied
  BY <1>2, <1>8 DEF Last
<1> QED BY <1>9, <1>10 DEF Passed, EndsAsExpected, s

LEMMA ExpirationPasses ==
    ASSUME NEW recs, DOMAIN recs = 1 .. 2, Len(recs) = 2,
           Made("injection", 2, recs)
    PROVE  Passed("injection", ListenKeyExpiration, recs)
<1> DEFINE s == ListenKeyExpiration
           c == s.cycles[1]
           d == s.cycles[2]
<1>1. /\ c.payload = "terminated" /\ c.expected
      /\ c.stream = "terminated"
  BY DEF ListenKeyExpiration, ExpectedCycle, QuietCycle
<1>2. d.payload = "fill"
  BY DEF ListenKeyExpiration, ExpectedCycle, QuietCycle
<1>3. s.expects = {"recovery", "blocked", "degraded"} /\ s.applied = TRUE
  BY DEF ListenKeyExpiration
<1>4. Cycles("injection", 2)[1] = c /\ Cycles("injection", 2)[2] = d
  BY ScenarioTable DEF Cycles
<1> HIDE DEF s, c, d
<1>5. PICK f \in StoreFile : \E m \in BOOLEAN :
         MadeFrom("injection", 2, recs, 1, f, m)
  BY DEF Made
<1>6. PICK m \in BOOLEAN : recs[1] = InjectionRecord(c, f, m)
  BY <1>4, <1>5 DEF MadeFrom, Recorded
<1>7. /\ recs[1].blocked /\ recs[1].health = "fatal"
      /\ recs[1].trigger \notin {"none", "not_required"}
  BY <1>1, <1>6, TerminatedPass
<1>8. PICK g \in StoreFile : \E n \in BOOLEAN :
         MadeFrom("injection", 2, recs, 2, g, n)
  BY DEF Made
<1>9. PICK n \in BOOLEAN : /\ recs[2] = InjectionRecord(d, g, n)
                           /\ n => \E j \in 1 .. 1 : Fills(Cycles("injection", 2)[j])
  BY <1>4, <1>8 DEF MadeFrom, Recorded
<1>10. ~ n
  BY <1>1, <1>4, <1>9 DEF Fills
<1>11. recs[2].applied /\ recs[2].applied \in BOOLEAN
  BY <1>2, <1>9, <1>10, FillPass
<1>12. s.expects \subseteq Observed("injection", recs)
  BY <1>3, <1>7, Shown
<1>13. Last(recs).applied = s.applied
  BY <1>3, <1>11 DEF Last
<1> QED BY <1>12, <1>13 DEF Passed, EndsAsExpected, s

LEMMA StormsPass ==
    ASSUME NEW recs, DOMAIN recs = 1 .. 3, Len(recs) = 3,
           Made("injection", 3, recs)
    PROVE  Passed("injection", WebsocketReconnectStorms, recs)
<1> DEFINE s == WebsocketReconnectStorms
           c == s.cycles[3]
<1>1. c.payload = "none" /\ c.stream = "degraded"
  BY DEF WebsocketReconnectStorms, QuietCycle
<1>2. s.expects = {"degraded"} /\ s.applied = FALSE
  BY DEF WebsocketReconnectStorms
<1>3. Cycles("injection", 3)[3] = c
  BY ScenarioTable DEF Cycles
<1> HIDE DEF s, c
<1>4. PICK f \in StoreFile : \E m \in BOOLEAN :
         MadeFrom("injection", 3, recs, 3, f, m)
  BY DEF Made
<1>5. PICK m \in BOOLEAN : recs[3] = InjectionRecord(c, f, m)
  BY <1>3, <1>4 DEF MadeFrom, Recorded
<1>6. /\ ~ recs[3].applied /\ recs[3].applied \in BOOLEAN
      /\ recs[3].health = "degraded"
  BY <1>1, <1>5, StormPass
<1>7. s.expects \subseteq Observed("injection", recs)
  BY <1>2, <1>6, Shown
<1>8. Last(recs).applied = s.applied
  BY <1>2, <1>6 DEF Last
<1> QED BY <1>7, <1>8 DEF Passed, EndsAsExpected, s

LEMMA DelayPasses ==
    ASSUME NEW recs, DOMAIN recs = 1 .. 2, Len(recs) = 2,
           Made("injection", 4, recs)
    PROVE  Passed("injection", DelayedPrivateEvents, recs)
<1> DEFINE s == DelayedPrivateEvents
           c == s.cycles[1]
           d == s.cycles[2]
<1>1. c.payload = "account" /\ c.expected
  BY DEF DelayedPrivateEvents, ExpectedCycle, QuietCycle
<1>2. d.payload = "fill"
  BY DEF DelayedPrivateEvents, ExpectedCycle, QuietCycle
<1>3. s.expects = {"recovery", "blocked"} /\ s.applied = TRUE
  BY DEF DelayedPrivateEvents
<1>4. Cycles("injection", 4)[1] = c /\ Cycles("injection", 4)[2] = d
  BY ScenarioTable DEF Cycles
<1> HIDE DEF s, c, d
<1>5. PICK f \in StoreFile : \E m \in BOOLEAN :
         MadeFrom("injection", 4, recs, 1, f, m)
  BY DEF Made
<1>6. PICK m \in BOOLEAN : recs[1] = InjectionRecord(c, f, m)
  BY <1>4, <1>5 DEF MadeFrom, Recorded
<1>7. recs[1].blocked /\ recs[1].trigger \notin {"none", "not_required"}
  BY <1>1, <1>6, AccountPass
<1>8. PICK g \in StoreFile : \E n \in BOOLEAN :
         MadeFrom("injection", 4, recs, 2, g, n)
  BY DEF Made
<1>9. PICK n \in BOOLEAN :
         /\ recs[2] = InjectionRecord(d, g, n)
         /\ n => \E j \in 1 .. 1 : Fills(Cycles("injection", 4)[j])
  BY <1>4, <1>8 DEF MadeFrom, Recorded
<1>10. ~ n
  BY <1>1, <1>4, <1>9 DEF Fills
<1>11. recs[2].applied /\ recs[2].applied \in BOOLEAN
  BY <1>2, <1>9, <1>10, FillPass
<1>12. s.expects \subseteq Observed("injection", recs)
  BY <1>3, <1>7, Shown
<1>13. Last(recs).applied = s.applied
  BY <1>3, <1>11 DEF Last
<1> QED BY <1>12, <1>13 DEF Passed, EndsAsExpected, s

LEMMA MissingPasses ==
    ASSUME NEW recs, DOMAIN recs = 1 .. 1, Len(recs) = 1,
           Made("injection", 5, recs)
    PROVE  Passed("injection", MissingOrderEvents, recs)
<1> DEFINE s == MissingOrderEvents
           c == s.cycles[1]
<1>1. c.payload = "account" /\ c.expected /\ c.lookups = Failed3
  BY DEF MissingOrderEvents, ExpectedCycle, QuietCycle
<1>2. s.expects = {"recovery", "manual", "blocked", "degraded"}
      /\ s.applied = FALSE
  BY DEF MissingOrderEvents
<1>3. Cycles("injection", 5)[1] = c
  BY ScenarioTable DEF Cycles
<1> HIDE DEF s, c
<1>4. PICK f \in StoreFile : \E m \in BOOLEAN :
         MadeFrom("injection", 5, recs, 1, f, m)
  BY DEF Made
<1>5. PICK m \in BOOLEAN : recs[1] = InjectionRecord(c, f, m)
  BY <1>3, <1>4 DEF MadeFrom, Recorded
<1>6. Queried(c, f)
  BY <1>1 DEF Queried, Awaited, Seen
<1>7. Convergence(c, f) = "unreconciled_manual_attention"
  BY <1>1, <1>6, FailedConvergence
<1>8. /\ ~ recs[1].applied /\ recs[1].applied \in BOOLEAN
      /\ recs[1].blocked
      /\ recs[1].trigger \notin {"none", "not_required"}
      /\ recs[1].convergence = "unreconciled_manual_attention"
      /\ recs[1].health = "fatal"
  BY <1>1, <1>5, <1>7, AccountPass
<1>9. s.expects \subseteq Observed("injection", recs)
  BY <1>2, <1>8, Shown
<1>10. Last(recs).applied = s.applied
  BY <1>2, <1>8 DEF Last
<1> QED BY <1>9, <1>10 DEF Passed, EndsAsExpected, s

LEMMA DuplicatePasses ==
    ASSUME NEW recs, DOMAIN recs = 1 .. 1, Len(recs) = 1,
           Made("injection", 6, recs)
    PROVE  Passed("injection", DuplicatedFillEvents, recs)
<1> DEFINE s == DuplicatedFillEvents
           c == s.cycles[1]
<1>1. c.payload = "fill_twice"
  BY DEF DuplicatedFillEvents, ExpectedCycle, QuietCycle
<1>2. s.expects = {"duplicate"} /\ s.applied = TRUE
  BY DEF DuplicatedFillEvents
<1>3. Cycles("injection", 6)[1] = c
  BY ScenarioTable DEF Cycles
<1> HIDE DEF s, c
<1>4. PICK f \in StoreFile : \E m \in BOOLEAN :
         MadeFrom("injection", 6, recs, 1, f, m)
  BY DEF Made
<1>5. PICK m \in BOOLEAN : recs[1] = InjectionRecord(c, f, m) /\ ~ m
  BY <1>3, <1>4 DEF MadeFrom, Recorded
<1>6. /\ recs[1].applied /\ recs[1].applied \in BOOLEAN
      /\ recs[1].ignored # {}
  BY <1>1, <1>5, FillPass
<1>7. s.expects \subseteq Observed("injection", recs)
  BY <1>2, <1>6, Shown
<1>8. Last(recs).applied = s.applied
  BY <1>2, <1>6 DEF Last
<1> QED BY <1>7, <1>8 DEF Passed, EndsAsExpected, s

LEMMA LossPasses ==
    ASSUME NEW recs, DOMAIN recs = 1 .. 1, Len(recs) = 1,
           Made("disruption", 1, recs)
    PROVE  Passed("disruption", PrivateEventLoss, recs)
<1> DEFINE s == PrivateEventLoss
           c == s.cycles[1]
<1>1. /\ c.payload = "none" /\ c.expected /\ c.gap
      /\ c.lookups = <<"filled">>
  BY DEF PrivateEventLoss, GapStep, QuietCycle
<1>2. s.expects = {"recovery"} /\ s.final = "converged_terminal"
  BY DEF PrivateEventLoss
<1>3. Cycles("disruption", 1)[1] = c
  BY ScenarioTable DEF Cycles
<1> HIDE DEF s, c
<1>4. PICK f \in StoreFile : recs[1] = DisruptionRecord(c, f)
  BY <1>3 DEF Made, MadeFrom, Recorded
<1>5. /\ recs[1].trigger \notin {"none", "not_required"}
      /\ recs[1].convergence = "converged_terminal"
  BY <1>1, <1>4, GapPass
<1>6. s.expects \subseteq Observed("disruption", recs)
  BY <1>2, <1>5, Shown
<1>7. Last(recs).convergence = s.final
  BY <1>2, <1>5 DEF Last
<1> QED BY <1>6, <1>7 DEF Passed, EndsAsExpected, s

\* The step that no longer expects its order resumes it from the file.
LEMMA StatusDelayPasses ==
    ASSUME NEW recs, DOMAIN recs = 1 .. 2, Len(recs) = 2,
           Made("disruption", 2, recs)
    PROVE  Passed("disruption", DelayedStatusQuery, recs)
<1> DEFINE s == DelayedStatusQuery
           c == s.cycles[1]
           d == s.cycles[2]
<1>1. /\ c.payload = "none" /\ c.expected /\ c.gap
      /\ c.lookups = <<"new", "new", "new">>
  BY DEF DelayedStatusQuery, GapStep, QuietCycle
<1>2. d.payload = "none" /\ d.gap /\ d.lookups = <<"filled">>
  BY DEF DelayedStatusQuery, GapStep, QuietCycle
<1>3. s.expects = {"recovery"} /\ s.final = "converged_terminal"
  BY DEF DelayedStatusQuery
<1>4. Cycles("disruption", 2)[1] = c /\ Cycles("disruption", 2)[2] = d
  BY ScenarioTable DEF Cycles
<1> HIDE DEF s, c, d
<1>5. PICK f \in StoreFile : recs[1] = DisruptionRecord(c, f)
  BY <1>4 DEF Made, MadeFrom, Recorded
<1>6. /\ recs[1].trigger \notin {"none", "not_required"}
      /\ recs[1].unresolved
  BY <1>1, <1>5, GapPass
<1>7. PICK g \in StoreFile : /\ recs[2] = DisruptionRecord(d, g)
                             /\ g.unresolved = recs[1].unresolved
  BY <1>4 DEF Made, MadeFrom, Recorded
<1>8. recs[2].convergence = "converged_terminal"
  BY <1>2, <1>6, <1>7, GapPass
<1>9. s.expects \subseteq Observed("disruption", recs)
  BY <1>3, <1>6, Shown
<1>10. Last(recs).convergence = s.final
  BY <1>3, <1>8 DEF Last
<1> QED BY <1>9, <1>10 DEF Passed, EndsAsExpected, s

LEMMA ReportsPass ==
    ASSUME NEW recs, DOMAIN recs = 1 .. 1, Len(recs) = 1,
           Made("disruption", 3, recs)
    PROVE  Passed("disruption", DuplicatedExecutionReports, recs)
<1> DEFINE s == DuplicatedExecutionReports
           c == s.cycles[1]
<1>1. c.payload = "fill_twice"
  BY DEF DuplicatedExecutionReports, ExpectedCycle, QuietCycle
<1>2. s.expects = {} /\ s.final = "not_required"
  BY DEF DuplicatedExecutionReports
<1>3. Cycles("disruption", 3)[1] = c
  BY ScenarioTable DEF Cycles
<1> HIDE DEF s, c
<1>4. PICK f \in StoreFile : recs[1] = DisruptionRecord(c, f)
  BY <1>3 DEF Made, MadeFrom, Recorded
<1>5. recs[1].convergence = "not_required"
  BY <1>1, <1>4, SeenPass
<1>6. Last(recs).convergence = s.final
  BY <1>2, <1>5 DEF Last
<1> QED BY <1>2, <1>6 DEF Passed, EndsAsExpected, s

LEMMA ReorderPasses ==
    ASSUME NEW recs, DOMAIN recs = 1 .. 2, Len(recs) = 2,
           Made("disruption", 4, recs)
    PROVE  Passed("disruption", PartialFillReorder, recs)
<1> DEFINE s == PartialFillReorder
           c == s.cycles[2]
<1>1. c.payload = "partial"
  BY DEF PartialFillReorder, ExpectedCycle, QuietCycle
<1>2. s.expects = {} /\ s.final = "not_required"
  BY DEF PartialFillReorder
<1>3. Cycles("disruption", 4)[2] = c
  BY ScenarioTable DEF Cycles
<1> HIDE DEF s, c
<1>4. PICK f \in StoreFile : recs[2] = DisruptionRecord(c, f)
  BY <1>3 DEF Made, MadeFrom, Recorded
<1>5. recs[2].convergence = "not_required"
  BY <1>1, <1>4, SeenPass
<1>6. Last(recs).convergence = s.final
  BY <1>2, <1>5 DEF Last
<1> QED BY <1>2, <1>6 DEF Passed, EndsAsExpected, s

LEMMA CycleCounts ==
    /\ Len(Cycles("injection", 1)) = 1 /\ Len(Cycles("injection", 2)) = 2
    /\ Len(Cycles("injection", 3)) = 3 /\ Len(Cycles("injection", 4)) = 2
    /\ Len(Cycles("injection", 5)) = 1 /\ Len(Cycles("injection", 6)) = 1
    /\ Len(Cycles("disruption", 1)) = 1 /\ Len(Cycles("disruption", 2)) = 2
    /\ Len(Cycles("disruption", 3)) = 1 /\ Len(Cycles("disruption", 4)) = 2
BY ScenarioTable DEF Cycles, PrivateStreamDisconnect, ListenKeyExpiration,
   WebsocketReconnectStorms, DelayedPrivateEvents, MissingOrderEvents,
   DuplicatedFillEvents, PrivateEventLoss, DelayedStatusQuery,
   DuplicatedExecutionReports, PartialFillReorder

\* A scenario played to its end passes, whatever files its cycles started from.
LEMMA EveryScenarioPasses ==
    ASSUME NEW script \in Scripts, NEW i \in DOMAIN Scenarios[script],
           NEW recs, Len(recs) = Len(Cycles(script, i)),
           DOMAIN recs = 1 .. Len(Cycles(script, i)), Made(script, i, recs)
    PROVE  Passed(script, Scenarios[script][i], recs)
<1>1. CASE script = "injection"
  <2>1. i \in 1 .. 6
    BY <1>1, ScenarioTable
  <2>2. CASE i = 1
    BY <1>1, <2>2, ScenarioTable, CycleCounts, DisconnectPasses
  <2>3. CASE i = 2
    BY <1>1, <2>3, ScenarioTable, CycleCounts, ExpirationPasses
  <2>4. CASE i = 3
    BY <1>1, <2>4, ScenarioTable, CycleCounts, StormsPass
  <2>5. CASE i = 4
    BY <1>1, <2>5, ScenarioTable, CycleCounts, DelayPasses
  <2>6. CASE i = 5
    BY <1>1, <2>6, ScenarioTable, CycleCounts, MissingPasses
  <2>7. CASE i = 6
    BY <1>1, <2>7, ScenarioTable, CycleCounts, DuplicatePasses
  <2> QED BY <2>1, <2>2, <2>3, <2>4, <2>5, <2>6, <2>7
<1>2. CASE script = "disruption"
  <2>1. i \in 1 .. 4
    BY <1>2, ScenarioTable
  <2>2. CASE i = 1
    BY <1>2, <2>2, ScenarioTable, CycleCounts, LossPasses
  <2>3. CASE i = 2
    BY <1>2, <2>3, ScenarioTable, CycleCounts, StatusDelayPasses
  <2>4. CASE i = 3
    BY <1>2, <2>4, ScenarioTable, CycleCounts, ReportsPass
  <2>5. CASE i = 4
    BY <1>2, <2>5, ScenarioTable, CycleCounts, ReorderPasses
  <2> QED BY <2>1, <2>2, <2>3, <2>4, <2>5
<1> QED BY <1>1, <1>2 DEF Scripts

-----------------------------------------------------------------------------
(* The inductive invariant.                                                *)

IsList(s) == \E S : s \in Seq(S)

\* The types, with what is left to run and how long the records are.
TypeInv ==
    /\ TypeOK
    /\ todo \in Seq(DOMAIN Scenarios[kind])
    /\ phase # "idle" => todo # <<>>
    /\ IsList(records)
    /\ summary = [d \in Directories |-> summary[d]]
    /\ \A d \in Directories : IsFiniteSet(file[d].attempts)

\* What the running scenario has recorded, remembers and left on file.
RecordsInv ==
    phase # "idle" =>
       /\ Made(kind, Head(todo), records)
       /\ remembered =>
            \E j \in 1 .. Len(records) : Fills(Cycles(kind, Head(todo))[j])
       /\ kind = "disruption" /\ Len(records) > 0 =>
            file[Here].unresolved = records[Len(records)].unresolved
       /\ phase \in {"register", "persist"} =>
            Len(records) < Len(Cycles(kind, Head(todo)))
       /\ phase \in {"write_records", "write_summary"} =>
            Len(records) = Len(Cycles(kind, Head(todo)))

CampaignInv == TypeInv /\ RecordsInv /\ AllScenariosPass

LEMMA AppendedRecord ==
    ASSUME NEW s, IsList(s), NEW x
    PROVE  /\ IsList(s) => Len(s) \in Nat /\ DOMAIN s = 1 .. Len(s)
           /\ IsList(Append(s, x))
           /\ Len(Append(s, x)) = Len(s) + 1
           /\ DOMAIN Append(s, x) = 1 .. Len(s) + 1
           /\ Append(s, x)[Len(s) + 1] = x
           /\ \A i \in 1 .. Len(s) : Append(s, x)[i] = s[i]
<1>1. PICK S : s \in Seq(S)
  BY DEF IsList
<1>2. PICK T : T = S \cup {x}
  OBVIOUS
<1>3. s \in Seq(T) /\ x \in T
  <2>1. Len(s) \in Nat /\ s \in [1 .. Len(s) -> S]
    BY <1>1, LenProperties
  <2>2. s \in [1 .. Len(s) -> T]
    BY <1>2, <2>1
  <2> QED BY <1>2, <2>1, <2>2, IsASeq
<1>4. Append(s, x) \in Seq(T)
  BY <1>3, AppendProperties
<1> QED BY <1>3, <1>4, AppendProperties, LenProperties DEF IsList

LEMMA MadeMore ==
    ASSUME NEW script, NEW i, NEW recs, IsList(recs), Made(script, i, recs),
           NEW f \in StoreFile, NEW m \in BOOLEAN, NEW rec,
           rec = Recorded(script, Cycles(script, i)[Len(recs) + 1], f, m),
           m => \E j \in 1 .. Len(recs) : Fills(Cycles(script, i)[j]),
           script = "disruption" /\ Len(recs) > 0 =>
              f.unresolved = recs[Len(recs)].unresolved
    PROVE  Made(script, i, Append(recs, rec))
<1> DEFINE more == Append(recs, rec)
<1>1. /\ Len(recs) \in Nat /\ DOMAIN recs = 1 .. Len(recs)
      /\ DOMAIN more = 1 .. Len(recs) + 1 /\ more[Len(recs) + 1] = rec
      /\ \A k \in 1 .. Len(recs) : more[k] = recs[k]
  BY AppendedRecord
<1> HIDE DEF more
<1> SUFFICES ASSUME NEW k \in DOMAIN more
             PROVE  \E g \in StoreFile : \E n \in BOOLEAN :
                       MadeFrom(script, i, more, k, g, n)
  BY DEF Made, more
<1>2. CASE k \in DOMAIN recs
  <2>1. PICK g \in StoreFile, n \in BOOLEAN :
           MadeFrom(script, i, recs, k, g, n)
    BY <1>2 DEF Made
  <2>2. more[k] = recs[k] /\ (k > 1 => more[k - 1] = recs[k - 1])
    BY <1>1, <1>2
  <2>3. MadeFrom(script, i, more, k, g, n)
    BY <1>1, <1>2, <2>1, <2>2 DEF MadeFrom
  <2> QED BY <2>3
<1>3. CASE k = Len(recs) + 1
  <2>1. k - 1 = Len(recs) /\ more[k] = rec
        /\ (k > 1 => more[k - 1] = recs[Len(recs)])
    BY <1>1, <1>3
  <2>2. MadeFrom(script, i, more, k, f, m)
    BY <1>1, <1>3, <2>1 DEF MadeFrom
  <2> QED BY <2>2
<1> QED BY <1>1, <1>2, <1>3

-----------------------------------------------------------------------------
(* Type correctness.                                                       *)

\* Every script answers with a result of a lookup, in at most three cycles.
LEMMA ScriptsAreShort ==
    ASSUME NEW script \in Scripts, NEW i \in DOMAIN Scenarios[script]
    PROVE  /\ Len(Cycles(script, i)) \in 1 .. 3
           /\ <<script, i>> \in Directories
<1>1. Len(Cycles(script, i)) \in 1 .. 3
  <2>1. CASE script = "injection"
    BY <2>1, ScenarioTable, CycleCounts
  <2>2. CASE script = "disruption"
    BY <2>2, ScenarioTable, CycleCounts
  <2> QED BY <2>1, <2>2 DEF Scripts
<1>2. <<script, i>> \in Directories
  BY DEF Directories
<1> QED BY <1>1, <1>2

Known(c) == \A j \in DOMAIN c.lookups : c.lookups[j] \in Results
ScriptedLookups == {<<>>, Failed3, <<"filled">>, <<"new", "new", "new">>}

LEMMA LookupsOfScripts ==
    /\ PrivateStreamDisconnect.cycles[1].lookups \in ScriptedLookups
    /\ ListenKeyExpiration.cycles[1].lookups \in ScriptedLookups
    /\ ListenKeyExpiration.cycles[2].lookups \in ScriptedLookups
    /\ WebsocketReconnectStorms.cycles[1].lookups \in ScriptedLookups
    /\ WebsocketReconnectStorms.cycles[2].lookups \in ScriptedLookups
    /\ WebsocketReconnectStorms.cycles[3].lookups \in ScriptedLookups
    /\ DelayedPrivateEvents.cycles[1].lookups \in ScriptedLookups
    /\ DelayedPrivateEvents.cycles[2].lookups \in ScriptedLookups
    /\ MissingOrderEvents.cycles[1].lookups \in ScriptedLookups
    /\ DuplicatedFillEvents.cycles[1].lookups \in ScriptedLookups
    /\ PrivateEventLoss.cycles[1].lookups \in ScriptedLookups
    /\ DelayedStatusQuery.cycles[1].lookups \in ScriptedLookups
    /\ DelayedStatusQuery.cycles[2].lookups \in ScriptedLookups
    /\ DuplicatedExecutionReports.cycles[1].lookups \in ScriptedLookups
    /\ PartialFillReorder.cycles[1].lookups \in ScriptedLookups
    /\ PartialFillReorder.cycles[2].lookups \in ScriptedLookups
BY DEF ScriptedLookups, QuietCycle, ExpectedCycle, GapStep,
   PrivateStreamDisconnect, ListenKeyExpiration, WebsocketReconnectStorms,
   DelayedPrivateEvents, MissingOrderEvents, DuplicatedFillEvents,
   PrivateEventLoss, DelayedStatusQuery, DuplicatedExecutionReports,
   PartialFillReorder

LEMMA ScriptsAreKnown ==
    ASSUME NEW script \in Scripts, NEW i \in DOMAIN Scenarios[script],
           NEW k \in 1 .. Len(Cycles(script, i))
    PROVE  Known(Cycles(script, i)[k])
<1>1. Cycles(script, i)[k].lookups \in ScriptedLookups
  <2>1. CASE script = "injection"
    <3> DEFINE c(x, y) == Cycles("injection", x)[y].lookups
    <3>1. /\ c(1, 1) \in ScriptedLookups
          /\ c(2, 1) \in ScriptedLookups
          /\ c(2, 2) \in ScriptedLookups
          /\ c(3, 1) \in ScriptedLookups
          /\ c(3, 2) \in ScriptedLookups
          /\ c(3, 3) \in ScriptedLookups
          /\ c(4, 1) \in ScriptedLookups
          /\ c(4, 2) \in ScriptedLookups
          /\ c(5, 1) \in ScriptedLookups
          /\ c(6, 1) \in ScriptedLookups
      BY ScenarioTable, LookupsOfScripts DEF Cycles
    <3>2. i \in 1 .. 6
      BY <2>1, ScenarioTable
    <3> QED BY <2>1, <3>1, <3>2, CycleCounts
  <2>2. CASE script = "disruption"
    <3> DEFINE c(x, y) == Cycles("disruption", x)[y].lookups
    <3>1. /\ c(1, 1) \in ScriptedLookups
          /\ c(2, 1) \in ScriptedLookups
          /\ c(2, 2) \in ScriptedLookups
          /\ c(3, 1) \in ScriptedLookups
          /\ c(4, 1) \in ScriptedLookups
          /\ c(4, 2) \in ScriptedLookups
      BY ScenarioTable, LookupsOfScripts DEF Cycles
    <3>2. i \in 1 .. 4
      BY <2>2, ScenarioTable
    <3> QED BY <2>2, <3>1, <3>2, CycleCounts
  <2> QED BY <2>1, <2>2 DEF Scripts
<1>2. ASSUME NEW l \in ScriptedLookups, NEW j \in DOMAIN l
      PROVE  l[j] \in Results
  BY <1>2 DEF ScriptedLookups, Failed3, Results
<1> QED BY <1>1, <1>2 DEF Known

LEMMA AnswersKnown ==
    ASSUME NEW c, NEW f, Known(c)
    PROVE  ToSet(Answers(c, f)) \subseteq Results
<1>1. CASE Queried(c, f)
  <2>1. \A i \in 1 .. 3 : Scripted(c)[i] \in Results
    BY ScriptedRounds DEF Known, Results
  <2>2. /\ DOMAIN Answers(c, f) = 1 .. Rounds(c) /\ Rounds(c) \in 1 .. 3
        /\ \A i \in 1 .. Rounds(c) : Answers(c, f)[i] = Scripted(c)[i]
    BY <1>1, AnswersGiven, RoundsTaken
  <2> QED BY <2>1, <2>2 DEF ToSet
<1>2. CASE ~ Queried(c, f)
  BY <1>2, QuietConvergence DEF ToSet
<1> QED BY <1>1, <1>2

\* What is asked for in a campaign, and where.
LEMMA RequestShape ==
    ASSUME NEW script \in Scripts, NEW requested \in Requests[script]
    PROVE  requested \in Seq(DOMAIN Scenarios[script]) /\ requested # <<>>
<1>1. PICK S \in Selections[script] : requested \in InOrder(S)
  BY DEF Requests
<1>2. S \subseteq DOMAIN Scenarios[script] /\ S # {}
  BY <1>1, SelectionsAssumption
<1>3. IsFiniteSet(S)
  <2>1. PICK n \in Nat : DOMAIN Scenarios[script] = 1 .. n
    <3>1. CASE script = "injection"
      BY <3>1, ScenarioTable, 6 \in Nat
    <3>2. CASE script = "disruption"
      BY <3>2, ScenarioTable, 4 \in Nat
    <3> QED BY <3>1, <3>2 DEF Scripts
  <2>2. IsFiniteSet(1 .. n)
    BY FS_Interval
  <2> QED BY Zenon, <1>2, <2>1, <2>2, FS_Subset
<1>4. Cardinality(S) \in Nat /\ Cardinality(S) # 0
  BY <1>2, <1>3, FS_CardinalityType, FS_EmptySet
<1>5. requested \in [1 .. Cardinality(S) -> S]
  BY <1>1 DEF InOrder
<1>7. requested # <<>>
  BY <1>4, <1>5
<1>6. requested \in [1 .. Cardinality(S) -> DOMAIN Scenarios[script]]
  BY <1>2, <1>5
<1> QED BY <1>4, <1>6, <1>7, IsASeq

\* The state of one scenario's store, before and after a write of it.
LEMMA StoreWrites ==
    ASSUME NEW c, NEW f \in StoreFile
    PROVE  /\ Persisted(c, f) \in StoreFile
           /\ Persisted(c, f).attempts = f.attempts
           /\ Persisted(c, f).unresolved = Unsettled(c, f)
<1>1. Unsettled(c, f) \in BOOLEAN /\ GapDetected(c, f) \in BOOLEAN
      /\ (Convergence(c, f) = "unreconciled_manual_attention") \in BOOLEAN
  BY DEF Unsettled, GapDetected
<1>2. PICK u, m, g : /\ u = Unsettled(c, f) /\ g = GapDetected(c, f)
                     /\ m = (Convergence(c, f) = "unreconciled_manual_attention")
  OBVIOUS
<1>3. u \in BOOLEAN /\ m \in BOOLEAN /\ g \in BOOLEAN
  BY <1>1, <1>2
<1>4. Persisted(c, f) = [f EXCEPT !.unresolved = u, !.manual = m, !.gap = g]
  BY <1>2 DEF Persisted
<1> QED BY <1>2, <1>3, <1>4 DEF StoreFile

Attempt == [print : (0 .. 3) \X Results, number : Nat \ {0}]

LEMMA NewAttemptsAreFew ==
    ASSUME NEW f \in StoreFile, IsFiniteSet(f.attempts), NEW cursor \in 0 .. 3,
           NEW answers, ToSet(answers) \subseteq Results
    PROVE  /\ NewAttempts(f, cursor, answers) \subseteq Attempt
           /\ IsFiniteSet(NewAttempts(f, cursor, answers))
<1>1. PICK n : n = Cardinality(f.attempts) + 1
  OBVIOUS
<1>2. n \in Nat \ {0}
  BY <1>1, FS_CardinalityType
<1> DEFINE attempt(r) == [print |-> <<cursor, r>>, number |-> n]
           all == {attempt("failed"), attempt("new"), attempt("filled")}
<1>3. NewAttempts(f, cursor, answers) \subseteq all
  BY <1>1 DEF NewAttempts, Fingerprints, Results
<1>4. all \subseteq Attempt
  BY <1>2 DEF Attempt, Results
<1>5. IsFiniteSet(all)
  <2>1. IsFiniteSet({} \cup {attempt("failed")})
    BY FS_EmptySet, FS_AddElement
  <2>2. IsFiniteSet(({} \cup {attempt("failed")}) \cup {attempt("new")})
    BY <2>1, FS_AddElement
  <2>3. IsFiniteSet((({} \cup {attempt("failed")}) \cup {attempt("new")})
                       \cup {attempt("filled")})
    BY <2>2, FS_AddElement
  <2>4. all = (({} \cup {attempt("failed")}) \cup {attempt("new")})
                       \cup {attempt("filled")}
    OBVIOUS
  <2> QED BY <2>3, <2>4
<1> QED BY <1>3, <1>4, <1>5, FS_Subset

LEMMA InitType == Init => TypeInv
<1> SUFFICES ASSUME Init PROVE TypeInv
  OBVIOUS
<1>1. /\ todo = <<>> /\ records = <<>> /\ phase = "idle" /\ runs = 0
      /\ kind = "injection" /\ exitCode = "none" /\ remembered = FALSE
  BY DEF Init
<1>2. EmptyFile \in StoreFile /\ IsFiniteSet(EmptyFile.attempts)
  BY FS_EmptySet DEF EmptyFile, StoreFile
<1>3. /\ file = [d \in Directories |-> EmptyFile]
      /\ rows = [d \in Directories |-> 0]
      /\ summary = [d \in Directories |-> NoSummary]
  BY DEF Init
<1>4. /\ file \in [Directories -> StoreFile]
      /\ rows \in [Directories -> Nat]
      /\ summary = [d \in Directories |-> summary[d]]
      /\ \A d \in Directories : IsFiniteSet(file[d].attempts)
  BY <1>2, <1>3
<1>5. ToSet(todo) \subseteq DOMAIN Scenarios[kind]
  BY <1>1 DEF ToSet
<1>6. TypeOK
  <2>1. runs \in 0 .. MaxRuns
    BY <1>1, RunsAssumption
  <2>2. phase \in Phases /\ kind \in Scripts /\ remembered \in BOOLEAN
    BY <1>1 DEF Phases, Scripts
  <2>3. exitCode \in {"none", "0", "2", "killed", "raised"}
    BY <1>1
  <2>4. phase # "idle" => Len(records) <= Len(Scenario.cycles)
    BY <1>1
  <2> QED BY <2>1, <2>2, <2>3, <2>4, <1>4, <1>5 DEF TypeOK
<1>7. todo \in Seq(DOMAIN Scenarios[kind]) /\ IsList(records)
  BY <1>1, EmptySeq DEF IsList
<1> QED BY <1>1, <1>4, <1>6, <1>7 DEF TypeInv

\* Where the running campaign is.
LEMMA HereKnown ==
    ASSUME TypeInv, phase # "idle"
    PROVE  /\ kind \in Scripts /\ Head(todo) \in DOMAIN Scenarios[kind]
           /\ Here \in Directories /\ Here = <<kind, Head(todo)>>
           /\ Scenario.cycles = Cycles(kind, Head(todo))
           /\ Scenario = Scenarios[kind][Head(todo)]
           /\ Len(records) \in Nat /\ DOMAIN records = 1 .. Len(records)
           /\ Len(records) <= Len(Cycles(kind, Head(todo)))
           /\ Len(Cycles(kind, Head(todo))) \in 1 .. 3
           /\ file[Here] \in StoreFile /\ IsFiniteSet(file[Here].attempts)
<1>1. kind \in Scripts /\ Head(todo) \in DOMAIN Scenarios[kind]
  <2>1. kind \in Scripts /\ todo # <<>> /\ todo \in Seq(DOMAIN Scenarios[kind])
    BY DEF TypeInv, TypeOK
  <2> QED BY <2>1, HeadTailProperties
<1>2. /\ Here \in Directories /\ Here = <<kind, Head(todo)>>
      /\ Len(Cycles(kind, Head(todo))) \in 1 .. 3
  BY <1>1, ScriptsAreShort DEF Here
<1>3. Scenario.cycles = Cycles(kind, Head(todo))
  BY DEF Scenario, Cycles
<1>4. Len(records) \in Nat /\ DOMAIN records = 1 .. Len(records)
  <2>1. IsList(records)
    BY DEF TypeInv
  <2> QED BY <2>1, AppendedRecord
<1>5. Len(records) <= Len(Cycles(kind, Head(todo)))
  BY <1>3 DEF TypeInv, TypeOK
<1>6. file[Here] \in StoreFile /\ IsFiniteSet(file[Here].attempts)
  BY <1>2 DEF TypeInv, TypeOK
<1> QED BY <1>1, <1>2, <1>3, <1>4, <1>5, <1>6 DEF Scenario

\* The store's file of the running scenario is written.
LEMMA FileWritten ==
    ASSUME TypeInv, phase # "idle", NEW f \in StoreFile,
           IsFiniteSet(f.attempts), file' = [file EXCEPT ![Here] = f]
    PROVE  /\ file' \in [Directories -> StoreFile]
           /\ \A d \in Directories : IsFiniteSet(file'[d].attempts)
           /\ file'[Here] = f
<1>1. Here \in Directories
  BY HereKnown
<1>2. file \in [Directories -> StoreFile]
      /\ \A d \in Directories : IsFiniteSet(file[d].attempts)
  BY DEF TypeInv, TypeOK
<1> QED BY <1>1, <1>2

\* The type invariant, given what a step does to the parts of it.
LEMMA TypesKept ==
    ASSUME TypeInv,
           runs' \in 0 .. MaxRuns, phase' \in Phases,
           remembered' \in BOOLEAN,
           exitCode' \in {"none", "0", "2", "killed", "raised"},
           kind' \in Scripts, todo' \in Seq(DOMAIN Scenarios[kind']),
           phase' # "idle" => todo' # <<>>,
           IsList(records'),
           phase' # "idle" => Len(records') <= Len(Cycles(kind', Head(todo'))),
           file' \in [Directories -> StoreFile],
           \A d \in Directories : IsFiniteSet(file'[d].attempts),
           rows' \in [Directories -> Nat],
           summary' = [d \in Directories |-> summary'[d]]
    PROVE  TypeInv'
<1>1. ToSet(todo') \subseteq DOMAIN Scenarios[kind']
  <2>1. PICK S : S = DOMAIN Scenarios[kind']
    OBVIOUS
  <2>2. todo' \in Seq(S)
    BY <2>1
  <2>3. \A k \in DOMAIN todo' : todo'[k] \in S
    BY <2>2, LenProperties, ElementOfSeq
  <2> QED BY <2>1, <2>3 DEF ToSet
<1>2. TypeOK'
  BY <1>1 DEF TypeOK, Scenario, Cycles
<1> QED BY <1>2 DEF TypeInv, IsList

LEMMA RequestStep ==
    ASSUME TypeInv, NEW script \in Scripts, NEW requested \in Requests[script],
           StartCampaign(script, requested)
    PROVE  /\ TypeInv' /\ records' = <<>> /\ remembered' = FALSE
           /\ phase' = "cycle" /\ exitCode' = "0" /\ summary' = summary
<1>1. /\ runs' = runs + 1 /\ runs < MaxRuns /\ kind' = script
      /\ todo' = requested /\ exitCode' = "0" /\ remembered' = FALSE
      /\ records' = <<>> /\ phase' = "cycle"
      /\ UNCHANGED <<file, rows, onDisk, summary>>
  BY DEF StartCampaign, disk
<1>2. requested \in Seq(DOMAIN Scenarios[script]) /\ requested # <<>>
  BY RequestShape
<1>3. Head(requested) \in DOMAIN Scenarios[script]
  BY <1>2, HeadTailProperties
<1>4. Len(Cycles(script, Head(requested))) \in 1 .. 3
  BY <1>3, ScriptsAreShort
<1>5. IsList(records') /\ Len(records') = 0
  BY <1>1, EmptySeq DEF IsList
<1>6. runs' \in 0 .. MaxRuns /\ phase' \in Phases
  BY <1>1 DEF TypeInv, TypeOK, Phases
<1>7. /\ file' \in [Directories -> StoreFile]
      /\ rows' \in [Directories -> Nat]
      /\ \A d \in Directories : IsFiniteSet(file'[d].attempts)
      /\ summary' = [d \in Directories |-> summary'[d]]
  BY <1>1 DEF TypeInv, TypeOK
<1>8. Len(records') <= Len(Cycles(kind', Head(todo')))
  BY <1>1, <1>4, <1>5
<1>9. TypeInv'
  BY <1>1, <1>2, <1>5, <1>6, <1>7, <1>8, TypesKept
<1> QED BY <1>1, <1>9

-----------------------------------------------------------------------------
(* The steps.                                                              *)

\* The next record of the running scenario is one that `Made` allows.
LEMMA RecordTaken ==
    ASSUME TypeInv, RecordsInv, phase # "idle",
           Len(records) < Len(Cycles(kind, Head(todo))),
           NEW rec, rec = Recorded(kind, Cycle, file[Here], remembered)
    PROVE  /\ Made(kind, Head(todo), Append(records, rec))
           /\ IsList(Append(records, rec))
           /\ Len(Append(records, rec)) = Len(records) + 1
           /\ Append(records, rec)[Len(records) + 1] = rec
           /\ Cycle = Cycles(kind, Head(todo))[Len(records) + 1]
           /\ remembered \/ Fills(Cycle) =>
                \E j \in 1 .. Len(records) + 1 :
                   Fills(Cycles(kind, Head(todo))[j])
<1>1. /\ Cycle = Cycles(kind, Head(todo))[Len(records) + 1]
      /\ Len(records) \in Nat /\ file[Here] \in StoreFile
  BY HereKnown DEF Cycle
<1>2. IsList(records) /\ remembered \in BOOLEAN
  BY DEF TypeInv, TypeOK
<1>3. /\ Made(kind, Head(todo), records)
      /\ remembered =>
           \E j \in 1 .. Len(records) : Fills(Cycles(kind, Head(todo))[j])
      /\ kind = "disruption" /\ Len(records) > 0 =>
           file[Here].unresolved = records[Len(records)].unresolved
  BY DEF RecordsInv
<1>4. Made(kind, Head(todo), Append(records, rec))
  BY <1>1, <1>2, <1>3, MadeMore
<1>5. /\ IsList(Append(records, rec))
      /\ Len(Append(records, rec)) = Len(records) + 1
      /\ Append(records, rec)[Len(records) + 1] = rec
  BY <1>2, AppendedRecord
<1>6. remembered \/ Fills(Cycle) =>
        \E j \in 1 .. Len(records) + 1 : Fills(Cycles(kind, Head(todo))[j])
  <2>1. CASE remembered
    <3>1. PICK j \in 1 .. Len(records) : Fills(Cycles(kind, Head(todo))[j])
      BY <1>3, <2>1
    <3>2. j \in 1 .. Len(records) + 1
      BY <1>1, <3>1
    <3> QED BY <3>1, <3>2
  <2>2. CASE Fills(Cycle)
    <3>1. Fills(Cycles(kind, Head(todo))[Len(records) + 1])
      BY <1>1, <2>2
    <3>2. Len(records) + 1 \in 1 .. Len(records) + 1
      BY <1>1
    <3> QED BY <3>1, <3>2
  <2> QED BY <2>1, <2>2
<1> QED BY <1>1, <1>4, <1>5, <1>6

LEMMA RequestRecords ==
    ASSUME TypeInv, NEW script \in Scripts, NEW requested \in Requests[script],
           StartCampaign(script, requested)
    PROVE  RecordsInv'
<1>1. records' = <<>> /\ remembered' = FALSE /\ phase' = "cycle"
  BY RequestStep
<1>2. Made(kind', Head(todo'), records')
  BY <1>1 DEF Made
<1> QED BY <1>1, <1>2 DEF RecordsInv

LEMMA QuietStep ==
    ASSUME TypeInv, RecordsInv, QuietPass
    PROVE  TypeInv' /\ RecordsInv' /\ UNCHANGED <<exitCode, summary>>
<1>1. /\ phase = "cycle" /\ kind = "injection"
      /\ Len(records) < Len(Scenario.cycles)
      /\ records' = Append(records,
                           InjectionRecord(Cycle, file[Here], remembered))
      /\ UNCHANGED <<runs, phase, kind, todo, remembered, exitCode, file,
                     rows, onDisk, summary>>
  BY DEF QuietPass, disk
<1>2. PICK rec : rec = InjectionRecord(Cycle, file[Here], remembered)
  OBVIOUS
<1>3. rec = Recorded(kind, Cycle, file[Here], remembered)
  BY <1>1, <1>2 DEF Recorded
<1>4. /\ Len(records) < Len(Cycles(kind, Head(todo))) /\ Len(records) \in Nat
      /\ Len(Cycles(kind, Head(todo))) \in 1 .. 3
  BY <1>1, HereKnown
<1>5. /\ Made(kind, Head(todo), records') /\ IsList(records')
      /\ Len(records') = Len(records) + 1
      /\ remembered =>
           \E j \in 1 .. Len(records') : Fills(Cycles(kind, Head(todo))[j])
  BY <1>1, <1>2, <1>3, <1>4, RecordTaken
<1>6. TypeInv'
  <2>1. /\ runs' \in 0 .. MaxRuns /\ phase' \in Phases /\ kind' \in Scripts
        /\ remembered' \in BOOLEAN
        /\ exitCode' \in {"none", "0", "2", "killed", "raised"}
        /\ todo' \in Seq(DOMAIN Scenarios[kind']) /\ todo' # <<>>
        /\ file' \in [Directories -> StoreFile]
        /\ \A d \in Directories : IsFiniteSet(file'[d].attempts)
        /\ rows' \in [Directories -> Nat]
        /\ summary' = [d \in Directories |-> summary'[d]]
    BY <1>1 DEF TypeInv, TypeOK
  <2>2. Len(records') <= Len(Cycles(kind', Head(todo')))
    BY <1>1, <1>4, <1>5
  <2> QED BY <1>5, <2>1, <2>2, TypesKept
<1>7. RecordsInv'
  BY <1>1, <1>5 DEF RecordsInv
<1> QED BY <1>1, <1>6, <1>7

LEMMA StartStep ==
    ASSUME TypeInv, RecordsInv, StartPass
    PROVE  /\ TypeInv' /\ RecordsInv' /\ UNCHANGED summary
           /\ exitCode' # exitCode => exitCode' = "raised"
<1>1. /\ phase = "cycle" /\ Len(records) < Len(Scenario.cycles)
      /\ \/ phase' = "idle" /\ exitCode' = "raised"
         \/ phase' = "register" /\ exitCode' = exitCode
      /\ UNCHANGED <<runs, kind, todo, remembered, records, file,
                     rows, onDisk, summary>>
  BY DEF StartPass, disk
<1>2. /\ Len(records) < Len(Cycles(kind, Head(todo))) /\ Len(records) \in Nat
      /\ Len(Cycles(kind, Head(todo))) \in 1 .. 3
  BY <1>1, HereKnown
<1>3. TypeInv'
  <2>1. /\ runs' \in 0 .. MaxRuns /\ kind' \in Scripts
        /\ remembered' \in BOOLEAN /\ IsList(records')
        /\ exitCode \in {"none", "0", "2", "killed", "raised"}
        /\ todo' \in Seq(DOMAIN Scenarios[kind']) /\ todo' # <<>>
        /\ file' \in [Directories -> StoreFile]
        /\ \A d \in Directories : IsFiniteSet(file'[d].attempts)
        /\ rows' \in [Directories -> Nat]
        /\ summary' = [d \in Directories |-> summary'[d]]
    BY <1>1 DEF TypeInv, TypeOK
  <2>2. phase' \in Phases
        /\ exitCode' \in {"none", "0", "2", "killed", "raised"}
    BY <1>1, <2>1 DEF Phases
  <2>3. Len(records') <= Len(Cycles(kind', Head(todo')))
    BY <1>1, <1>2
  <2> QED BY <2>1, <2>2, <2>3, TypesKept
<1>4. RecordsInv'
  <2>1. PICK list, top, n : list = records /\ top = Head(todo) /\ n = Here
    OBVIOUS
  <2>2. records' = list /\ Head(todo') = top /\ Here' = n
    BY <1>1, <2>1 DEF Here
  <2> QED BY <1>1, <1>2, <2>1, <2>2 DEF RecordsInv
<1> QED BY <1>1, <1>3, <1>4

LEMMA RegisterStep ==
    ASSUME TypeInv, RecordsInv, RegisterLookups
    PROVE  TypeInv' /\ RecordsInv' /\ UNCHANGED <<exitCode, summary>>
<1> DEFINE new == NewAttempts(file[Here], Cursor, Answers(Cycle, file[Here]))
<1>1. PICK f : f = [file[Here] EXCEPT !.attempts = @ \cup new]
  OBVIOUS
<1>2. /\ phase = "register" /\ phase' = "persist"
      /\ file' = [file EXCEPT ![Here] = f]
      /\ UNCHANGED <<runs, kind, todo, remembered, records, exitCode, rows,
                     onDisk, summary>>
  BY <1>1 DEF RegisterLookups
<1>3. /\ kind \in Scripts /\ Head(todo) \in DOMAIN Scenarios[kind]
      /\ Here \in Directories /\ Scenario.cycles = Cycles(kind, Head(todo))
      /\ Len(records) \in Nat /\ Len(Cycles(kind, Head(todo))) \in 1 .. 3
      /\ file[Here] \in StoreFile /\ IsFiniteSet(file[Here].attempts)
  BY <1>2, HereKnown
<1>4. Len(records) < Len(Cycles(kind, Head(todo)))
  BY <1>2 DEF RecordsInv
<1>5. Known(Cycle)
  <2>1. PICK k : k = Len(records) + 1
    OBVIOUS
  <2>2. k \in 1 .. Len(Cycles(kind, Head(todo)))
    BY <1>3, <1>4, <2>1
  <2>3. Cycle = Cycles(kind, Head(todo))[k]
    BY <1>3, <2>1 DEF Cycle
  <2> QED BY <1>3, <2>2, <2>3, ScriptsAreKnown
<1>6. new \subseteq Attempt /\ IsFiniteSet(new)
  <2>1. Cursor \in 0 .. 3
    <3>1. PICK k, n : k = Len(records) /\ n = Len(Cycles(kind, Head(todo)))
      OBVIOUS
    <3>2. k \in Nat /\ n \in 1 .. 3 /\ k < n
      BY <1>3, <1>4, <3>1
    <3>3. k + 1 \in 0 .. 3
      BY <3>2
    <3> QED BY <3>1, <3>3 DEF Cursor
  <2>2. ToSet(Answers(Cycle, file[Here])) \subseteq Results
    BY <1>5, AnswersKnown
  <2> QED BY <1>3, <2>1, <2>2, NewAttemptsAreFew
<1> HIDE DEF new
<1>7. /\ f \in StoreFile /\ IsFiniteSet(f.attempts)
      /\ f.unresolved = file[Here].unresolved
  <2>1. file[Here].attempts \cup new \subseteq Attempt
    BY <1>3, <1>6 DEF StoreFile, Attempt, Results
  <2>2. IsFiniteSet(file[Here].attempts \cup new)
    BY <1>3, <1>6, FS_Union
  <2>3. /\ f.attempts = file[Here].attempts \cup new
        /\ f.unresolved = file[Here].unresolved
        /\ f \in StoreFile
    BY <1>1, <1>3, <2>1 DEF StoreFile, Attempt, Results
  <2> QED BY <2>2, <2>3
<1>8. /\ file' \in [Directories -> StoreFile]
      /\ \A d \in Directories : IsFiniteSet(file'[d].attempts)
      /\ file'[Here] = f
  BY <1>2, <1>7, FileWritten
<1>9. TypeInv'
  <2>1. /\ runs' \in 0 .. MaxRuns /\ kind' \in Scripts
        /\ remembered' \in BOOLEAN /\ IsList(records')
        /\ exitCode' \in {"none", "0", "2", "killed", "raised"}
        /\ todo' \in Seq(DOMAIN Scenarios[kind']) /\ todo' # <<>>
        /\ rows' \in [Directories -> Nat]
        /\ summary' = [d \in Directories |-> summary'[d]]
    BY <1>2 DEF TypeInv, TypeOK
  <2>2. phase' \in Phases
    BY <1>2 DEF Phases
  <2>3. Len(records') <= Len(Cycles(kind', Head(todo')))
    BY <1>2, <1>3, <1>4
  <2> QED BY <1>8, <2>1, <2>2, <2>3, TypesKept
<1>10. RecordsInv'
  <2>1. PICK list, top, n : list = records /\ top = Head(todo) /\ n = Here
    OBVIOUS
  <2>2. records' = list /\ Head(todo') = top /\ Here' = n
    BY <1>2, <2>1 DEF Here
  <2> QED BY <1>2, <1>4, <1>7, <1>8, <2>1, <2>2 DEF RecordsInv
<1> QED BY <1>2, <1>9, <1>10

LEMMA PersistStep ==
    ASSUME TypeInv, RecordsInv, PersistOfGate \/ PersistOfService
    PROVE  TypeInv' /\ RecordsInv' /\ UNCHANGED <<exitCode, summary>>
<1> DEFINE after == Persisted(Cycle, file[Here])
<1>1. /\ phase = "persist"
      /\ file' = [file EXCEPT ![Here] = after]
      /\ UNCHANGED <<runs, kind, todo, exitCode, rows, onDisk, summary>>
  BY DEF PersistOfGate, PersistOfService
<1>2. /\ kind \in Scripts /\ Here \in Directories
      /\ Scenario.cycles = Cycles(kind, Head(todo))
      /\ Len(records) \in Nat /\ Len(Cycles(kind, Head(todo))) \in 1 .. 3
      /\ file[Here] \in StoreFile /\ IsFiniteSet(file[Here].attempts)
  BY <1>1, HereKnown
<1>3. Len(records) < Len(Cycles(kind, Head(todo)))
  BY <1>1 DEF RecordsInv
<1>4. PICK rec : rec = Recorded(kind, Cycle, file[Here], remembered)
  OBVIOUS
<1>5. /\ records' = Append(records, rec)
      /\ \/ kind = "injection" /\ phase' = "cycle"
         \/ kind = "disruption" /\ phase' = "log"
      /\ remembered' = remembered
           \/ remembered' = (remembered \/ (Fills(Cycle)
                               /\ Applied(Cycle, file[Here], remembered)))
  BY <1>4 DEF PersistOfGate, PersistOfService, Recorded
<1>6. /\ Made(kind, Head(todo), records') /\ IsList(records')
      /\ Len(records') = Len(records) + 1
      /\ records'[Len(records) + 1] = rec
      /\ remembered \/ Fills(Cycle) =>
           \E j \in 1 .. Len(records') : Fills(Cycles(kind, Head(todo))[j])
  BY <1>1, <1>3, <1>4, <1>5, RecordTaken
<1>7. /\ after \in StoreFile /\ IsFiniteSet(after.attempts)
      /\ after.unresolved = Unsettled(Cycle, file[Here])
  BY <1>2, StoreWrites
<1>8. kind = "disruption" => rec.unresolved = after.unresolved
  BY <1>4 DEF Recorded, DisruptionRecord
<1> HIDE DEF after
<1>9. /\ file' \in [Directories -> StoreFile]
      /\ \A d \in Directories : IsFiniteSet(file'[d].attempts)
      /\ file'[Here] = after
  BY <1>1, <1>7, FileWritten
<1>10. remembered' \in BOOLEAN /\ (remembered' => remembered \/ Fills(Cycle))
  <2>1. remembered \in BOOLEAN
    BY DEF TypeInv, TypeOK
  <2>2. CASE remembered' = remembered
    BY <2>1, <2>2
  <2>3. CASE remembered' = (remembered \/ (Fills(Cycle)
                               /\ Applied(Cycle, file[Here], remembered)))
    BY <2>1, <2>3
  <2> QED BY <1>5, <2>2, <2>3
<1>11. TypeInv'
  <2>1. /\ runs' \in 0 .. MaxRuns /\ kind' \in Scripts
        /\ exitCode' \in {"none", "0", "2", "killed", "raised"}
        /\ todo' \in Seq(DOMAIN Scenarios[kind']) /\ todo' # <<>>
        /\ rows' \in [Directories -> Nat]
        /\ summary' = [d \in Directories |-> summary'[d]]
    BY <1>1 DEF TypeInv, TypeOK
  <2>2. phase' \in Phases
    BY <1>5 DEF Phases
  <2>3. Len(records') <= Len(Cycles(kind', Head(todo')))
    BY <1>1, <1>2, <1>3, <1>6
  <2> QED BY <1>6, <1>9, <1>10, <2>1, <2>2, <2>3, TypesKept
<1>12. RecordsInv'
  <2>1. PICK n, top, script : n = Here /\ top = Head(todo) /\ script = kind
    OBVIOUS
  <2>2. Here' = n /\ Head(todo') = top /\ kind' = script
    BY <1>1, <2>1 DEF Here
  <2>3. /\ Made(script, top, records')
        /\ remembered' =>
             \E j \in 1 .. Len(records') : Fills(Cycles(script, top)[j])
        /\ script = "disruption" =>
             file'[n].unresolved = records'[Len(records')].unresolved
    BY <1>6, <1>8, <1>9, <1>10, <2>1
  <2> QED BY <1>5, <2>2, <2>3 DEF RecordsInv
<1> QED BY <1>1, <1>11, <1>12

\* The steps that leave the store, the records and what is left to run alone.
LEMMA LogStep ==
    ASSUME TypeInv, RecordsInv, LogWorkflow \/ EndScenario \/ WriteRecords
    PROVE  TypeInv' /\ RecordsInv' /\ UNCHANGED <<exitCode, summary>>
<1>1. /\ phase # "idle" /\ phase' \in Phases \ {"idle", "register", "persist"}
      /\ UNCHANGED <<runs, kind, todo, remembered, records, exitCode, file,
                     summary>>
      /\ rows' = rows \/ rows' = [rows EXCEPT ![Here] = @ + 1]
  BY DEF LogWorkflow, EndScenario, WriteRecords, Phases, disk
<1>2. /\ Here \in Directories /\ Scenario.cycles = Cycles(kind, Head(todo))
      /\ Len(records) <= Len(Cycles(kind, Head(todo)))
  BY <1>1, HereKnown
<1>3. phase' \in {"write_records", "write_summary"} =>
        Len(records) = Len(Cycles(kind, Head(todo)))
  BY <1>2 DEF LogWorkflow, EndScenario, WriteRecords, RecordsInv
<1>4. TypeInv'
  <2>1. /\ runs' \in 0 .. MaxRuns /\ kind' \in Scripts
        /\ remembered' \in BOOLEAN /\ IsList(records')
        /\ exitCode' \in {"none", "0", "2", "killed", "raised"}
        /\ todo' \in Seq(DOMAIN Scenarios[kind'])
        /\ file' \in [Directories -> StoreFile]
        /\ \A d \in Directories : IsFiniteSet(file'[d].attempts)
        /\ summary' = [d \in Directories |-> summary'[d]]
    BY <1>1 DEF TypeInv, TypeOK
  <2>2. todo' # <<>> /\ Len(records') <= Len(Cycles(kind', Head(todo')))
    BY <1>1, <1>2 DEF TypeInv
  <2>3. rows' \in [Directories -> Nat]
    <3>1. rows \in [Directories -> Nat]
      BY DEF TypeInv, TypeOK
    <3>2. rows[Here] + 1 \in Nat
      BY <1>2, <3>1
    <3> QED BY <1>1, <3>1, <3>2
  <2> QED BY <1>1, <2>1, <2>2, <2>3, TypesKept
<1>5. RecordsInv'
  <2>1. PICK list, top, n : list = records /\ top = Head(todo) /\ n = Here
    OBVIOUS
  <2>2. records' = list /\ Head(todo') = top /\ Here' = n
    BY <1>1, <2>1 DEF Here
  <2> QED BY <1>1, <1>3, <2>1, <2>2 DEF RecordsInv
<1> QED BY <1>1, <1>4, <1>5

\* The summary of a scenario played to its end says that it passed.
LEMMA SummaryStep ==
    ASSUME TypeInv, RecordsInv, WriteSummary
    PROVE  /\ TypeInv' /\ RecordsInv' /\ UNCHANGED exitCode
           /\ \A d \in Directories :
                 summary'[d] = summary[d] \/ summary'[d].passed
<1> DEFINE told == Summary(kind, Scenario, records, file[Here])
<1>1. /\ phase = "write_summary"
      /\ summary' = [summary EXCEPT ![Here] = told]
      /\ exitCode' = IF summary'[Here].passed THEN exitCode ELSE "2"
      /\ todo' = Tail(todo) /\ remembered' = FALSE /\ records' = <<>>
      /\ phase' = IF Tail(todo) = <<>> THEN "idle" ELSE "cycle"
      /\ UNCHANGED <<runs, kind, file, rows, onDisk>>
  BY DEF WriteSummary
<1>2. /\ kind \in Scripts /\ Head(todo) \in DOMAIN Scenarios[kind]
      /\ Scenario = Scenarios[kind][Head(todo)] /\ Here \in Directories
      /\ Len(records) \in Nat /\ DOMAIN records = 1 .. Len(records)
  BY <1>1, HereKnown
<1>3. /\ Made(kind, Head(todo), records)
      /\ Len(records) = Len(Cycles(kind, Head(todo)))
  BY <1>1 DEF RecordsInv
<1>4. Passed(kind, Scenario, records)
  BY <1>2, <1>3, EveryScenarioPasses
<1>5. told.passed
  BY <1>4 DEF Summary
<1> HIDE DEF told
<1>6. summary = [d \in Directories |-> summary[d]]
  BY DEF TypeInv
<1>7. /\ summary' = [d \in Directories |-> summary'[d]]
      /\ summary'[Here] = told
      /\ \A d \in Directories : d # Here => summary'[d] = summary[d]
  BY <1>1, <1>2, <1>6
<1>8. exitCode' = exitCode
  BY <1>1, <1>5, <1>7
<1>9. todo' \in Seq(DOMAIN Scenarios[kind'])
  <2>1. todo \in Seq(DOMAIN Scenarios[kind]) /\ todo # <<>>
    BY <1>1 DEF TypeInv
  <2> QED BY <1>1, <2>1, HeadTailProperties
<1>10. IsList(records') /\ Len(records') = 0
  BY <1>1, EmptySeq DEF IsList
<1>11. TypeInv'
  <2>1. /\ runs' \in 0 .. MaxRuns /\ kind' \in Scripts
        /\ exitCode' \in {"none", "0", "2", "killed", "raised"}
        /\ file' \in [Directories -> StoreFile]
        /\ \A d \in Directories : IsFiniteSet(file'[d].attempts)
        /\ rows' \in [Directories -> Nat]
    BY <1>1, <1>8 DEF TypeInv, TypeOK
  <2>2. /\ phase' \in Phases /\ (phase' # "idle" => todo' # <<>>)
        /\ remembered' \in BOOLEAN
    BY <1>1 DEF Phases
  <2>3. phase' # "idle" => Len(records') <= Len(Cycles(kind', Head(todo')))
    <3>1. SUFFICES ASSUME phase' # "idle"
                   PROVE  Len(records') <= Len(Cycles(kind', Head(todo')))
      OBVIOUS
    <3>2. Head(todo') \in DOMAIN Scenarios[kind']
      BY <1>9, <2>2, <3>1, HeadTailProperties
    <3>3. Len(Cycles(kind', Head(todo'))) \in 1 .. 3
      BY <2>1, <3>2, ScriptsAreShort
    <3> QED BY <1>10, <3>3
  <2> QED BY <1>7, <1>9, <1>10, <2>1, <2>2, <2>3, TypesKept
<1>12. RecordsInv'
  <2>1. Made(kind', Head(todo'), records')
    BY <1>1 DEF Made
  <2>2. phase' \notin {"register", "persist", "write_records",
                       "write_summary"} /\ ~ remembered'
    BY <1>1
  <2> QED BY <1>10, <2>1, <2>2 DEF RecordsInv
<1> QED BY <1>5, <1>7, <1>8, <1>11, <1>12

LEMMA KillStep ==
    ASSUME TypeInv, Kill
    PROVE  /\ TypeInv' /\ RecordsInv' /\ exitCode' = "killed"
           /\ \A d \in Directories :
                 summary'[d] = summary[d] \/ summary'[d] = NoSummary
<1>1. /\ phase # "idle" /\ phase' = "idle" /\ exitCode' = "killed"
      /\ UNCHANGED <<runs, kind, todo, remembered, records, rows>>
      /\ file' = file \/ file' = [file EXCEPT ![Here].torn = TRUE]
      /\ summary' = summary \/ summary' = [summary EXCEPT ![Here] = NoSummary]
  BY DEF Kill, disk
<1>2. /\ Here \in Directories
      /\ file[Here] \in StoreFile /\ IsFiniteSet(file[Here].attempts)
  BY <1>1, HereKnown
<1>3. /\ file' \in [Directories -> StoreFile]
      /\ \A d \in Directories : IsFiniteSet(file'[d].attempts)
  <2>1. CASE file' = file
    BY <2>1 DEF TypeInv, TypeOK
  <2>2. CASE file' = [file EXCEPT ![Here].torn = TRUE]
    <3>1. PICK f : f = [file[Here] EXCEPT !.torn = TRUE]
      OBVIOUS
    <3>2. f \in StoreFile /\ f.attempts = file[Here].attempts
      BY <1>2, <3>1 DEF StoreFile
    <3> QED BY <1>1, <1>2, <2>2, <3>1, <3>2, FileWritten
  <2> QED BY <1>1, <2>1, <2>2
<1>4. summary = [d \in Directories |-> summary[d]]
  BY DEF TypeInv
<1>5. /\ summary' = [d \in Directories |-> summary'[d]]
      /\ \A d \in Directories :
            summary'[d] = summary[d] \/ summary'[d] = NoSummary
  BY <1>1, <1>2, <1>4
<1>6. TypeInv'
  <2>1. /\ runs' \in 0 .. MaxRuns /\ kind' \in Scripts
        /\ remembered' \in BOOLEAN /\ IsList(records')
        /\ todo' \in Seq(DOMAIN Scenarios[kind'])
        /\ rows' \in [Directories -> Nat]
    BY <1>1 DEF TypeInv, TypeOK
  <2>2. /\ phase' \in Phases /\ ~(phase' # "idle")
        /\ exitCode' \in {"none", "0", "2", "killed", "raised"}
    BY <1>1 DEF Phases
  <2> QED BY <1>3, <1>5, <2>1, <2>2, TypesKept
<1> QED BY <1>1, <1>5, <1>6 DEF RecordsInv

-----------------------------------------------------------------------------
(* The theorems.                                                           *)

LEMMA CampaignStep == CampaignInv /\ [Next]_vars => CampaignInv'
<1> SUFFICES ASSUME CampaignInv, [Next]_vars PROVE CampaignInv'
  OBVIOUS
<1>1. TypeInv /\ RecordsInv /\ AllScenariosPass
  BY DEF CampaignInv
<1>2. ASSUME TypeInv', RecordsInv', exitCode' # "2",
             \A d \in Directories : \/ summary'[d] = summary[d]
                                    \/ summary'[d] = NoSummary
                                    \/ summary'[d].passed
      PROVE  CampaignInv'
  BY <1>1, <1>2 DEF CampaignInv, AllScenariosPass
<1>3. exitCode # "2"
  BY <1>1 DEF AllScenariosPass
<1>4. ASSUME NEW script \in Scripts, NEW requested \in Requests[script],
             StartCampaign(script, requested)
      PROVE  CampaignInv'
  BY <1>1, <1>2, <1>4, RequestStep, RequestRecords
<1>5. CASE QuietPass
  BY <1>1, <1>2, <1>3, <1>5, QuietStep
<1>6. CASE StartPass
  BY <1>1, <1>2, <1>3, <1>6, StartStep
<1>7. CASE RegisterLookups
  BY <1>1, <1>2, <1>3, <1>7, RegisterStep
<1>8. CASE PersistOfGate \/ PersistOfService
  BY <1>1, <1>2, <1>3, <1>8, PersistStep
<1>9. CASE LogWorkflow \/ EndScenario \/ WriteRecords
  BY <1>1, <1>2, <1>3, <1>9, LogStep
<1>10. CASE WriteSummary
  BY <1>1, <1>2, <1>3, <1>10, SummaryStep
<1>11. CASE Kill
  BY <1>1, <1>2, <1>11, KillStep
<1>12. CASE UNCHANGED vars
  <2>1. UNCHANGED <<runs, phase, kind, todo, remembered, records, exitCode,
                    file, rows, onDisk, summary>>
    BY <1>12 DEF vars
  <2>2. PICK list, top, n : list = records /\ top = Head(todo) /\ n = Here
    OBVIOUS
  <2>3. records' = list /\ Head(todo') = top /\ Here' = n
    BY <2>1, <2>2 DEF Here
  <2>4. RecordsInv'
    BY <1>1, <2>1, <2>2, <2>3 DEF RecordsInv
  <2>5. TypeInv'
    BY <1>1, <2>1 DEF TypeInv, TypeOK, Scenario, IsList
  <2> QED BY <1>2, <1>3, <2>1, <2>4, <2>5
<1> QED BY <1>4, <1>5, <1>6, <1>7, <1>8, <1>9, <1>10, <1>11, <1>12 DEF Next

LEMMA CampaignStart == Init => CampaignInv
<1> SUFFICES ASSUME Init PROVE CampaignInv
  OBVIOUS
<1>1. /\ phase = "idle" /\ exitCode = "none"
      /\ summary = [d \in Directories |-> NoSummary]
  BY DEF Init
<1>2. TypeInv
  BY InitType
<1>3. RecordsInv
  BY <1>1 DEF RecordsInv
<1>4. AllScenariosPass
  BY <1>1 DEF AllScenariosPass
<1> QED BY <1>2, <1>3, <1>4 DEF CampaignInv

\* Types of the campaign: what runs is a list of scenarios of its script, a
\* scenario never records more cycles than its script has, and every file is
\* one the store can read (_run_scenarios, ReconciliationStateStore).
THEOREM CampaignTypes == Spec => []TypeOK
<1>1. CampaignInv => TypeOK
  BY DEF CampaignInv, TypeInv
<1> QED BY <1>1, CampaignStart, CampaignStep, PTL DEF Spec

\* However often the campaigns are started, on whatever the runs before left
\* in the directories, killed anywhere: no scenario ever fails, and no campaign
\* ends with the exit code of a failure.
THEOREM ScenariosAlwaysPass == Spec => []AllScenariosPass
<1>1. CampaignInv => AllScenariosPass
  BY DEF CampaignInv
<1> QED BY <1>1, CampaignStart, CampaignStep, PTL DEF Spec

-----------------------------------------------------------------------------
(* Repeated summaries: what a cycle converges to.                          *)

New3 == <<"new", "new", "new">>

\* What a cycle converges to, in every run.
Ending(c) ==
    IF Seen(c) THEN "not_required"
    ELSE IF c.payload = "none" /\ ~ c.gap THEN "none"
    ELSE IF c.lookups = Failed3 THEN "unreconciled_manual_attention"
    ELSE IF c.lookups = <<"filled">> THEN "converged_terminal"
    ELSE "pending"

\* A cycle of an injection sees its order, or sees nothing, or asks for it.
InjectionCycle(c) ==
    \/ Seen(c)
    \/ c.payload = "none" /\ ~ c.gap
    \/ /\ c.payload \in {"terminated", "account"} /\ c.expected
       /\ c.lookups \in {Failed3, <<"filled">>}

\* A step of a disruption sees its order, or asks for it; the second step of
\* the delayed query does so because it finds it unresolved.
DisruptionCycle(c, resumed) ==
    \/ c.payload \in {"fill_twice", "partial"}
    \/ /\ c.payload = "none" /\ c.gap /\ (c.expected \/ resumed)
       /\ c.lookups = IF resumed THEN <<"filled">> ELSE c.lookups
       /\ c.lookups \in {New3, <<"filled">>}

\* The cycles of the scripts, by what matters for it.
LEMMA InjectionTable ==
    /\ PrivateStreamDisconnect.cycles[1].payload = "terminated"
    /\ PrivateStreamDisconnect.cycles[1].expected
    /\ PrivateStreamDisconnect.cycles[1].lookups = Failed3
    /\ ListenKeyExpiration.cycles[1].payload = "terminated"
    /\ ListenKeyExpiration.cycles[1].expected
    /\ ListenKeyExpiration.cycles[1].lookups = <<"filled">>
    /\ ListenKeyExpiration.cycles[2].payload = "fill"
    /\ WebsocketReconnectStorms.cycles[1].payload = "none"
    /\ ~ WebsocketReconnectStorms.cycles[1].gap
    /\ WebsocketReconnectStorms.cycles[2].payload = "none"
    /\ ~ WebsocketReconnectStorms.cycles[2].gap
    /\ WebsocketReconnectStorms.cycles[3].payload = "none"
    /\ ~ WebsocketReconnectStorms.cycles[3].gap
    /\ DelayedPrivateEvents.cycles[1].payload = "account"
    /\ DelayedPrivateEvents.cycles[1].expected
    /\ DelayedPrivateEvents.cycles[1].lookups = <<"filled">>
    /\ DelayedPrivateEvents.cycles[2].payload = "fill"
    /\ MissingOrderEvents.cycles[1].payload = "account"
    /\ MissingOrderEvents.cycles[1].expected
    /\ MissingOrderEvents.cycles[1].lookups = Failed3
    /\ DuplicatedFillEvents.cycles[1].payload = "fill_twice"
BY DEF PrivateStreamDisconnect, ListenKeyExpiration, WebsocketReconnectStorms,
   DelayedPrivateEvents, MissingOrderEvents, DuplicatedFillEvents,
   ExpectedCycle, QuietCycle

LEMMA InjectionShapes ==
    ASSUME NEW i \in DOMAIN Scenarios["injection"],
           NEW k \in 1 .. Len(Cycles("injection", i))
    PROVE  InjectionCycle(Cycles("injection", i)[k])
<1> DEFINE c(x, y) == Cycles("injection", x)[y]
<1>1. /\ InjectionCycle(c(1, 1))
  <2>1. Cycles("injection", 1) = PrivateStreamDisconnect.cycles
    BY ScenarioTable DEF Cycles
  <2> QED BY <2>1, InjectionTable DEF InjectionCycle, Seen
<1>2. /\ InjectionCycle(c(2, 1))
      /\ InjectionCycle(c(2, 2))
  <2>1. Cycles("injection", 2) = ListenKeyExpiration.cycles
    BY ScenarioTable DEF Cycles
  <2> QED BY <2>1, InjectionTable DEF InjectionCycle, Seen
<1>3. /\ InjectionCycle(c(3, 1))
      /\ InjectionCycle(c(3, 2))
      /\ InjectionCycle(c(3, 3))
  <2>1. Cycles("injection", 3) = WebsocketReconnectStorms.cycles
    BY ScenarioTable DEF Cycles
  <2> QED BY <2>1, InjectionTable DEF InjectionCycle, Seen
<1>4. /\ InjectionCycle(c(4, 1))
      /\ InjectionCycle(c(4, 2))
  <2>1. Cycles("injection", 4) = DelayedPrivateEvents.cycles
    BY ScenarioTable DEF Cycles
  <2> QED BY <2>1, InjectionTable DEF InjectionCycle, Seen
<1>5. /\ InjectionCycle(c(5, 1))
  <2>1. Cycles("injection", 5) = MissingOrderEvents.cycles
    BY ScenarioTable DEF Cycles
  <2> QED BY <2>1, InjectionTable DEF InjectionCycle, Seen
<1>6. /\ InjectionCycle(c(6, 1))
  <2>1. Cycles("injection", 6) = DuplicatedFillEvents.cycles
    BY ScenarioTable DEF Cycles
  <2> QED BY <2>1, InjectionTable DEF InjectionCycle, Seen
<1>7. i \in 1 .. 6
  BY ScenarioTable
<1> QED BY <1>1, <1>2, <1>3, <1>4, <1>5, <1>6, <1>7, CycleCounts

LEMMA DisruptionTable ==
    /\ PrivateEventLoss.cycles[1].payload = "none"
    /\ PrivateEventLoss.cycles[1].gap
    /\ PrivateEventLoss.cycles[1].expected
    /\ PrivateEventLoss.cycles[1].lookups = <<"filled">>
    /\ DelayedStatusQuery.cycles[1].payload = "none"
    /\ DelayedStatusQuery.cycles[1].gap
    /\ DelayedStatusQuery.cycles[1].expected
    /\ DelayedStatusQuery.cycles[1].lookups = New3
    /\ DelayedStatusQuery.cycles[2].payload = "none"
    /\ DelayedStatusQuery.cycles[2].gap
    /\ DelayedStatusQuery.cycles[2].lookups = <<"filled">>
    /\ DuplicatedExecutionReports.cycles[1].payload = "fill_twice"
    /\ PartialFillReorder.cycles[1].payload = "partial"
    /\ PartialFillReorder.cycles[2].payload = "partial"
BY DEF PrivateEventLoss, DelayedStatusQuery, DuplicatedExecutionReports,
   PartialFillReorder, GapStep, ExpectedCycle, QuietCycle, New3

LEMMA DisruptionShapes ==
    ASSUME NEW i \in DOMAIN Scenarios["disruption"],
           NEW k \in 1 .. Len(Cycles("disruption", i))
    PROVE  DisruptionCycle(Cycles("disruption", i)[k], i = 2 /\ k = 2)
<1> DEFINE c(x, y) == Cycles("disruption", x)[y]
<1>1. /\ DisruptionCycle(c(1, 1), FALSE)
  <2>1. Cycles("disruption", 1) = PrivateEventLoss.cycles
    BY ScenarioTable DEF Cycles
  <2> QED BY <2>1, DisruptionTable DEF DisruptionCycle
<1>2. /\ DisruptionCycle(c(2, 1), FALSE)
      /\ DisruptionCycle(c(2, 2), TRUE)
  <2>1. Cycles("disruption", 2) = DelayedStatusQuery.cycles
    BY ScenarioTable DEF Cycles
  <2> QED BY <2>1, DisruptionTable DEF DisruptionCycle
<1>3. /\ DisruptionCycle(c(3, 1), FALSE)
  <2>1. Cycles("disruption", 3) = DuplicatedExecutionReports.cycles
    BY ScenarioTable DEF Cycles
  <2> QED BY <2>1, DisruptionTable DEF DisruptionCycle
<1>4. /\ DisruptionCycle(c(4, 1), FALSE)
      /\ DisruptionCycle(c(4, 2), FALSE)
  <2>1. Cycles("disruption", 4) = PartialFillReorder.cycles
    BY ScenarioTable DEF Cycles
  <2> QED BY <2>1, DisruptionTable DEF DisruptionCycle
<1>5. i \in 1 .. 4 /\ k \in 1 .. Len(Cycles("disruption", i))
  BY ScenarioTable
<1> HIDE DEF c
<1>8. PICK n : n = Len(Cycles("disruption", i))
  OBVIOUS
<1>9. /\ k \in 1 .. n
      /\ n = IF i \in {1, 3} THEN 1 ELSE 2
  BY <1>5, <1>8, CycleCounts
<1>6. CASE i = 2 /\ k = 2
  <2>1. (i = 2 /\ k = 2) = TRUE
    BY <1>6
  <2>2. DisruptionCycle(c(i, k), i = 2 /\ k = 2)
    BY <1>2, <1>6, <2>1
  <2> QED BY <2>2 DEF c
<1>7. CASE ~(i = 2 /\ k = 2)
  <2>1. (i = 2 /\ k = 2) = FALSE
    BY <1>7
  <2> SUFFICES DisruptionCycle(c(i, k), FALSE)
    BY <2>1 DEF c
  <2>2. CASE i = 1
    <3>1. k = 1
      BY <1>9, <2>2
    <3> QED BY <1>1, <2>2, <3>1
  <2>3. CASE i = 2
    <3>1. k = 1
      BY <1>7, <1>9, <2>3
    <3> QED BY <1>2, <2>3, <3>1
  <2>4. CASE i = 3
    <3>1. k = 1
      BY <1>9, <2>4
    <3> QED BY <1>3, <2>4, <3>1
  <2>5. CASE i = 4
    <3>1. k = 1 \/ k = 2
      BY <1>9, <2>5
    <3> QED BY <1>4, <2>5, <3>1
  <2>6. i = 1 \/ i = 2 \/ i = 3 \/ i = 4
    BY ScenarioTable
  <2> QED BY <2>2, <2>3, <2>4, <2>5, <2>6
<1> QED BY <1>6, <1>7

\* What a cycle converges to does not depend on the file it starts from.
LEMMA InjectionEnding ==
    ASSUME NEW c, InjectionCycle(c), NEW f, NEW m,
           NEW r, r = InjectionRecord(c, f, m)
    PROVE  r.convergence = Ending(c)
<1>1. r.convergence = IF c.payload = "none" THEN "none" ELSE Convergence(c, f)
  BY DEF InjectionRecord
<1>2. CASE Seen(c)
  <2>1. ~ Queried(c, f) /\ c.payload # "none"
    BY <1>2 DEF Queried, Seen
  <2> QED BY <1>1, <1>2, <2>1, QuietConvergence DEF Ending
<1>3. CASE c.payload = "none" /\ ~ c.gap
  BY <1>1, <1>3 DEF Ending, Seen
<1>4. CASE /\ c.payload \in {"terminated", "account"} /\ c.expected
           /\ c.lookups \in {Failed3, <<"filled">>}
  <2>1. Queried(c, f) /\ ~ Seen(c) /\ c.payload # "none"
    BY <1>4 DEF Queried, Awaited, Seen
  <2>2. CASE c.lookups = Failed3
    BY <1>1, <2>1, <2>2, FailedConvergence DEF Ending
  <2>3. CASE c.lookups = <<"filled">>
    <3>1. <<"filled">> # Failed3
      BY DEF Failed3
    <3> QED BY <1>1, <2>1, <2>3, <3>1, FilledConvergence DEF Ending
  <2> QED BY <1>4, <2>2, <2>3
<1> QED BY <1>2, <1>3, <1>4 DEF InjectionCycle

LEMMA DisruptionEnding ==
    ASSUME NEW c, NEW resumed, DisruptionCycle(c, resumed), NEW f,
           resumed => f.unresolved, NEW r, r = DisruptionRecord(c, f)
    PROVE  /\ r.convergence = Ending(c)
           /\ r.convergence # "none"
           /\ c.payload = "none" => Queried(c, f)
           /\ c.payload # "none" => ~ Queried(c, f)
<1>1. r.convergence = Convergence(c, f)
  BY DEF DisruptionRecord
<1>2. CASE c.payload \in {"fill_twice", "partial"}
  <2>1. ~ Queried(c, f) /\ Seen(c)
    BY <1>2 DEF Queried, Seen
  <2> QED BY <1>1, <1>2, <2>1, QuietConvergence DEF Ending
<1>3. CASE /\ c.payload = "none" /\ c.gap /\ (c.expected \/ resumed)
           /\ c.lookups \in {New3, <<"filled">>}
  <2>1. Queried(c, f) /\ ~ Seen(c)
    BY <1>3 DEF Queried, Awaited, Seen
  <2>2. CASE c.lookups = New3
    <3>1. New3 # Failed3 /\ New3 # <<"filled">>
      BY DEF Failed3, New3
    <3> QED BY <1>1, <1>3, <2>1, <2>2, <3>1, NewConvergence DEF Ending, New3
  <2>3. CASE c.lookups = <<"filled">>
    <3>1. <<"filled">> # Failed3
      BY DEF Failed3
    <3> QED BY <1>1, <1>3, <2>1, <2>3, <3>1, FilledConvergence DEF Ending
  <2> QED BY <1>3, <2>2, <2>3
<1> QED BY <1>2, <1>3 DEF DisruptionCycle

\* The second step of the delayed query is a resumed one.
LEMMA ResumedStep ==
    ASSUME NEW recs, Made("disruption", 2, recs), 1 \in DOMAIN recs
    PROVE  recs[1].unresolved
<1> DEFINE c == DelayedStatusQuery.cycles[1]
<1>1. /\ c.payload = "none" /\ c.expected /\ c.gap
      /\ c.lookups = <<"new", "new", "new">>
  BY DEF DelayedStatusQuery, GapStep, QuietCycle
<1>2. Cycles("disruption", 2)[1] = c
  BY ScenarioTable DEF Cycles
<1> HIDE DEF c
<1>3. PICK f \in StoreFile : recs[1] = DisruptionRecord(c, f)
  BY <1>2 DEF Made, MadeFrom, Recorded
<1> QED BY <1>1, <1>3, GapPass

\* A scenario played to its end tells the same convergences in every run.
Telling(script, i) ==
    {Ending(Cycles(script, i)[k]) : k \in 1 .. Len(Cycles(script, i))} \ {"none"}

LEMMA ConvergencesTold ==
    ASSUME NEW script \in Scripts, NEW i \in DOMAIN Scenarios[script],
           NEW recs, DOMAIN recs = 1 .. Len(Cycles(script, i)),
           Made(script, i, recs)
    PROVE  Convergences(recs) = Telling(script, i)
<1>1. ASSUME NEW k \in 1 .. Len(Cycles(script, i))
      PROVE  recs[k].convergence = Ending(Cycles(script, i)[k])
  <2>1. PICK f \in StoreFile : \E m \in BOOLEAN :
           MadeFrom(script, i, recs, k, f, m)
    BY <1>1 DEF Made
  <2>2. PICK m \in BOOLEAN : MadeFrom(script, i, recs, k, f, m)
    BY <2>1
  <2>3. CASE script = "injection"
    <3>1. recs[k] = InjectionRecord(Cycles(script, i)[k], f, m)
      BY <2>2, <2>3 DEF MadeFrom, Recorded
    <3>2. InjectionCycle(Cycles(script, i)[k])
      BY <1>1, <2>3, InjectionShapes
    <3> QED BY <3>1, <3>2, InjectionEnding
  <2>4. CASE script = "disruption"
    <3>1. recs[k] = DisruptionRecord(Cycles(script, i)[k], f)
      BY <2>2, <2>4 DEF MadeFrom, Recorded
    <3>2. DisruptionCycle(Cycles(script, i)[k], i = 2 /\ k = 2)
      BY <1>1, <2>4, DisruptionShapes
    <3>3. ASSUME i = 2 /\ k = 2 PROVE f.unresolved
      <4>1. 1 \in DOMAIN recs
        BY <3>3, <2>4, CycleCounts
      <4>2. recs[1].unresolved
        BY <2>4, <3>3, <4>1, ResumedStep
      <4>3. f.unresolved = recs[1].unresolved
        BY <2>2, <2>4, <3>3 DEF MadeFrom
      <4> QED BY <4>2, <4>3
    <3> QED BY <3>1, <3>2, <3>3, DisruptionEnding
  <2> QED BY <2>3, <2>4 DEF Scripts
<1>2. ToSet(recs) = {recs[k] : k \in 1 .. Len(Cycles(script, i))}
  BY DEF ToSet
<1> QED BY <1>1, <1>2 DEF Convergences, Telling

-----------------------------------------------------------------------------
(* Repeated summaries: the attempts a directory keeps.                     *)

\* The attempts a disruption registers in every run, the first one to reach
\* the store: later runs find them there.
Registering(i) ==
    IF i = 1 THEN {[print |-> <<1, "filled">>, number |-> 1]}
    ELSE IF i = 2 THEN {[print |-> <<1, "new">>, number |-> 1],
                        [print |-> <<2, "filled">>, number |-> 2]}
    ELSE {}

Kept(i, n) == {a \in Registering(i) : a.number <= n}

\* How many steps of the running disruption have registered their answers.
Registered == Len(records) + (IF phase = "persist" THEN 1 ELSE 0)

AttemptsInv ==
    \A i \in 1 .. 4 : \E n \in 0 .. 2 :
       /\ file[<<"disruption", i>>].attempts = Kept(i, n)
       /\ phase # "idle" /\ kind = "disruption" /\ Head(todo) = i =>
             n >= Registered

\* What a summary tells, of a run that was not the first.
SummariesInv ==
    \A script \in Scripts : \A i \in DOMAIN Scenarios[script] :
       summary[<<script, i>>] # NoSummary =>
          /\ summary[<<script, i>>].convergences = Telling(script, i)
          /\ summary[<<script, i>>].attempts =
                IF script = "injection" THEN 0
                ELSE Cardinality(Registering(i))

LEMMA KeptSets ==
    /\ Kept(1, 0) = {}
    /\ \A n \in 1 .. 2 :
          Kept(1, n) = {[print |-> <<1, "filled">>, number |-> 1]}
    /\ Kept(2, 0) = {}
    /\ Kept(2, 1) = {[print |-> <<1, "new">>, number |-> 1]}
    /\ Kept(2, 2) = {[print |-> <<1, "new">>, number |-> 1],
                     [print |-> <<2, "filled">>, number |-> 2]}
    /\ \A n \in 0 .. 2 : Kept(3, n) = {} /\ Kept(4, n) = {}
BY DEF Kept, Registering

LEMMA CompleteSets ==
    /\ \A n \in 1 .. 2 : Kept(1, n) = Registering(1)
    /\ Kept(2, 2) = Registering(2)
    /\ \A n \in 0 .. 2 : Kept(3, n) = Registering(3)
                         /\ Kept(4, n) = Registering(4)
BY DEF Kept, Registering

\* What is registered for one answer, or for none.
LEMMA NoNewAttempts ==
    ASSUME NEW f, NEW cursor, NEW answers, ToSet(answers) = {}
    PROVE  NewAttempts(f, cursor, answers) = {}
BY DEF NewAttempts, Fingerprints

LEMMA OneNewAttempt ==
    ASSUME NEW f, NEW cursor, NEW answers, NEW r, ToSet(answers) = {r}
    PROVE  /\ (\E a \in f.attempts : a.print = <<cursor, r>>) =>
                 NewAttempts(f, cursor, answers) = {}
           /\ (\A a \in f.attempts : a.print # <<cursor, r>>) =>
                 NewAttempts(f, cursor, answers) =
                    {[print |-> <<cursor, r>>,
                      number |-> Cardinality(f.attempts) + 1]}
<1>1. Fingerprints(cursor, answers) = {<<cursor, r>>}
  BY DEF Fingerprints
<1>2. ASSUME \E a \in f.attempts : a.print = <<cursor, r>>
      PROVE  Fingerprints(cursor, answers) \ {a.print : a \in f.attempts} = {}
  BY <1>1, <1>2
<1>3. ASSUME \A a \in f.attempts : a.print # <<cursor, r>>
      PROVE  Fingerprints(cursor, answers) \ {a.print : a \in f.attempts}
                = {<<cursor, r>>}
  BY <1>1, <1>3
<1> QED BY <1>2, <1>3 DEF NewAttempts

\* The answers of one pass of a disruption.
LEMMA SingleAnswers ==
    ASSUME NEW c, NEW f
    PROVE  /\ ~ Queried(c, f) => ToSet(Answers(c, f)) = {}
           /\ Queried(c, f) /\ c.lookups = <<"filled">> =>
                 ToSet(Answers(c, f)) = {"filled"}
           /\ Queried(c, f) /\ c.lookups = New3 =>
                 ToSet(Answers(c, f)) = {"new"}
<1>1. CASE ~ Queried(c, f)
  BY <1>1, QuietConvergence DEF ToSet
<1>2. CASE Queried(c, f)
  <2>1. /\ DOMAIN Answers(c, f) = 1 .. Rounds(c)
        /\ \A i \in 1 .. Rounds(c) : Answers(c, f)[i] = Scripted(c)[i]
    BY <1>2, AnswersGiven
  <2>2. ASSUME c.lookups = <<"filled">>
        PROVE  ToSet(Answers(c, f)) = {"filled"}
    <3>1. Scripted(c)[1] = "filled" /\ Rounds(c) = 1
      BY <2>2, ScriptedRounds, RoundsTaken
    <3>2. DOMAIN Answers(c, f) = {1} /\ Answers(c, f)[1] = "filled"
      BY <2>1, <3>1
    <3> QED BY <3>2 DEF ToSet
  <2>3. ASSUME c.lookups = New3
        PROVE  ToSet(Answers(c, f)) = {"new"}
    <3>1. \A i \in 1 .. 3 : Scripted(c)[i] = "new"
      BY <2>3, ScriptedRounds DEF New3
    <3>2. Rounds(c) = 3
      BY <3>1, RoundsTaken
    <3>3. /\ DOMAIN Answers(c, f) = 1 .. 3
          /\ \A i \in 1 .. 3 : Answers(c, f)[i] = "new"
      BY <2>1, <3>1, <3>2
    <3>4. 1 \in 1 .. 3
      OBVIOUS
    <3> QED BY <3>3, <3>4 DEF ToSet
  <2> QED BY <1>2, <2>2, <2>3
<1> QED BY <1>1, <1>2

\* A directory that keeps what n steps registered keeps what step k does too.
LEMMA AttemptsRegistered ==
    ASSUME NEW i \in 1 .. 4, NEW k \in 1 .. Len(Cycles("disruption", i)),
           NEW f, NEW n \in 0 .. 2, f.attempts = Kept(i, n), n >= k - 1,
           i = 2 /\ k = 2 => f.unresolved,
           NEW new,
           new = NewAttempts(f, k, Answers(Cycles("disruption", i)[k], f))
    PROVE  \E m \in 0 .. 2 : m >= k /\ f.attempts \cup new = Kept(i, m)
<1> DEFINE c == Cycles("disruption", i)[k]
           answers == Answers(c, f)
<1>1. i \in DOMAIN Scenarios["disruption"]
  BY ScenarioTable
<1>2. DisruptionCycle(c, i = 2 /\ k = 2)
  BY <1>1, DisruptionShapes
<1>3. /\ c.payload = "none" => Queried(c, f)
      /\ c.payload # "none" => ~ Queried(c, f)
  <2>1. PICK r : r = DisruptionRecord(c, f)
    OBVIOUS
  <2> QED BY <1>2, <2>1, DisruptionEnding
<1>4. new = NewAttempts(f, k, answers)
  OBVIOUS
<1>5. CASE i = 1
  <2>1. k = 1
    BY <1>5, CycleCounts
  <2>2. c.payload = "none" /\ c.lookups = <<"filled">>
    BY <1>5, <2>1, ScenarioTable, DisruptionTable DEF Cycles
  <2> HIDE DEF c
  <2>3. ToSet(answers) = {"filled"}
    BY <1>3, <2>2, SingleAnswers
  <2> HIDE DEF answers
  <2>4. CASE n = 0
    <3>1. f.attempts = {}
      BY <1>5, <2>4, KeptSets
    <3>2. Cardinality(f.attempts) + 1 = 1
      BY <3>1, FS_EmptySet
    <3>3. new = {[print |-> <<1, "filled">>, number |-> 1]}
      <4>1. \A a \in f.attempts : a.print # <<k, "filled">>
        BY <3>1
      <4>2. NewAttempts(f, k, answers) =
               {[print |-> <<k, "filled">>,
                 number |-> Cardinality(f.attempts) + 1]}
        BY <2>3, <4>1, OneNewAttempt
      <4> QED BY <1>4, <2>1, <3>2, <4>2
    <3>4. f.attempts \cup new = Kept(1, 1)
      <4>1. 1 \in 1 .. 2
        OBVIOUS
      <4>2. Kept(1, 1) = {[print |-> <<1, "filled">>, number |-> 1]}
        BY <4>1, KeptSets
      <4> QED BY <3>1, <3>3, <4>2
    <3> QED BY <1>5, <2>1, <3>4
  <2>5. CASE n \in 1 .. 2
    <3>1. f.attempts = {[print |-> <<1, "filled">>, number |-> 1]}
      BY <1>5, <2>5, KeptSets
    <3>2. \E a \in f.attempts : a.print = <<1, "filled">>
      BY <3>1
    <3>3. new = {}
      BY <1>4, <2>1, <2>3, <3>2, OneNewAttempt
    <3>4. f.attempts \cup new = Kept(i, n) /\ n >= k
      BY <2>1, <2>5, <3>3
    <3> QED BY <3>4
  <2> QED BY <2>4, <2>5
<1>6. CASE i = 2 /\ k = 1
  <2>1. c.payload = "none" /\ c.lookups = New3
    BY <1>6, ScenarioTable, DisruptionTable DEF Cycles
  <2> HIDE DEF c
  <2>2. ToSet(answers) = {"new"}
    BY <1>3, <2>1, SingleAnswers
  <2> HIDE DEF answers
  <2>3. CASE n = 0
    <3>1. f.attempts = {}
      BY <1>6, <2>3, KeptSets
    <3>2. Cardinality(f.attempts) + 1 = 1
      BY <3>1, FS_EmptySet
    <3>3. new = {[print |-> <<1, "new">>, number |-> 1]}
      <4>1. \A a \in f.attempts : a.print # <<k, "new">>
        BY <3>1
      <4>2. NewAttempts(f, k, answers) =
               {[print |-> <<k, "new">>,
                 number |-> Cardinality(f.attempts) + 1]}
        BY <2>2, <4>1, OneNewAttempt
      <4> QED BY <1>4, <1>6, <3>2, <4>2
    <3>4. f.attempts \cup new = Kept(2, 1)
      BY <3>1, <3>3, KeptSets
    <3> QED BY <1>6, <3>4
  <2>4. CASE n \in 1 .. 2
    <3>1. [print |-> <<1, "new">>, number |-> 1] \in f.attempts
      <4>1. CASE n = 1
        BY <1>6, <4>1, KeptSets
      <4>2. CASE n = 2
        BY <1>6, <4>2, KeptSets
      <4> QED BY <2>4, <4>1, <4>2
    <3>2. \E a \in f.attempts : a.print = <<1, "new">>
      BY <3>1
    <3>3. new = {}
      BY <1>4, <1>6, <2>2, <3>2, OneNewAttempt
    <3>4. f.attempts \cup new = Kept(i, n) /\ n >= k
      BY <1>6, <2>4, <3>3
    <3> QED BY <3>4
  <2> QED BY <2>3, <2>4
<1>7. CASE i = 2 /\ k = 2
  <2>1. c.payload = "none" /\ c.lookups = <<"filled">>
    BY <1>7, ScenarioTable, DisruptionTable DEF Cycles
  <2> HIDE DEF c
  <2>2. ToSet(answers) = {"filled"}
    BY <1>3, <2>1, SingleAnswers
  <2> HIDE DEF answers
  <2>3. CASE n = 1
    <3>1. f.attempts = {[print |-> <<1, "new">>, number |-> 1]}
      BY <1>7, <2>3, KeptSets
    <3>2. Cardinality(f.attempts) + 1 = 2
      <4>1. Cardinality(f.attempts) = 1
        BY <3>1, FS_Singleton
      <4> QED BY <4>1
    <3>3. \A a \in f.attempts : a.print # <<2, "filled">>
      BY <3>1
    <3>4. new = {[print |-> <<2, "filled">>, number |-> 2]}
      BY <1>4, <1>7, <2>2, <3>2, <3>3, OneNewAttempt
    <3>5. f.attempts \cup new = Kept(2, 2)
      BY <3>1, <3>4, KeptSets
    <3> QED BY <1>7, <3>5
  <2>4. CASE n = 2
    <3>1. [print |-> <<2, "filled">>, number |-> 2] \in f.attempts
      BY <1>7, <2>4, KeptSets
    <3>2. \E a \in f.attempts : a.print = <<2, "filled">>
      BY <3>1
    <3>3. new = {}
      BY <1>4, <1>7, <2>2, <3>2, OneNewAttempt
    <3>4. f.attempts \cup new = Kept(i, n) /\ n >= k
      BY <1>7, <2>4, <3>3
    <3> QED BY <3>4
  <2> QED BY <1>7, <2>3, <2>4
<1>8. CASE i \in {3, 4}
  <2>1. c.payload # "none" /\ k <= 2
    <3>1. CASE i = 3
      <4>1. k = 1
        BY <3>1, CycleCounts
      <4> QED BY <3>1, <4>1, ScenarioTable, DisruptionTable DEF Cycles
    <3>2. CASE i = 4
      <4>1. k = 1 \/ k = 2
        BY <3>2, CycleCounts
      <4> QED BY <3>2, <4>1, ScenarioTable, DisruptionTable DEF Cycles
    <3> QED BY <1>8, <3>1, <3>2
  <2> HIDE DEF c
  <2>2. ToSet(answers) = {}
    BY <1>3, <2>1, SingleAnswers
  <2> HIDE DEF answers
  <2>3. new = {}
    BY <1>4, <2>2, NoNewAttempts
  <2>4. f.attempts \cup new = Kept(i, 2)
    BY <1>8, <2>3, KeptSets
  <2> QED BY <2>1, <2>4
<1>9. i = 2 => k \in 1 .. 2
  BY CycleCounts
<1> QED BY <1>5, <1>6, <1>7, <1>8, <1>9

\* A step that registers nothing, in the same scenario or in a new one.
LEMMA AttemptsStay ==
    ASSUME AttemptsInv,
           \A d \in Directories : file'[d].attempts = file[d].attempts,
           phase' # "idle" /\ kind' = "disruption" =>
              \/ Registered' = 0
              \/ /\ phase # "idle" /\ kind = "disruption"
                 /\ Head(todo') = Head(todo) /\ Registered' = Registered
    PROVE  AttemptsInv'
<1> SUFFICES ASSUME NEW i \in 1 .. 4
             PROVE  \E n \in 0 .. 2 :
                       /\ file'[<<"disruption", i>>].attempts = Kept(i, n)
                       /\ phase' # "idle" /\ kind' = "disruption"
                             /\ Head(todo') = i => n >= Registered'
  BY DEF AttemptsInv
<1>1. <<"disruption", i>> \in Directories
  BY ScenarioTable DEF Directories, Scripts
<1>2. PICK n \in 0 .. 2 :
         /\ file[<<"disruption", i>>].attempts = Kept(i, n)
         /\ phase # "idle" /\ kind = "disruption" /\ Head(todo) = i =>
               n >= Registered
  BY DEF AttemptsInv
<1>3. file'[<<"disruption", i>>].attempts = Kept(i, n)
  BY <1>1, <1>2
<1>4. phase' # "idle" /\ kind' = "disruption" /\ Head(todo') = i =>
        n >= Registered'
  BY <1>2
<1> QED BY <1>3, <1>4

LEMMA RegisterKeeps ==
    ASSUME TypeInv, RecordsInv, AttemptsInv, RegisterLookups
    PROVE  AttemptsInv'
<1> DEFINE fresh == NewAttempts(file[Here], Cursor, Answers(Cycle, file[Here]))
<1>1. /\ phase = "register" /\ phase' = "persist"
      /\ file' = [file EXCEPT ![Here] =
                     [file[Here] EXCEPT !.attempts = @ \cup fresh]]
      /\ UNCHANGED <<kind, todo, records>>
  BY DEF RegisterLookups
<1>2. /\ kind \in Scripts /\ Head(todo) \in DOMAIN Scenarios[kind]
      /\ Here \in Directories /\ Here = <<kind, Head(todo)>>
      /\ Scenario.cycles = Cycles(kind, Head(todo))
      /\ Len(records) \in Nat /\ Len(Cycles(kind, Head(todo))) \in 1 .. 3
      /\ DOMAIN records = 1 .. Len(records)
      /\ file[Here] \in StoreFile
  BY <1>1, HereKnown
<1>3. Len(records) < Len(Cycles(kind, Head(todo)))
  BY <1>1 DEF RecordsInv
<1>4. file \in [Directories -> StoreFile]
  BY DEF TypeInv, TypeOK
<1>5. file'[Here].attempts = file[Here].attempts \cup fresh
  BY <1>1, <1>2, <1>4 DEF StoreFile
<1>6. \A d \in Directories : d # Here => file'[d] = file[d]
  BY <1>1, <1>2, <1>4
<1>7. PICK k : k = Len(records) + 1
  OBVIOUS
<1>8. k \in 1 .. Len(Cycles(kind, Head(todo))) /\ k - 1 = Len(records)
  <2>1. PICK a, b : a = Len(records) /\ b = Len(Cycles(kind, Head(todo)))
    OBVIOUS
  <2>2. a \in Nat /\ b \in 1 .. 3 /\ a < b /\ k = a + 1
    BY <1>2, <1>3, <1>7, <2>1
  <2>3. k \in 1 .. b /\ k - 1 = a
    BY <2>2
  <2> QED BY <2>1, <2>3
<1>9. Cycle = Cycles(kind, Head(todo))[k]
  BY <1>2, <1>7 DEF Cycle
<1>10. Registered = k - 1 /\ Registered' = k
  BY <1>1, <1>2, <1>7, <1>8 DEF Registered
<1> SUFFICES ASSUME NEW i \in 1 .. 4
             PROVE  \E n \in 0 .. 2 :
                       /\ file'[<<"disruption", i>>].attempts = Kept(i, n)
                       /\ phase' # "idle" /\ kind' = "disruption"
                             /\ Head(todo') = i => n >= Registered'
  BY DEF AttemptsInv
<1>11. <<"disruption", i>> \in Directories
  BY ScenarioTable DEF Directories, Scripts
<1>12. PICK n \in 0 .. 2 :
         /\ file[<<"disruption", i>>].attempts = Kept(i, n)
         /\ phase # "idle" /\ kind = "disruption" /\ Head(todo) = i =>
               n >= Registered
  BY DEF AttemptsInv
<1>13. CASE <<"disruption", i>> # Here
  <2>1. ~(kind = "disruption" /\ Head(todo) = i)
    BY <1>2, <1>13
  <2>2. file'[<<"disruption", i>>] = file[<<"disruption", i>>]
    BY <1>6, <1>11, <1>13
  <2> QED BY <1>1, <1>12, <2>1, <2>2
<1>14. CASE <<"disruption", i>> = Here
  <2>1. kind = "disruption" /\ Head(todo) = i
    BY <1>2, <1>14
  <2>2. PICK f : f = file[Here]
    OBVIOUS
  <2>3. f.attempts = Kept(i, n) /\ n >= k - 1
    BY <1>1, <1>10, <1>12, <1>14, <2>1, <2>2
  <2>4. ASSUME i = 2 /\ k = 2 PROVE f.unresolved
    <3>1. Made("disruption", 2, records) /\ Len(records) = 1
      BY <1>1, <1>8, <2>1, <2>4 DEF RecordsInv
    <3>2. 1 \in DOMAIN records
      BY <1>2, <3>1
    <3>3. records[1].unresolved
      BY <3>1, <3>2, ResumedStep
    <3>4. f.unresolved = records[1].unresolved
      BY <1>1, <2>1, <2>2, <3>1 DEF RecordsInv
    <3> QED BY <3>3, <3>4
  <2>5. Cursor = k
    BY <1>7, <2>1 DEF Cursor
  <2>6. fresh = NewAttempts(f, k, Answers(Cycles("disruption", i)[k], f))
    BY <1>9, <2>1, <2>2, <2>5
  <2> HIDE DEF fresh
  <2>7. k \in 1 .. Len(Cycles("disruption", i))
    BY <1>8, <2>1
  <2>8. PICK m \in 0 .. 2 : m >= k /\ f.attempts \cup fresh = Kept(i, m)
    BY <2>3, <2>4, <2>6, <2>7, AttemptsRegistered
  <2>9. file'[<<"disruption", i>>].attempts = Kept(i, m)
    BY <1>5, <1>14, <2>2, <2>8
  <2> QED BY <1>10, <2>8, <2>9
<1> QED BY <1>13, <1>14

-----------------------------------------------------------------------------
(* Repeated summaries: the steps and the theorem.                          *)

LEMMA AttemptsStart == Init => AttemptsInv
<1> SUFFICES ASSUME Init, NEW i \in 1 .. 4
             PROVE  \E n \in 0 .. 2 :
                       /\ file[<<"disruption", i>>].attempts = Kept(i, n)
                       /\ phase # "idle" /\ kind = "disruption"
                             /\ Head(todo) = i => n >= Registered
  BY DEF AttemptsInv
<1>1. <<"disruption", i>> \in Directories
  BY ScenarioTable DEF Directories, Scripts
<1>2. file[<<"disruption", i>>].attempts = {} /\ phase = "idle"
  BY <1>1 DEF Init, EmptyFile
<1>3. Kept(i, 0) = {}
  BY KeptSets
<1> QED BY <1>2, <1>3

LEMMA AttemptsStep ==
    TypeInv /\ RecordsInv /\ AttemptsInv /\ [Next]_vars => AttemptsInv'
<1> SUFFICES ASSUME TypeInv, RecordsInv, AttemptsInv, [Next]_vars
             PROVE  AttemptsInv'
  OBVIOUS
<1>1. ASSUME NEW script \in Scripts, NEW requested \in Requests[script],
             StartCampaign(script, requested)
      PROVE  AttemptsInv'
  <2>1. records' = <<>> /\ phase' = "cycle" /\ file' = file
    BY <1>1 DEF StartCampaign, disk
  <2>2. Registered' = 0
    BY <2>1 DEF Registered
  <2> QED BY <2>1, <2>2, AttemptsStay
<1>2. CASE QuietPass
  <2>1. kind' = "injection" /\ file' = file
    BY <1>2 DEF QuietPass, disk
  <2> QED BY <2>1, AttemptsStay
<1>3. CASE StartPass
  <2>1. /\ UNCHANGED <<file, records, todo, kind>> /\ phase = "cycle"
        /\ phase' \in {"idle", "register"}
    BY <1>3 DEF StartPass, disk
  <2>2. Registered' = Registered
    BY <2>1 DEF Registered
  <2> QED BY <2>1, <2>2, AttemptsStay
<1>4. CASE RegisterLookups
  BY <1>4, RegisterKeeps
<1>5. CASE PersistOfGate \/ PersistOfService
  <2>1. /\ phase = "persist" /\ UNCHANGED <<kind, todo>>
        /\ file' = [file EXCEPT ![Here] = Persisted(Cycle, file[Here])]
    BY <1>5 DEF PersistOfGate, PersistOfService
  <2>2. \A d \in Directories : file'[d].attempts = file[d].attempts
    <3>1. file[Here] \in StoreFile /\ Here \in Directories
      BY <2>1, HereKnown
    <3>2. Persisted(Cycle, file[Here]).attempts = file[Here].attempts
      BY <3>1, StoreWrites
    <3>3. file \in [Directories -> StoreFile]
      BY DEF TypeInv, TypeOK
    <3> QED BY <2>1, <3>1, <3>2, <3>3
  <2>3. kind' = "disruption" => Registered' = Registered
    <3>1. SUFFICES ASSUME kind' = "disruption" PROVE Registered' = Registered
      OBVIOUS
    <3>2. PersistOfService
      BY <1>5, <2>1, <3>1 DEF PersistOfGate
    <3>3. PICK rec : rec = DisruptionRecord(Cycle, file[Here])
      OBVIOUS
    <3>4. records' = Append(records, rec) /\ phase' = "log"
      BY <3>2, <3>3 DEF PersistOfService
    <3>5. Len(records') = Len(records) + 1 /\ Len(records) \in Nat
      BY <3>4, AppendedRecord DEF TypeInv
    <3> QED BY <2>1, <3>4, <3>5 DEF Registered
  <2> QED BY <2>1, <2>2, <2>3, AttemptsStay
<1>6. CASE LogWorkflow \/ EndScenario \/ WriteRecords
  <2>1. /\ UNCHANGED <<file, records, todo, kind>>
        /\ phase \notin {"idle", "persist"} /\ phase' # "persist"
    BY <1>6 DEF LogWorkflow, EndScenario, WriteRecords, disk
  <2>2. Registered' = Registered
    BY <2>1 DEF Registered
  <2> QED BY <2>1, <2>2, AttemptsStay
<1>7. CASE WriteSummary
  <2>1. /\ file' = file /\ records' = <<>>
        /\ phase' = IF Tail(todo) = <<>> THEN "idle" ELSE "cycle"
    BY <1>7 DEF WriteSummary
  <2>2. Registered' = 0
    BY <2>1 DEF Registered
  <2> QED BY <2>1, <2>2, AttemptsStay
<1>8. CASE Kill
  <2>1. /\ phase # "idle" /\ phase' = "idle"
        /\ file' = file \/ file' = [file EXCEPT ![Here].torn = TRUE]
    BY <1>8 DEF Kill, disk
  <2>2. \A d \in Directories : file'[d].attempts = file[d].attempts
    <3>1. file \in [Directories -> StoreFile]
      BY DEF TypeInv, TypeOK
    <3>2. CASE file' = [file EXCEPT ![Here].torn = TRUE]
      BY <3>1, <3>2 DEF StoreFile
    <3> QED BY <2>1, <3>2
  <2> QED BY <2>1, <2>2, AttemptsStay
<1>9. CASE UNCHANGED vars
  <2>1. UNCHANGED <<file, records, todo, kind, phase>>
    BY <1>9 DEF vars
  <2>2. Registered' = Registered
    BY <2>1 DEF Registered
  <2> QED BY <2>1, <2>2, AttemptsStay
<1> QED BY <1>1, <1>2, <1>3, <1>4, <1>5, <1>6, <1>7, <1>8, <1>9 DEF Next

\* The summary of a run tells what the summary of every run tells.
LEMMA SummaryTold ==
    ASSUME TypeInv, RecordsInv, AttemptsInv, phase = "write_summary"
    PROVE  LET told == Summary(kind, Scenario, records, file[Here])
           IN  /\ told.convergences = Telling(kind, Head(todo))
               /\ told.attempts = IF kind = "injection" THEN 0
                                  ELSE Cardinality(Registering(Head(todo)))
<1>1. /\ kind \in Scripts /\ Head(todo) \in DOMAIN Scenarios[kind]
      /\ Here = <<kind, Head(todo)>>
      /\ Len(records) \in Nat /\ DOMAIN records = 1 .. Len(records)
  BY HereKnown
<1>2. /\ Made(kind, Head(todo), records)
      /\ Len(records) = Len(Cycles(kind, Head(todo)))
  BY DEF RecordsInv
<1>3. Convergences(records) = Telling(kind, Head(todo))
  BY <1>1, <1>2, ConvergencesTold
<1>4. ASSUME kind = "disruption"
      PROVE  file[Here].attempts = Registering(Head(todo))
  <2>1. PICK i : i = Head(todo)
    OBVIOUS
  <2>2. i \in 1 .. 4
    BY <1>1, <1>4, <2>1, ScenarioTable
  <2>3. PICK n \in 0 .. 2 :
           file[<<"disruption", i>>].attempts = Kept(i, n) /\ n >= Registered
    BY <1>4, <2>1, <2>2 DEF AttemptsInv
  <2>4. Registered = Len(Cycles("disruption", i))
    BY <1>1, <1>2, <1>4, <2>1 DEF Registered
  <2>5. Kept(i, n) = Registering(i)
    <3>1. CASE i = 1
      <4>1. n \in 0 .. 2 /\ n >= 1
        BY <2>3, <2>4, <3>1, CycleCounts
      <4>2. n \in 1 .. 2
        BY <4>1
      <4> QED BY <3>1, <4>2, CompleteSets
    <3>2. CASE i = 2
      <4>0. n \in 0 .. 2 /\ n >= 2
        BY <2>3, <2>4, <3>2, CycleCounts
      <4>1. n = 2
        BY <4>0
      <4> QED BY <3>2, <4>1, CompleteSets
    <3>3. CASE i \in {3, 4}
      BY <3>3, CompleteSets
    <3> QED BY <2>2, <3>1, <3>2, <3>3
  <2> QED BY <1>1, <1>4, <2>1, <2>3, <2>5
<1> QED BY <1>1, <1>3, <1>4 DEF Summary, Scripts

LEMMA SummariesStep ==
    ASSUME TypeInv, RecordsInv, AttemptsInv, SummariesInv, [Next]_vars
    PROVE  SummariesInv'
<1>1. CASE summary' = summary
  BY <1>1 DEF SummariesInv
<1>2. CASE WriteSummary
  <2>1. PICK told : told = Summary(kind, Scenario, records, file[Here])
    OBVIOUS
  <2>2. phase = "write_summary" /\ summary' = [summary EXCEPT ![Here] = told]
    BY <1>2, <2>1 DEF WriteSummary
  <2>3. /\ told.convergences = Telling(kind, Head(todo))
        /\ told.attempts = IF kind = "injection" THEN 0
                           ELSE Cardinality(Registering(Head(todo)))
    BY <2>1, <2>2, SummaryTold
  <2>4. Here = <<kind, Head(todo)>> /\ Here \in Directories
    BY <2>2, HereKnown
  <2>5. summary = [d \in Directories |-> summary[d]]
    BY DEF TypeInv
  <2> SUFFICES ASSUME NEW script \in Scripts, NEW i \in DOMAIN Scenarios[script],
                      summary'[<<script, i>>] # NoSummary
               PROVE  /\ summary'[<<script, i>>].convergences
                            = Telling(script, i)
                      /\ summary'[<<script, i>>].attempts =
                            IF script = "injection" THEN 0
                            ELSE Cardinality(Registering(i))
    BY DEF SummariesInv
  <2>6. <<script, i>> \in Directories
    BY DEF Directories
  <2>7. CASE <<script, i>> = Here
    <3>1. script = kind /\ i = Head(todo)
      BY <2>4, <2>7
    <3>2. summary'[<<script, i>>] = told
      BY <2>2, <2>5, <2>6, <2>7
    <3> QED BY <2>3, <3>1, <3>2
  <2>8. CASE <<script, i>> # Here
    <3>1. summary'[<<script, i>>] = summary[<<script, i>>]
      BY <2>2, <2>5, <2>6, <2>8
    <3> QED BY <3>1 DEF SummariesInv
  <2> QED BY <2>7, <2>8
<1>3. CASE Kill
  <2>1. \A d \in Directories :
           summary'[d] = summary[d] \/ summary'[d] = NoSummary
    BY <1>3, KillStep
  <2>2. \A script \in Scripts : \A i \in DOMAIN Scenarios[script] :
           <<script, i>> \in Directories
    BY DEF Directories
  <2> QED BY <2>1, <2>2 DEF SummariesInv
<1>4. Next => summary' = summary \/ WriteSummary \/ Kill
  BY DEF Next, StartCampaign, QuietPass, StartPass, RegisterLookups,
     PersistOfGate, PersistOfService, LogWorkflow, EndScenario, WriteRecords,
     disk
<1> QED BY <1>1, <1>2, <1>3, <1>4 DEF vars

RepeatInv == CampaignInv /\ AttemptsInv /\ SummariesInv

LEMMA RepeatStart == Init => RepeatInv
<1>1. Init => SummariesInv
  BY DEF Init, SummariesInv, Directories
<1> QED BY <1>1, CampaignStart, AttemptsStart DEF RepeatInv

LEMMA RepeatStep == RepeatInv /\ [Next]_vars => RepeatInv'
BY CampaignStep, AttemptsStep, SummariesStep DEF RepeatInv, CampaignInv

\* A run of a scenario that a run before has completed tells the same
\* convergences and counts the same attempts, wherever the runs between were
\* killed: what is in the directory is recognised by its fingerprints and
\* never registered twice (register_lookup_results, _build_summary).
THEOREM SummariesRepeat == Spec => SummaryIsRepeatable
<1>1. RepeatInv /\ RepeatInv' =>
        [\A d \in Directories :
            summary[d] # NoSummary /\ summary'[d] # NoSummary =>
               /\ summary'[d].convergences = summary[d].convergences
               /\ summary'[d].attempts = summary[d].attempts]_vars
  <2> SUFFICES ASSUME RepeatInv, RepeatInv', NEW d \in Directories,
                      summary[d] # NoSummary, summary'[d] # NoSummary
               PROVE  /\ summary'[d].convergences = summary[d].convergences
                      /\ summary'[d].attempts = summary[d].attempts
    OBVIOUS
  <2>1. PICK script \in Scripts : \E i \in DOMAIN Scenarios[script] :
           d = <<script, i>>
    BY DEF Directories
  <2>2. PICK i \in DOMAIN Scenarios[script] : d = <<script, i>>
    BY <2>1
  <2> QED BY <2>2 DEF RepeatInv, SummariesInv
<1> QED BY <1>1, RepeatStart, RepeatStep, PTL DEF Spec, SummaryIsRepeatable
=============================================================================
