--------------------------- MODULE SoakLoopProofs ---------------------------
(***************************************************************************)
(* Theorems about SoakLoop, for every campaign, every limit and interval,  *)
(* and everything a cycle may be given and a pass may return.              *)
(***************************************************************************)
EXTENDS SoakLoop, FiniteSetTheorems, SequenceTheorems, WellFoundedInduction,
        TLAPS

-----------------------------------------------------------------------------
(* Sums and counts over a sequence, by the length of the sequence.         *)

\* A nonempty set of naturals has a least element.
LEMMA LeastElement ==
    ASSUME NEW S \in SUBSET Nat, S # {}
    PROVE  \E n \in S : \A m \in S : n <= m
<1> DEFINE R == OpToRel(<, Nat)
<1>1. \A x, y \in Nat : x < y => <<x, y>> \in R
  BY Zenon DEF OpToRel
<1>2. PICK n \in S : \A m \in S : ~ (<<m, n>> \in R)
  <2>1. IsWellFoundedOn(R, Nat)
    BY NatLessThanWellFounded, Zenon
  <2> HIDE DEF R
  <2> QED BY <2>1, WFMin, Zenon
<1>3. \A m \in S : ~ (m < n)
  BY <1>1, <1>2
<1> QED BY <1>3

\* The partial sums of a sequence.
ArePartialSums(sum, seq) ==
    /\ DOMAIN sum = 0 .. Len(seq)
    /\ sum = [n \in 0 .. Len(seq) |->
                 IF n = 0 THEN 0 ELSE sum[n - 1] + seq[n]]

\* There are partial sums up to any length: a shortest prefix without them
\* would be one longer than a prefix that has them.
LEMMA PartialSumsExist ==
    ASSUME NEW seq \in Seq(Nat)
    PROVE  \E sum \in [0 .. Len(seq) -> Nat] : ArePartialSums(sum, seq)
<1> DEFINE Sums(k, sum) ==
              \A n \in 0 .. k :
                  sum[n] = IF n = 0 THEN 0 ELSE sum[n - 1] + seq[n]
           Lacking == {k \in 0 .. Len(seq) :
                          ~ \E sum \in [0 .. k -> Nat] : Sums(k, sum)}
<1>1. Len(seq) \in Nat /\ \A n \in 1 .. Len(seq) : seq[n] \in Nat
  BY LenProperties, ElementOfSeq
<1>2. Lacking = {}
  <2>1. SUFFICES ASSUME Lacking # {} PROVE FALSE
    OBVIOUS
  <2>2. Lacking \in SUBSET Nat
    BY <1>1
  <2>3. PICK k \in Lacking : \A m \in Lacking : k <= m
    <3> HIDE DEF Lacking
    <3> QED BY <2>1, <2>2, LeastElement
  <2>4. k # 0
    <3>1. SUFFICES ASSUME k = 0 PROVE FALSE
      OBVIOUS
    <3>2. [n \in 0 .. 0 |-> 0] \in [0 .. k -> Nat]
      BY <3>1
    <3>3. Sums(k, [n \in 0 .. 0 |-> 0])
      BY <3>1
    <3> QED BY <3>2, <3>3
  <2>5. k \in Nat /\ k - 1 \in 0 .. Len(seq) /\ ~ (k <= k - 1)
    BY <2>4, <1>1
  <2>6. PICK s \in [0 .. k - 1 -> Nat] : Sums(k - 1, s)
    BY <2>3, <2>5
  <2> DEFINE t == [n \in 0 .. k |-> IF n = k THEN s[k - 1] + seq[k] ELSE s[n]]
  <2>7. t \in [0 .. k -> Nat]
    BY <2>4, <2>5, <1>1
  <2>8. Sums(k, t)
    <3>1. SUFFICES ASSUME NEW n \in 0 .. k
                   PROVE  t[n] = IF n = 0 THEN 0 ELSE t[n - 1] + seq[n]
      OBVIOUS
    <3>2. CASE n = k
      <4>1. t[n] = s[k - 1] + seq[k] /\ t[n - 1] = s[k - 1]
        BY <3>2, <2>4, <2>5
      <4> HIDE DEF t
      <4> QED BY <4>1, <3>2, <2>4
    <3>3. CASE n # k
      <4>1. n \in 0 .. k - 1 /\ t[n] = s[n]
        BY <3>3, <2>5
      <4>2. n # 0 => n - 1 \in 0 .. k /\ n - 1 # k /\ t[n - 1] = s[n - 1]
        BY <3>3, <2>5
      <4>3. s[n] = IF n = 0 THEN 0 ELSE s[n - 1] + seq[n]
        BY <4>1, <2>6
      <4> HIDE DEF t
      <4> QED BY <4>1, <4>2, <4>3
    <3> QED BY <3>2, <3>3
  <2> HIDE DEF t
  <2> QED BY <2>3, <2>7, <2>8
<1>3. PICK sum \in [0 .. Len(seq) -> Nat] : Sums(Len(seq), sum)
  <2>1. Len(seq) \in 0 .. Len(seq)
    BY <1>1
  <2>2. Len(seq) \notin Lacking
    <3> HIDE DEF Lacking
    <3> QED BY <1>2
  <2> QED BY <2>1, <2>2
<1>4. ArePartialSums(sum, seq)
  BY <1>3 DEF ArePartialSums
<1> QED BY <1>4

\* Two partial sums of a sequence agree: at the least place where they
\* differed, they would differ one place before.
LEMMA PartialSumsAgree ==
    ASSUME NEW seq \in Seq(Nat), NEW a, NEW b,
           ArePartialSums(a, seq), ArePartialSums(b, seq)
    PROVE  a = b
<1> DEFINE Apart == {n \in 0 .. Len(seq) : a[n] # b[n]}
<1>1. Len(seq) \in Nat
  BY LenProperties
<1>2. /\ \A n \in 0 .. Len(seq) :
           a[n] = IF n = 0 THEN 0 ELSE a[n - 1] + seq[n]
      /\ \A n \in 0 .. Len(seq) :
           b[n] = IF n = 0 THEN 0 ELSE b[n - 1] + seq[n]
  <2> DEFINE f(s) == [n \in 0 .. Len(seq) |->
                        IF n = 0 THEN 0 ELSE s[n - 1] + seq[n]]
  <2>1. a = f(a) /\ b = f(b)
    BY DEF ArePartialSums
  <2>2. \A n \in 0 .. Len(seq) :
           /\ f(a)[n] = IF n = 0 THEN 0 ELSE a[n - 1] + seq[n]
           /\ f(b)[n] = IF n = 0 THEN 0 ELSE b[n - 1] + seq[n]
    OBVIOUS
  <2> HIDE DEF f
  <2> QED BY <2>1, <2>2
<1>3. Apart = {}
  <2>1. SUFFICES ASSUME Apart # {} PROVE FALSE
    OBVIOUS
  <2>2. Apart \in SUBSET Nat
    BY <1>1
  <2>3. PICK n \in Apart : \A m \in Apart : n <= m
    <3> HIDE DEF Apart
    <3> QED BY <2>1, <2>2, LeastElement
  <2>4. n # 0
    BY <1>2, <2>3
  <2>5. n - 1 \in 0 .. Len(seq) /\ ~ (n <= n - 1)
    BY <1>1, <2>4
  <2>6. a[n - 1] = b[n - 1]
    BY <2>3, <2>5
  <2> QED BY <1>2, <2>3, <2>4, <2>6
<1>4. \A n \in 0 .. Len(seq) : a[n] = b[n]
  BY <1>3
<1>5. /\ a = [n \in 0 .. Len(seq) |-> a[n]]
      /\ b = [n \in 0 .. Len(seq) |-> b[n]]
  BY DEF ArePartialSums
<1> QED BY <1>4, <1>5, Zenon

\* What a sum starts from, and what one more element adds to it.
LEMMA TotalGrows ==
    /\ Total(<<>>) = 0
    /\ \A seq \in Seq(Nat), x \in Nat : Total(Append(seq, x)) = Total(seq) + x
<1>1. \A seq \in Seq(Nat) : \E sum \in [0 .. Len(seq) -> Nat] :
         ArePartialSums(sum, seq) /\ Total(seq) = sum[Len(seq)]
  <2>1. SUFFICES ASSUME NEW seq \in Seq(Nat)
                 PROVE  \E sum \in [0 .. Len(seq) -> Nat] :
                          /\ ArePartialSums(sum, seq)
                          /\ Total(seq) = sum[Len(seq)]
    OBVIOUS
  <2> DEFINE f(s) == [n \in 0 .. Len(seq) |->
                        IF n = 0 THEN 0 ELSE s[n - 1] + seq[n]]
             c == CHOOSE s : s = f(s)
  <2>2. Total(seq) = c[Len(seq)]
    BY Zenon DEF Total
  <2>3. PICK s \in [0 .. Len(seq) -> Nat] : ArePartialSums(s, seq)
    BY PartialSumsExist
  <2>4. s = f(s)
    BY <2>3 DEF ArePartialSums
  <2>5. c = f(c)
    <3> HIDE DEF f
    <3> QED BY <2>4, Zenon
  <2>6. ArePartialSums(c, seq)
    <3>1. DOMAIN f(c) = 0 .. Len(seq)
      OBVIOUS
    <3>2. DOMAIN c = 0 .. Len(seq)
      <4> HIDE DEF f, c
      <4> QED BY <2>5, <3>1
    <3> HIDE DEF c
    <3> QED BY <2>5, <3>2, Zenon DEF ArePartialSums
  <2>7. c = s
    <3> HIDE DEF c
    <3> QED BY <2>3, <2>6, PartialSumsAgree
  <2> HIDE DEF c
  <2> QED BY <2>2, <2>3, <2>7
<1>2. Total(<<>>) = 0
  <2>1. <<>> \in Seq(Nat) /\ Len(<<>>) = 0
    BY EmptySeq
  <2>2. PICK s \in [0 .. Len(<<>>) -> Nat] :
          ArePartialSums(s, <<>>) /\ Total(<<>>) = s[Len(<<>>)]
    BY <1>1, <2>1
  <2>3. s[0] = 0
    BY <2>1, <2>2 DEF ArePartialSums
  <2> QED BY <2>1, <2>2, <2>3
<1>3. ASSUME NEW seq \in Seq(Nat), NEW x \in Nat
      PROVE  Total(Append(seq, x)) = Total(seq) + x
  <2> DEFINE L == Len(seq)
             longer == Append(seq, x)
  <2>1. /\ L \in Nat /\ longer \in Seq(Nat) /\ Len(longer) = L + 1
        /\ longer[L + 1] = x /\ \A n \in 1 .. L : longer[n] = seq[n]
    BY LenProperties, AppendProperties
  <2>2. PICK t \in [0 .. Len(longer) -> Nat] :
          ArePartialSums(t, longer) /\ Total(longer) = t[Len(longer)]
    BY <1>1, <2>1
  <2> HIDE DEF longer
  <2>3. \A n \in 0 .. L + 1 :
           t[n] = IF n = 0 THEN 0 ELSE t[n - 1] + longer[n]
    BY <2>1, <2>2 DEF ArePartialSums
  <2> DEFINE s == [n \in 0 .. L |-> t[n]]
  <2>4. s = [n \in 0 .. L |-> IF n = 0 THEN 0 ELSE s[n - 1] + seq[n]]
    <3>1. ASSUME NEW n \in 0 .. L
          PROVE  t[n] = IF n = 0 THEN 0 ELSE s[n - 1] + seq[n]
      <4>1. CASE n = 0
        BY <4>1, <2>1, <2>3
      <4>2. CASE n # 0
        <5>1. n \in 0 .. L + 1 /\ n \in 1 .. L /\ n - 1 \in 0 .. L
          BY <4>2, <2>1
        <5>2. s[n - 1] = t[n - 1] /\ longer[n] = seq[n]
          BY <5>1, <2>1
        <5> HIDE DEF s
        <5> QED BY <5>1, <5>2, <4>2, <2>3
      <4> QED BY <4>1, <4>2
    <3> QED BY <3>1
  <2>5. ArePartialSums(s, seq)
    <3>1. DOMAIN s = 0 .. L
      OBVIOUS
    <3> HIDE DEF s
    <3> QED BY <2>4, <3>1 DEF ArePartialSums
  <2>6. Total(seq) = s[L]
    <3>1. PICK r \in [0 .. L -> Nat] :
            ArePartialSums(r, seq) /\ Total(seq) = r[L]
      BY <1>1
    <3> HIDE DEF s
    <3> QED BY <3>1, <2>5, PartialSumsAgree
  <2>7. s[L] = t[L] /\ L \in 0 .. L /\ L + 1 \in 0 .. L + 1
    BY <2>1
  <2> HIDE DEF s
  <2> QED BY <2>1, <2>2, <2>3, <2>6, <2>7 DEF longer
<1> QED BY <1>2, <1>3

\* How often a sequence shows a member of G.
Times(q, G) == Cardinality({i \in DOMAIN q : q[i] \in G})

\* What an empty sequence counts, and what one more element adds to it.
LEMMA TimesGrow ==
    ASSUME NEW S, NEW G
    PROVE  /\ Times(<<>>, G) = 0
           /\ \A q \in Seq(S), p \in S :
                /\ Times(q, G) \in Nat
                /\ Times(Append(q, p), G) = Times(q, G) + One(p \in G)
<1>1. Times(<<>>, G) = 0
  BY FS_EmptySet DEF Times
<1>2. ASSUME NEW q \in Seq(S), NEW p \in S
      PROVE  /\ Times(q, G) \in Nat
             /\ Times(Append(q, p), G) = Times(q, G) + One(p \in G)
  <2> DEFINE L == Len(q)
             before == {i \in DOMAIN q : q[i] \in G}
             after == {i \in DOMAIN Append(q, p) : Append(q, p)[i] \in G}
  <2>1. /\ L \in Nat /\ DOMAIN q = 1 .. L /\ DOMAIN Append(q, p) = 1 .. L + 1
        /\ Append(q, p)[L + 1] = p
        /\ \A i \in 1 .. L : Append(q, p)[i] = q[i]
    BY LenProperties, AppendProperties
  <2>2. IsFiniteSet(before) /\ Cardinality(before) \in Nat
    <3>1. IsFiniteSet(1 .. L)
      BY <2>1, FS_Interval
    <3>2. before \in SUBSET (1 .. L)
      BY <2>1
    <3> HIDE DEF before
    <3> QED BY <3>1, <3>2, FS_Subset, FS_CardinalityType
  <2>3. L + 1 \notin before
    BY <2>1
  <2>4. CASE p \in G
    <3>1. after = before \cup {L + 1}
      BY <2>1, <2>4
    <3> HIDE DEF before, after
    <3>2. Cardinality(after) = Cardinality(before) + 1
      BY <2>2, <2>3, <3>1, FS_AddElement
    <3> QED BY <2>2, <3>2, <2>4 DEF Times, One, before, after
  <2>5. CASE p \notin G
    <3>1. after = before
      BY <2>1, <2>5
    <3> HIDE DEF before, after
    <3>2. One(p \in G) = 0
      BY <2>5 DEF One
    <3>3. Cardinality(after) = Cardinality(before) + One(p \in G)
      BY <2>2, <3>1, <3>2
    <3> QED BY <2>2, <3>3 DEF Times, before, after
  <2> QED BY <2>4, <2>5
<1> QED BY <1>1, <1>2

-----------------------------------------------------------------------------
(* The inductive invariant.                                                *)

Counters == [reconnects : Nat, refreshes : Nat]

TypeInv ==
    /\ TypeOK
    /\ passes \in Seq(PassChoices)
    /\ counts \in [blocked : Nat, attempts : Nat, successes : Nat,
                   workflows : Nat]
    /\ previous \in Counters
    /\ deltas \in [reconnects : Seq(Nat), refreshes : Seq(Nat)]
    /\ Len(sessions) <= Len(Durations)
    /\ step # "off" => Len(sessions) < Len(Durations)

\* Every cycle of a session is given the same: either all of them reach the
\* gate, or none does and the gate has no result to leave behind.
NothingToRecord == passes = <<>> /\ last = NoPass
InputsDecide == step # "off" /\ ~ReachesGate(inputs) => NothingToRecord

\* The passes the loop has recorded: all, or all but the one in last_result.
Earlier == [i \in 1 .. Len(passes) - 1 |-> passes[i]]
Recorded == IF step = "record" /\ ReachesGate(inputs) THEN Earlier ELSE passes

Blocking == {p \in PassChoices : Blocked(p)}
Succeeding == {p \in PassChoices : Succeeded(p)}
Asking == {p \in PassChoices : p.queries > 0}
QueriesOf(q) == [i \in DOMAIN q |-> q[i].queries]

\* c is what the loop counts when the gate returned the passes q.
CountsOf(c, q) ==
    /\ c.blocked = Times(q, Blocking)
    /\ c.attempts = Total(QueriesOf(q))
    /\ c.successes = Times(q, Succeeding)
    /\ c.workflows = Times(q, Asking)

CountsInv ==
    /\ step # "off" => /\ CountsOf(counts, Recorded)
                       /\ Total(deltas.reconnects) = previous.reconnects
                       /\ Total(deltas.refreshes) = previous.refreshes
    /\ step \notin {"off", "record"} => previous = Previous
    /\ step = "record" => /\ previous.reconnects <= reconnects
                          /\ previous.refreshes <= refreshes

\* The pass in last_result is the last one the gate returned.
LastIsLast ==
    step \in {"record", "test"} /\ ReachesGate(inputs) =>
        Len(passes) > 0 /\ passes[Len(passes)] = last

Settles(p) == p.convergence # "unreconciled_manual_attention"
Clean(q) == \A i \in DOMAIN q : Settles(q[i])

\* A loop that goes on has seen nothing to stop for.
CleanInv ==
    /\ step \in {"check", "cycle"} =>
         /\ reason = "completed" /\ Clean(passes) /\ stream # "terminated"
         /\ Len(healths) > 0 => counts.blocked < MaxBlocked
    /\ step \in {"record", "test"} => reason = "completed" /\ Clean(Earlier)
    /\ step = "ended" /\ reason = "completed" =>
         /\ LoopIsOver
         /\ Clean(passes) /\ stream # "terminated"
         /\ Len(healths) > 0 => counts.blocked < MaxBlocked

SoakInv == TypeInv /\ InputsDecide /\ CountsInv /\ LastIsLast /\ CleanInv

-----------------------------------------------------------------------------
(* Facts about the parts of a cycle.                                       *)

USE SessionsAssumption, InputsAssumption, PassesAssumption, StreamsAssumption

\* Passes are passes, and a session that has not asked the gate has NoPass.
LEMMA PassFacts ==
    /\ \A p \in PassChoices :
         /\ p.queries \in Nat
         /\ p.convergence \in Convergences /\ p.last \in {"none", "success",
                                                        "failed", "blocked"}
         /\ p.transport \in BOOLEAN
         /\ p.transport /\ p.queries > 0 <=> p.queries > 0
         /\ Succeeded(p) => p.queries > 0
         /\ p.convergence = "unreconciled_manual_attention" => p.transport
    /\ NoPass.queries = 0 /\ ~ Blocked(NoPass) /\ ~ Succeeded(NoPass)
    /\ NoPass.transport = FALSE /\ NoPass.convergence = "not_required"
<1>1. ASSUME NEW p \in PassChoices
      PROVE  /\ p.queries \in Nat
             /\ p.convergence \in Convergences /\ p.last \in {"none", "success",
                                                        "failed", "blocked"}
             /\ p.transport \in BOOLEAN
             /\ p.transport /\ p.queries > 0 <=> p.queries > 0
             /\ Succeeded(p) => p.queries > 0
             /\ p.convergence = "unreconciled_manual_attention" => p.transport
  BY DEF Pass, Convergences, Succeeded
<1>2. /\ NoPass.queries = 0 /\ ~ Blocked(NoPass) /\ ~ Succeeded(NoPass)
      /\ NoPass.transport = FALSE /\ NoPass.convergence = "not_required"
  BY DEF NoPass, Blocked, Succeeded
<1> QED BY <1>1, <1>2

\* The health of a cycle is a state of health, and fatal as soon as the stream
\* has terminated or an operator has to look.
LEMMA HealthFacts ==
    ASSUME NEW s \in StreamStates, NEW p \in PassChoices \cup {NoPass}
    PROVE  /\ ExchangeHealth(s, p) \in Health
           /\ s = "terminated" => ExchangeHealth(s, p) = "fatal"
           /\ p.convergence = "unreconciled_manual_attention" =>
                ExchangeHealth(s, p) = "fatal"
           /\ ReconciliationHealth(p) = "fatal" =>
                ExchangeHealth(s, p) = "fatal"
<1>1. ExchangeHealth(s, p) \in Health
  BY DEF ExchangeHealth, Overall, Health
<1>2. s = "terminated" => StreamHealth(s) = "fatal"
  BY DEF StreamHealth
<1>3. p.convergence = "unreconciled_manual_attention" =>
        ReconciliationHealth(p) = "fatal"
  BY PassFacts DEF ReconciliationHealth
<1>4. "fatal" \in {StreamHealth(s), ReconciliationHealth(p)} =>
        ExchangeHealth(s, p) = "fatal"
  BY DEF ExchangeHealth, Overall
<1> QED BY <1>1, <1>2, <1>3, <1>4

\* What one more pass does to the sequence of passes.
LEMMA AppendedPass ==
    ASSUME NEW q \in Seq(PassChoices), NEW p \in PassChoices
    PROVE  LET longer == Append(q, p)
           IN  /\ longer \in Seq(PassChoices)
               /\ Len(longer) > 0 /\ longer[Len(longer)] = p
               /\ [i \in 1 .. Len(longer) - 1 |-> longer[i]] = q
<1>1. /\ Len(q) \in Nat /\ DOMAIN q = 1 .. Len(q)
      /\ q = [i \in 1 .. Len(q) |-> q[i]]
  BY LenProperties
<1>2. /\ Append(q, p) \in Seq(PassChoices) /\ Len(Append(q, p)) = Len(q) + 1
      /\ Append(q, p)[Len(q) + 1] = p
      /\ \A i \in 1 .. Len(q) : Append(q, p)[i] = q[i]
  BY AppendProperties
<1>3. [i \in 1 .. Len(Append(q, p)) - 1 |-> Append(q, p)[i]]
        = [i \in 1 .. Len(q) |-> q[i]]
  <2>1. Len(q) + 1 - 1 = Len(q)
    BY <1>1
  <2> QED BY <1>2, <2>1
<1> QED BY <1>1, <1>2, <1>3

\* Passes are the ones before the last, and the last.
LEMMA EarlierAndLast ==
    ASSUME passes \in Seq(PassChoices), Len(passes) > 0
    PROVE  /\ Earlier \in Seq(PassChoices)
           /\ passes[Len(passes)] \in PassChoices
           /\ passes = Append(Earlier, passes[Len(passes)])
<1>1. /\ Len(passes) \in Nat /\ DOMAIN passes = 1 .. Len(passes)
      /\ Len(passes) - 1 \in Nat /\ Len(passes) \in 1 .. Len(passes)
  BY LenProperties
<1>2. passes[Len(passes)] \in PassChoices
  BY <1>1, ElementOfSeq
<1>3. Earlier \in Seq(PassChoices) /\ Len(Earlier) = Len(passes) - 1
  <2>1. \A i \in 1 .. Len(passes) - 1 : passes[i] \in PassChoices
    BY <1>1, ElementOfSeq
  <2> QED BY <1>1, <2>1, IsASeq DEF Earlier
<1>4. passes = Append(Earlier, passes[Len(passes)])
  <2> DEFINE L == Len(passes)
             x == passes[L]
             longer == Append(Earlier, x)
  <2>1. L \in Nat /\ L - 1 + 1 = L /\ Len(Earlier) = L - 1 /\ x \in PassChoices
    BY <1>1, <1>2, <1>3
  <2>2. \A i \in 1 .. L - 1 : Earlier[i] = passes[i]
    BY DEF Earlier
  <2>3. passes \in Seq(PassChoices) /\ Earlier \in Seq(PassChoices)
    BY <1>3
  <2> HIDE DEF x, L, Earlier
  <2>4. /\ longer \in Seq(PassChoices) /\ Len(longer) = L
        /\ longer[L] = x /\ \A i \in 1 .. L - 1 : longer[i] = Earlier[i]
    BY <2>1, <2>3, AppendProperties
  <2> HIDE DEF longer
  <2>5. \A i \in 1 .. L : longer[i] = passes[i]
    <3>1. passes[L] = x
      BY DEF x
    <3>2. \A i \in 1 .. L : i = L \/ i \in 1 .. L - 1
      BY <2>1
    <3> QED BY <2>2, <2>4, <3>1, <3>2
  <2>6. longer = passes
    BY <2>3, <2>4, <2>5, SeqEqual DEF L
  <2> QED BY <2>6 DEF longer, x, L
<1> QED BY <1>2, <1>3, <1>4

-----------------------------------------------------------------------------
(* Types.                                                                  *)

\* What a session starts with.
LEMMA BlankRecords ==
    /\ \A S : <<>> \in Seq(S)
    /\ Len(<<>>) = 0
    /\ NoCounts \in [DOMAIN NoCounts -> Nat]
    /\ NoCounts \in [blocked : Nat, attempts : Nat, successes : Nat,
                     workflows : Nat]
    /\ Zero \in [DOMAIN Zero -> Nat] /\ Zero \in Counters
    /\ [reconnects |-> <<>>, refreshes |-> <<>>]
         \in [reconnects : Seq(Nat), refreshes : Seq(Nat)]
<1>1. (\A S : <<>> \in Seq(S)) /\ Len(<<>>) = 0
  BY EmptySeq
<1>2. NoCounts \in [DOMAIN NoCounts -> Nat]
  BY DEF NoCounts
<1>3. NoCounts \in [blocked : Nat, attempts : Nat, successes : Nat,
                   workflows : Nat]
  BY DEF NoCounts
<1>4. Zero \in [DOMAIN Zero -> Nat] /\ Zero \in Counters
  BY DEF Zero, Counters
<1> QED BY <1>1, <1>2, <1>3, <1>4

LEMMA TypeInit == Init => TypeInv
<1> SUFFICES ASSUME Init PROVE TypeInv
  OBVIOUS
<1>2. /\ sessions \in Seq(Codes) /\ healths \in Seq(Health)
      /\ passes \in Seq(PassChoices) /\ Len(sessions) = 0
  BY BlankRecords DEF Init
<1>3. /\ counts \in [DOMAIN NoCounts -> Nat]
      /\ counts \in [blocked : Nat, attempts : Nat, successes : Nat,
                     workflows : Nat]
      /\ previous \in [DOMAIN Zero -> Nat] /\ previous \in Counters
      /\ deltas \in [reconnects : Seq(Nat), refreshes : Seq(Nat)]
  BY BlankRecords DEF Init
<1>4. /\ step = "off" /\ now = 0 /\ deadline = 0 /\ interval \in Intervals
      /\ inputs \in InputChoices /\ cycle = 0 /\ last = NoPass
      /\ stream = "none" /\ reconnects = 0 /\ refreshes = 0
      /\ reason = "none" /\ rows = 0
  BY DEF Init
<1>5. Len(Durations) \in Nat /\ cycle \in 0 .. MaxCycles
  BY <1>4, LenProperties
<1> QED BY <1>2, <1>3, <1>4, <1>5 DEF TypeInv, TypeOK, Steps, StreamStates

\* The clock, the counters of the source and the counts stay natural numbers.
LEMMA TypeStep == TypeInv /\ [Next]_vars => TypeInv'
<1> SUFFICES ASSUME TypeInv, [Next]_vars PROVE TypeInv'
  OBVIOUS
<1> USE DEF timeVars, sourceVars, recordVars
<1>0. /\ Len(Durations) \in Nat /\ Len(sessions) \in Nat
      /\ \A i \in 1 .. Len(Durations) : Durations[i] \in Nat
  BY LenProperties, ElementOfSeq DEF TypeInv, TypeOK
<1>1. CASE StartSession
  <2>1. Len(sessions) + 1 \in 1 .. Len(Durations) /\ Len(sessions) < Len(Durations)
    BY <1>0, <1>1 DEF StartSession, CampaignOver, TypeInv
  <2>2. deadline' \in Nat
    BY <1>0, <1>1, <2>1 DEF StartSession, TypeInv, TypeOK
  <2>3. /\ healths' \in Seq(Health) /\ passes' \in Seq(PassChoices)
        /\ deltas' \in [reconnects : Seq(Nat), refreshes : Seq(Nat)]
    BY <1>1, BlankRecords DEF StartSession
  <2>4. /\ counts' \in [DOMAIN NoCounts -> Nat]
        /\ counts' \in [blocked : Nat, attempts : Nat, successes : Nat,
                        workflows : Nat]
        /\ previous' \in [DOMAIN Zero -> Nat] /\ previous' \in Counters
    BY <1>1, BlankRecords DEF StartSession
  <2>5. /\ step' = "check" /\ cycle' = 0 /\ last' = NoPass /\ stream' = "none"
        /\ reconnects' = 0 /\ refreshes' = 0 /\ reason' = "completed"
        /\ rows' = 0 /\ sessions' = sessions /\ now' = now
        /\ interval' = interval /\ inputs' = inputs
    BY <1>1 DEF StartSession
  <2>6. cycle' \in 0 .. MaxCycles
    BY <2>5
  <2> QED
    BY <2>1, <2>2, <2>3, <2>4, <2>5, <2>6
    DEF TypeInv, TypeOK, Steps, StreamStates
<1>2. CASE RefuseSession
  <2>1. Len(sessions) < Len(Durations) /\ "1" \in Codes
    BY <1>0, <1>2 DEF RefuseSession, CampaignOver, TypeInv, Codes
  <2>2. sessions' \in Seq(Codes) /\ Len(sessions') = Len(sessions) + 1
    BY <1>2, <2>1, AppendProperties DEF RefuseSession, TypeInv, TypeOK
  <2> QED BY <1>0, <1>2, <2>1, <2>2 DEF RefuseSession, TypeInv, TypeOK
<1>3. CASE StartCycle
  <2>1. cycle' \in 0 .. MaxCycles
    BY <1>3 DEF StartCycle, LoopIsOver, TypeInv, TypeOK
  <2> QED BY <1>3, <2>1 DEF StartCycle, TypeInv, TypeOK, Steps
<1>4. CASE EndLoop
  BY <1>4 DEF EndLoop, TypeInv, TypeOK, Steps
<1>5. CASE RefuseCycle
  <2>1. now' \in Nat /\ deadline' = deadline /\ interval' = interval
    BY <1>5 DEF RefuseCycle, Takes, TypeInv, TypeOK
  <2>2. rows' \in Nat
    BY <1>5 DEF RefuseCycle, TypeInv, TypeOK
  <2> QED BY <1>5, <2>1, <2>2 DEF RefuseCycle, TypeInv, TypeOK, Steps
<1>6. ASSUME Poll
      PROVE  /\ stream' \in StreamStates
             /\ reconnects' \in Nat /\ refreshes' \in Nat
  <2>1. stream' \in StreamStates
    BY <1>6, Zenon DEF Poll
  <2>2. reconnects \in Nat /\ refreshes \in Nat
    BY DEF TypeInv, TypeOK
  <2>3. reconnects' \in Nat /\ refreshes' \in Nat
    BY <1>6, <2>2 DEF Poll
  <2> QED BY <2>1, <2>3
<1>7. ASSUME last' \in PassChoices, passes' = Append(passes, last')
      PROVE  passes' \in Seq(PassChoices)
  BY <1>7, AppendProperties DEF TypeInv
<1>8. CASE RunCycle
  <2>1. now' \in Nat /\ deadline' = deadline /\ interval' = interval
    <3>1. PICK t \in CycleTimes : Takes(t)
      BY <1>8 DEF RunCycle
    <3>2. now \in Nat /\ t \in Nat
      BY DEF TypeInv, TypeOK
    <3> QED BY <3>1, <3>2 DEF Takes
  <2>2. rows' \in Nat /\ passes' \in Seq(PassChoices) /\ last' \in PassChoices
    BY <1>7, <1>8 DEF RunCycle, TypeInv, TypeOK
  <2>3. stream' \in StreamStates /\ reconnects' \in Nat /\ refreshes' \in Nat
    BY <1>6, <1>8 DEF RunCycle
  <2> QED BY <1>8, <2>1, <2>2, <2>3 DEF RunCycle, TypeInv, TypeOK, Steps
<1>9. ASSUME NEW code \in Codes, Leave(code), Len(sessions) < Len(Durations)
      PROVE  /\ step' = "off" /\ sessions' \in Seq(Codes)
             /\ Len(sessions') <= Len(Durations)
  <2>1. sessions' \in Seq(Codes) /\ Len(sessions') = Len(sessions) + 1
    BY <1>9, AppendProperties DEF Leave, TypeInv, TypeOK
  <2> QED BY <1>0, <1>9, <2>1 DEF Leave
<1>10. CASE CycleRaises
  <2>1. now' \in Nat /\ deadline' = deadline /\ interval' = interval
    <3>1. PICK t \in CycleTimes : Takes(t)
      BY <1>10 DEF CycleRaises
    <3>2. now \in Nat /\ t \in Nat
      BY DEF TypeInv, TypeOK
    <3> QED BY <3>1, <3>2 DEF Takes
  <2>2. step' = "off" /\ sessions' \in Seq(Codes) /\ Len(sessions') <= Len(Durations)
    BY <1>9, <1>10 DEF CycleRaises, Codes, TypeInv
  <2>3. /\ stream' \in StreamStates /\ reconnects' \in Nat /\ refreshes' \in Nat
        /\ rows' \in Nat /\ last' \in PassChoices \cup {NoPass}
        /\ passes' \in Seq(PassChoices)
    <3>1. CASE /\ rows' \in {rows, rows + 1}
               /\ UNCHANGED <<sourceVars, last, passes>>
      BY <3>1 DEF TypeInv, TypeOK
    <3>2. CASE Poll /\ UNCHANGED <<last, passes, rows>>
      BY <1>6, <3>2 DEF TypeInv, TypeOK
    <3>3. CASE /\ Poll /\ rows' \in {rows, rows + 1}
               /\ last' \in PassChoices /\ passes' = Append(passes, last')
      <4>1. rows' \in Nat
        BY <3>3 DEF TypeInv, TypeOK
      <4> QED BY <1>6, <1>7, <3>3, <4>1
    <3> QED BY <1>10, <3>1, <3>2, <3>3 DEF CycleRaises
  <2> QED BY <1>10, <2>1, <2>2, <2>3 DEF CycleRaises, TypeInv, TypeOK, Steps
<1>11. CASE Record
  <2>1. healths' \in Seq(Health)
    <3>1. ExchangeHealth(stream, last) \in Health
      BY HealthFacts DEF TypeInv, TypeOK
    <3> QED BY <1>11, <3>1, AppendProperties DEF Record, TypeInv, TypeOK
  <2>2. /\ counts' \in [DOMAIN NoCounts -> Nat]
        /\ counts' \in [blocked : Nat, attempts : Nat, successes : Nat,
                        workflows : Nat]
    <3>1. last.queries \in Nat
      BY PassFacts DEF TypeInv, TypeOK
    <3>2. counts' = Counted(counts, last)
      BY <1>11 DEF Record
    <3>3. counts' \in [blocked : Nat, attempts : Nat, successes : Nat,
                       workflows : Nat]
      <4>1. /\ counts.blocked \in Nat /\ counts.attempts \in Nat
            /\ counts.successes \in Nat /\ counts.workflows \in Nat
        BY DEF TypeInv
      <4>2. counts.blocked + One(Blocked(last)) \in Nat
        BY <4>1 DEF One
      <4>3. counts.attempts + last.queries \in Nat
        BY <3>1, <4>1
      <4>4. counts.successes + One(Succeeded(last)) \in Nat
        BY <4>1 DEF One
      <4>5. counts.workflows + One(last.transport /\ last.queries > 0) \in Nat
        BY <4>1 DEF One
      <4> QED BY <3>2, <4>2, <4>3, <4>4, <4>5 DEF Counted
    <3> QED BY <3>3 DEF NoCounts
  <2>3. previous' \in Counters /\ previous' \in [DOMAIN Zero -> Nat]
    BY <1>11 DEF Record, Previous, Counters, Zero, TypeInv, TypeOK
  <2>4. deltas' \in [reconnects : Seq(Nat), refreshes : Seq(Nat)]
    <3>1. \A seq \in Seq(Nat), d \in Int : Rise(seq, d) \in Seq(Nat)
      BY AppendProperties DEF Rise
    <3>2. /\ reconnects - previous.reconnects \in Int
          /\ refreshes - previous.refreshes \in Int
      BY DEF TypeInv, TypeOK, Counters
    <3>3. /\ deltas.reconnects \in Seq(Nat) /\ deltas.refreshes \in Seq(Nat)
      BY DEF TypeInv
    <3> QED BY <1>11, <3>1, <3>2, <3>3 DEF Record
  <2> QED BY <1>11, <2>1, <2>2, <2>3, <2>4 DEF Record, TypeInv, TypeOK, Steps
<1>12. CASE Stop
  <2>1. reason' \in {"fatal_exchange_health", "max_blocked_mutations"}
    BY <1>12, HealthFacts DEF Stop, StopReason, TypeInv, TypeOK
  <2> QED BY <1>12, <2>1 DEF Stop, TypeInv, TypeOK, Steps
<1>13. CASE DeadlinePassed
  BY <1>13 DEF DeadlinePassed, TypeInv, TypeOK, Steps
<1>14. CASE Sleep
  <2>1. interval \in Nat
    BY DEF TypeInv, TypeOK
  <2>2. now' \in Nat /\ deadline' = deadline /\ interval' = interval
    BY <1>14, <2>1 DEF Sleep, Takes, Pause, TypeInv, TypeOK
  <2> QED BY <1>14, <2>2 DEF Sleep, TypeInv, TypeOK, Steps
<1>15. CASE Finish
  <2>1. step' = "off" /\ sessions' \in Seq(Codes) /\ Len(sessions') <= Len(Durations)
    BY <1>9, <1>15 DEF Finish, Codes, TypeInv
  <2> QED BY <1>15, <2>1 DEF Finish, TypeInv, TypeOK, Steps
<1>16. CASE UNCHANGED vars
  BY <1>16 DEF vars, TypeInv, TypeOK
<1> QED
  BY <1>1, <1>2, <1>3, <1>4, <1>5, <1>8, <1>10, <1>11, <1>12, <1>13, <1>14,
     <1>15, <1>16
  DEF Next

-----------------------------------------------------------------------------
(* Counts.                                                                 *)

Tally == [blocked : Nat, attempts : Nat, successes : Nat, workflows : Nat]

LEMMA QueriesGrow ==
    /\ QueriesOf(<<>>) = <<>>
    /\ \A q \in Seq(PassChoices), p \in PassChoices :
         /\ QueriesOf(q) \in Seq(Nat)
         /\ QueriesOf(Append(q, p)) = Append(QueriesOf(q), p.queries)
<1>1. \A q \in Seq(PassChoices) :
         /\ Len(q) \in Nat /\ DOMAIN q = 1 .. Len(q)
         /\ \A i \in 1 .. Len(q) : q[i].queries \in Nat
         /\ QueriesOf(q) \in Seq(Nat) /\ Len(QueriesOf(q)) = Len(q)
         /\ \A i \in 1 .. Len(q) : QueriesOf(q)[i] = q[i].queries
  <2>1. SUFFICES ASSUME NEW q \in Seq(PassChoices)
                 PROVE  /\ Len(q) \in Nat /\ DOMAIN q = 1 .. Len(q)
                        /\ \A i \in 1 .. Len(q) : q[i].queries \in Nat
                        /\ QueriesOf(q) \in Seq(Nat)
                        /\ Len(QueriesOf(q)) = Len(q)
                        /\ \A i \in 1 .. Len(q) : QueriesOf(q)[i] = q[i].queries
    OBVIOUS
  <2>2. Len(q) \in Nat /\ DOMAIN q = 1 .. Len(q)
    BY LenProperties
  <2>3. \A i \in 1 .. Len(q) : q[i].queries \in Nat
    BY ElementOfSeq, PassFacts
  <2>4. QueriesOf(q) = [i \in 1 .. Len(q) |-> q[i].queries]
    BY <2>2 DEF QueriesOf
  <2>5. QueriesOf(q) \in Seq(Nat) /\ Len(QueriesOf(q)) = Len(q)
    BY <2>2, <2>3, <2>4
  <2> QED BY <2>2, <2>3, <2>4, <2>5
<1>2. QueriesOf(<<>>) = <<>>
  <2>1. <<>> \in Seq(PassChoices) /\ Len(<<>>) = 0
    BY EmptySeq
  <2>2. QueriesOf(<<>>) \in Seq(Nat) /\ Len(QueriesOf(<<>>)) = 0
    BY <1>1, <2>1
  <2> QED BY <2>2, EmptySeq
<1>3. ASSUME NEW q \in Seq(PassChoices), NEW p \in PassChoices
      PROVE  QueriesOf(Append(q, p)) = Append(QueriesOf(q), p.queries)
  <2> DEFINE L == Len(q)
             longer == Append(q, p)
             a == QueriesOf(longer)
             b == Append(QueriesOf(q), p.queries)
  <2>1. /\ L \in Nat /\ longer \in Seq(PassChoices) /\ Len(longer) = L + 1
        /\ longer[L + 1] = p /\ \A i \in 1 .. L : longer[i] = q[i]
    BY LenProperties, AppendProperties
  <2> HIDE DEF longer
  <2>2. /\ a \in Seq(Nat) /\ Len(a) = L + 1
        /\ \A i \in 1 .. L + 1 : a[i] = longer[i].queries
    BY <1>1, <2>1
  <2>3. /\ QueriesOf(q) \in Seq(Nat) /\ Len(QueriesOf(q)) = L
        /\ \A i \in 1 .. L : QueriesOf(q)[i] = q[i].queries
        /\ p.queries \in Nat
    BY <1>1, PassFacts
  <2>4. /\ b \in Seq(Nat) /\ Len(b) = L + 1 /\ b[L + 1] = p.queries
        /\ \A i \in 1 .. L : b[i] = QueriesOf(q)[i]
    BY <2>1, <2>3, AppendProperties
  <2> HIDE DEF a, b
  <2>5. \A i \in 1 .. L + 1 : i = L + 1 \/ i \in 1 .. L
    BY <2>1
  <2>6. ASSUME NEW i \in 1 .. L + 1 PROVE a[i] = b[i]
    <3>1. a[i] = longer[i].queries
      BY <2>2
    <3>2. CASE i = L + 1
      <4>1. longer[i] = p /\ b[i] = p.queries
        BY <2>1, <2>4, <3>2
      <4> QED BY <3>1, <4>1, Zenon
    <3>3. CASE i \in 1 .. L
      <4>1. longer[i] = q[i] /\ b[i] = q[i].queries
        BY <2>1, <2>3, <2>4, <3>3, Zenon
      <4> QED BY <3>1, <4>1, Zenon
    <3> QED BY <2>5, <3>2, <3>3
  <2>7. a = b
    BY <2>2, <2>4, <2>6, SeqEqual
  <2> QED BY <2>7 DEF a, b, longer
<1> QED BY <1>1, <1>2, <1>3

\* What the loop adds to its counts for a pass is what the pass adds to the
\* passes, and a cycle that did not reach the gate adds nothing.
LEMMA CountedMore ==
    /\ CountsOf(NoCounts, <<>>)
    /\ \A c \in Tally : Counted(c, NoPass) = c
    /\ \A c \in Tally, q \in Seq(PassChoices), p \in PassChoices :
         CountsOf(c, q) => CountsOf(Counted(c, p), Append(q, p))
<1>1. CountsOf(NoCounts, <<>>)
  <2>1. \A G : Times(<<>>, G) = 0
    BY TimesGrow, Zenon
  <2>2. Total(QueriesOf(<<>>)) = 0
    BY QueriesGrow, TotalGrows
  <2> QED BY <2>1, <2>2 DEF CountsOf, NoCounts
<1>2. ASSUME NEW c \in Tally PROVE Counted(c, NoPass) = c
  <2>1. /\ One(Blocked(NoPass)) = 0 /\ One(Succeeded(NoPass)) = 0
        /\ One(NoPass.transport /\ NoPass.queries > 0) = 0
        /\ NoPass.queries = 0
    BY PassFacts DEF One
  <2>2. /\ c.blocked \in Nat /\ c.attempts \in Nat
        /\ c.successes \in Nat /\ c.workflows \in Nat
        /\ c = [blocked |-> c.blocked, attempts |-> c.attempts,
                successes |-> c.successes, workflows |-> c.workflows]
    BY DEF Tally
  <2>3. \A n \in Nat : n + 0 = n
    OBVIOUS
  <2> QED BY <2>1, <2>2, <2>3, Zenon DEF Counted
<1>3. ASSUME NEW c \in Tally, NEW q \in Seq(PassChoices), NEW p \in PassChoices,
             CountsOf(c, q)
      PROVE  CountsOf(Counted(c, p), Append(q, p))
  <2>1. \A G : Times(Append(q, p), G) = Times(q, G) + One(p \in G)
    BY TimesGrow, Zenon
  <2>2. Total(QueriesOf(Append(q, p))) = Total(QueriesOf(q)) + p.queries
    <3>1. /\ QueriesOf(q) \in Seq(Nat) /\ p.queries \in Nat
          /\ QueriesOf(Append(q, p)) = Append(QueriesOf(q), p.queries)
      BY QueriesGrow, PassFacts, Zenon
    <3> QED BY <3>1, TotalGrows, Zenon
  <2>3. /\ One(p \in Blocking) = One(Blocked(p))
        /\ One(p \in Succeeding) = One(Succeeded(p))
        /\ One(p \in Asking) = One(p.transport /\ p.queries > 0)
    <3>1. p \in Blocking <=> Blocked(p)
      BY DEF Blocking
    <3>2. p \in Succeeding <=> Succeeded(p)
      BY DEF Succeeding
    <3>3. p \in Asking <=> p.transport /\ p.queries > 0
      BY PassFacts DEF Asking
    <3> QED BY <3>1, <3>2, <3>3 DEF One
  <2>4. /\ Counted(c, p).blocked = c.blocked + One(Blocked(p))
        /\ Counted(c, p).attempts = c.attempts + p.queries
        /\ Counted(c, p).successes = c.successes + One(Succeeded(p))
        /\ Counted(c, p).workflows
             = c.workflows + One(p.transport /\ p.queries > 0)
    BY DEF Counted
  <2> QED BY <1>3, <2>1, <2>2, <2>3, <2>4, Zenon DEF CountsOf
<1> QED BY <1>1, <1>2, <1>3

\* What the events of a rise add up to.
LEMMA RiseAdds ==
    ASSUME NEW seq \in Seq(Nat), NEW before \in Nat, NEW now2 \in Nat,
           before <= now2, Total(seq) = before
    PROVE  Total(Rise(seq, now2 - before)) = now2
<1>1. CASE now2 - before > 0
  <2>1. now2 - before \in Nat
    OBVIOUS
  <2>2. Total(Append(seq, now2 - before)) = before + (now2 - before)
    BY <2>1, TotalGrows
  <2> QED BY <1>1, <2>2 DEF Rise
<1>2. CASE ~ (now2 - before > 0)
  BY <1>2 DEF Rise
<1> QED BY <1>1, <1>2

-----------------------------------------------------------------------------
(* What a session decides on, and the last result.                         *)

LEMMA InputsStep == TypeInv /\ InputsDecide /\ [Next]_vars => InputsDecide'
<1> SUFFICES ASSUME TypeInv, InputsDecide, [Next]_vars PROVE InputsDecide'
  OBVIOUS
<1> USE DEF timeVars, sourceVars, recordVars
<1>1. inputs' = inputs
  BY DEF Next, StartSession, RefuseSession, StartCycle, EndLoop, RefuseCycle,
         RunCycle, CycleRaises, Record, Stop, DeadlinePassed, Sleep, Finish, vars
<1>2. ReachesGate(inputs)' = ReachesGate(inputs)
  BY <1>1
<1>3. CASE StartSession
  BY <1>3 DEF StartSession, InputsDecide, NothingToRecord
<1>4. CASE RunCycle
  BY <1>2, <1>4 DEF RunCycle, InputsDecide
<1>5. CASE RefuseSession \/ CycleRaises \/ Finish
  BY <1>5 DEF RefuseSession, CycleRaises, Finish, Leave, InputsDecide
<1>6. CASE \/ StartCycle \/ EndLoop \/ RefuseCycle \/ Record \/ Stop
           \/ DeadlinePassed \/ Sleep \/ UNCHANGED vars
  <2>1. step # "off" \/ step' = step
    BY <1>6 DEF StartCycle, EndLoop, RefuseCycle, Record, Stop,
                DeadlinePassed, Sleep, vars
  <2>2. passes' = passes /\ last' = last
    BY <1>6 DEF StartCycle, EndLoop, RefuseCycle, Record, Stop,
                DeadlinePassed, Sleep, vars
  <2> QED BY <1>2, <2>1, <2>2 DEF InputsDecide, NothingToRecord
<1> QED BY <1>3, <1>4, <1>5, <1>6 DEF Next

LEMMA LastStep ==
    TypeInv /\ LastIsLast /\ [Next]_vars => LastIsLast'
<1> SUFFICES ASSUME TypeInv, LastIsLast, [Next]_vars PROVE LastIsLast'
  OBVIOUS
<1> USE DEF timeVars, sourceVars, recordVars
<1>1. CASE RunCycle
  <2>1. /\ passes \in Seq(PassChoices) /\ last' \in PassChoices
        /\ passes' = Append(passes, last')
    BY <1>1 DEF RunCycle, TypeInv
  <2>2. Len(passes') > 0 /\ passes'[Len(passes')] = last'
    BY <2>1, AppendedPass
  <2> QED BY <2>2 DEF LastIsLast
<1>2. CASE RefuseCycle
  BY <1>2 DEF RefuseCycle, LastIsLast
<1>3. CASE Record
  <2>1. /\ step = "record" /\ passes' = passes /\ last' = last
        /\ inputs' = inputs
    BY <1>3 DEF Record
  <2> QED BY <2>1 DEF LastIsLast
<1>4. CASE UNCHANGED vars
  BY <1>4 DEF vars, LastIsLast
<1>5. CASE \/ StartSession \/ RefuseSession \/ StartCycle \/ EndLoop
           \/ CycleRaises \/ Stop \/ DeadlinePassed \/ Sleep \/ Finish
  <2>1. step' \notin {"record", "test"}
    BY <1>5 DEF StartSession, RefuseSession, StartCycle, EndLoop, CycleRaises,
                Stop, DeadlinePassed, Sleep, Finish, Leave
  <2> QED BY <2>1 DEF LastIsLast
<1> QED BY <1>1, <1>2, <1>3, <1>4, <1>5 DEF Next

-----------------------------------------------------------------------------
(* The counts are of the passes recorded.                                  *)

LEMMA CountsStep ==
    TypeInv /\ InputsDecide /\ LastIsLast /\ CountsInv /\ [Next]_vars
      => CountsInv'
<1> SUFFICES ASSUME TypeInv, InputsDecide, LastIsLast, CountsInv, [Next]_vars
             PROVE  CountsInv'
  OBVIOUS
<1> USE DEF timeVars, sourceVars, recordVars
<1>0. /\ reconnects \in Nat /\ refreshes \in Nat
      /\ previous.reconnects \in Nat /\ previous.refreshes \in Nat
      /\ deltas.reconnects \in Seq(Nat) /\ deltas.refreshes \in Seq(Nat)
      /\ counts \in Tally /\ passes \in Seq(PassChoices)
  BY DEF TypeInv, TypeOK, Counters, Tally
<1>1. CASE StartSession
  <2>1. /\ step' = "check" /\ passes' = <<>> /\ counts' = NoCounts
        /\ previous' = Zero /\ reconnects' = 0 /\ refreshes' = 0
        /\ deltas' = [reconnects |-> <<>>, refreshes |-> <<>>]
    BY <1>1 DEF StartSession
  <2>2. CountsOf(counts', Recorded')
    BY <2>1, CountedMore DEF Recorded
  <2> QED BY <2>1, <2>2, TotalGrows DEF CountsInv, Previous, Zero
<1>2. CASE RefuseSession \/ CycleRaises \/ Finish
  <2>1. step' = "off"
    BY <1>2 DEF RefuseSession, CycleRaises, Finish, Leave
  <2> QED BY <2>1 DEF CountsInv
<1>3. CASE \/ StartCycle \/ EndLoop \/ Stop \/ DeadlinePassed \/ Sleep
  <2>1. /\ step \notin {"off", "record"} /\ step' \notin {"off", "record"}
        /\ counts' = counts /\ previous' = previous /\ deltas' = deltas
        /\ reconnects' = reconnects /\ refreshes' = refreshes
        /\ passes' = passes
    BY <1>3 DEF StartCycle, EndLoop, Stop, DeadlinePassed, Sleep
  <2>2. Recorded' = Recorded
    BY <2>1 DEF Recorded
  <2>3. CountsOf(counts', Recorded')
    BY <2>1, <2>2 DEF CountsInv
  <2> QED BY <2>1, <2>3 DEF CountsInv, Previous
<1>4. CASE RefuseCycle
  <2>1. /\ step = "cycle" /\ step' = "record" /\ ~ ReachesGate(inputs)
        /\ counts' = counts /\ previous' = previous /\ deltas' = deltas
        /\ reconnects' = reconnects /\ refreshes' = refreshes
        /\ passes' = passes /\ inputs' = inputs
    BY <1>4 DEF RefuseCycle
  <2>2. Recorded = passes /\ Recorded' = passes
    BY <2>1 DEF Recorded
  <2>3. CountsOf(counts', Recorded')
    BY <2>1, <2>2 DEF CountsInv
  <2>4. /\ previous'.reconnects <= reconnects'
        /\ previous'.refreshes <= refreshes'
    BY <1>0, <2>1 DEF CountsInv, Previous
  <2> QED BY <2>1, <2>3, <2>4 DEF CountsInv
<1>5. CASE RunCycle
  <2>1. /\ step = "cycle" /\ step' = "record" /\ ReachesGate(inputs)
        /\ counts' = counts /\ previous' = previous /\ deltas' = deltas
        /\ last' \in PassChoices /\ passes' = Append(passes, last')
        /\ inputs' = inputs
        /\ reconnects' \in {reconnects, reconnects + 1}
        /\ refreshes' \in {refreshes, refreshes + 1}
    BY <1>5 DEF RunCycle, Poll
  <2>2. Earlier' = passes
    <3>1. [i \in 1 .. Len(Append(passes, last')) - 1 |->
              Append(passes, last')[i]] = passes
      BY <1>0, <2>1, AppendedPass
    <3> QED BY <2>1, <3>1, Zenon DEF Earlier
  <2>3. Recorded = passes /\ Recorded' = passes
    BY <2>1, <2>2 DEF Recorded
  <2>4. CountsOf(counts', Recorded')
    BY <2>1, <2>3 DEF CountsInv
  <2>5. /\ previous'.reconnects <= reconnects'
        /\ previous'.refreshes <= refreshes'
    BY <1>0, <2>1 DEF CountsInv, Previous
  <2> QED BY <2>1, <2>4, <2>5 DEF CountsInv
<1>6. CASE Record
  <2>1. /\ step = "record" /\ step' = "test" /\ passes' = passes
        /\ reconnects' = reconnects /\ refreshes' = refreshes
        /\ previous' = Previous /\ counts' = Counted(counts, last)
        /\ deltas' = [reconnects |-> Rise(deltas.reconnects,
                                          reconnects - previous.reconnects),
                      refreshes |-> Rise(deltas.refreshes,
                                         refreshes - previous.refreshes)]
    BY <1>6 DEF Record
  <2>2. CountsOf(counts', passes)
    <3>1. CASE ReachesGate(inputs)
      <4>1. Len(passes) > 0 /\ passes[Len(passes)] = last
        BY <2>1, <3>1 DEF LastIsLast
      <4>2. /\ Earlier \in Seq(PassChoices) /\ last \in PassChoices
            /\ passes = Append(Earlier, last)
        BY <1>0, <4>1, EarlierAndLast
      <4>3. CountsOf(counts, Earlier)
        BY <2>1, <3>1 DEF CountsInv, Recorded
      <4>4. CountsOf(Counted(counts, last), Append(Earlier, last))
        BY <1>0, <4>2, <4>3, CountedMore
      <4> QED BY <2>1, <4>2, <4>4
    <3>2. CASE ~ ReachesGate(inputs)
      <4>1. last = NoPass
        BY <2>1, <3>2 DEF InputsDecide, NothingToRecord
      <4>2. counts' = counts
        BY <1>0, <2>1, <4>1, CountedMore
      <4>3. Recorded = passes
        BY <3>2 DEF Recorded
      <4> QED BY <2>1, <4>2, <4>3 DEF CountsInv
    <3> QED BY <3>1, <3>2
  <2>3. Recorded' = passes
    BY <2>1 DEF Recorded
  <2>4. /\ Total(deltas'.reconnects) = reconnects
        /\ Total(deltas'.refreshes) = refreshes
    <3>1. /\ Total(deltas.reconnects) = previous.reconnects
          /\ Total(deltas.refreshes) = previous.refreshes
          /\ previous.reconnects <= reconnects
          /\ previous.refreshes <= refreshes
      BY <2>1 DEF CountsInv
    <3>2. /\ Total(Rise(deltas.reconnects, reconnects - previous.reconnects))
               = reconnects
          /\ Total(Rise(deltas.refreshes, refreshes - previous.refreshes))
               = refreshes
      BY <1>0, <3>1, RiseAdds
    <3> QED BY <2>1, <3>2
  <2> QED BY <2>1, <2>2, <2>3, <2>4 DEF CountsInv, Previous
<1>7. CASE UNCHANGED vars
  <2>1. Recorded' = Recorded
    BY <1>7 DEF vars, Recorded, Earlier
  <2>2. CountsOf(counts', Recorded') <=> CountsOf(counts, Recorded)
    BY <1>7, <2>1 DEF vars
  <2> QED BY <1>7, <2>2 DEF vars, CountsInv, Previous
<1> QED BY <1>1, <1>2, <1>3, <1>4, <1>5, <1>6, <1>7 DEF Next

-----------------------------------------------------------------------------
(* A loop that goes on has seen nothing to stop for.                       *)

\* A clean sequence and a pass that settles are a clean sequence.
LEMMA CleanGrows ==
    /\ Clean(<<>>)
    /\ \A q \in Seq(PassChoices), p \in PassChoices :
         Clean(q) /\ Settles(p) => Clean(Append(q, p))
<1>1. Clean(<<>>)
  BY DEF Clean
<1>2. ASSUME NEW q \in Seq(PassChoices), NEW p \in PassChoices,
             Clean(q), Settles(p)
      PROVE  Clean(Append(q, p))
  <2>1. /\ Len(q) \in Nat /\ DOMAIN q = 1 .. Len(q)
        /\ DOMAIN Append(q, p) = 1 .. Len(q) + 1
        /\ Append(q, p)[Len(q) + 1] = p
        /\ \A i \in 1 .. Len(q) : Append(q, p)[i] = q[i]
    BY LenProperties, AppendProperties
  <2>2. \A i \in 1 .. Len(q) + 1 : i = Len(q) + 1 \/ i \in 1 .. Len(q)
    BY <2>1
  <2> QED BY <1>2, <2>1, <2>2, Zenon DEF Clean
<1> QED BY <1>1, <1>2

\* A cycle after which the loop goes on leaves the session clean.
LEMMA GoingOnIsClean ==
    ASSUME TypeInv, InputsDecide, LastIsLast, CleanInv,
           step = "test", StopReason = "completed"
    PROVE  /\ reason = "completed" /\ Clean(passes) /\ stream # "terminated"
           /\ counts.blocked < MaxBlocked
<1>1. /\ ExchangeHealth(stream, last) # "fatal"
      /\ ~ (counts.blocked >= MaxBlocked)
  BY DEF StopReason
<1>2. stream # "terminated" /\ Settles(last)
  BY <1>1, HealthFacts DEF Settles, TypeInv, TypeOK
<1>3. counts.blocked < MaxBlocked
  <2>1. counts.blocked \in Nat
    BY DEF TypeInv
  <2> QED BY <1>1, <2>1
<1>4. reason = "completed" /\ Clean(Earlier)
  BY DEF CleanInv
<1>5. Clean(passes)
  <2>1. CASE ReachesGate(inputs)
    <3>1. Len(passes) > 0 /\ passes[Len(passes)] = last
      BY <2>1 DEF LastIsLast
    <3>2. passes \in Seq(PassChoices)
      BY DEF TypeInv
    <3>3. /\ Earlier \in Seq(PassChoices) /\ last \in PassChoices
          /\ passes = Append(Earlier, last)
      BY <3>1, <3>2, EarlierAndLast
    <3> QED BY <1>2, <1>4, <3>3, CleanGrows, Zenon
  <2>2. CASE ~ ReachesGate(inputs)
    BY <2>2, CleanGrows DEF InputsDecide, NothingToRecord
  <2> QED BY <2>1, <2>2
<1> QED BY <1>2, <1>3, <1>4, <1>5

LEMMA CleanStep ==
    TypeInv /\ InputsDecide /\ LastIsLast /\ CleanInv /\ [Next]_vars
      => CleanInv'
<1> SUFFICES ASSUME TypeInv, InputsDecide, LastIsLast, CleanInv, [Next]_vars
             PROVE  CleanInv'
  OBVIOUS
<1> USE DEF timeVars, sourceVars, recordVars
<1>0. passes \in Seq(PassChoices)
  BY DEF TypeInv
<1>1. CASE StartSession
  <2>1. /\ step' = "check" /\ passes' = <<>> /\ reason' = "completed"
        /\ stream' = "none" /\ healths' = <<>>
    BY <1>1 DEF StartSession
  <2>2. Len(healths') = 0
    BY <2>1, BlankRecords
  <2> QED BY <2>1, <2>2, CleanGrows DEF CleanInv
<1>2. CASE RefuseSession \/ CycleRaises \/ Finish
  <2>1. step' = "off"
    BY <1>2 DEF RefuseSession, CycleRaises, Finish, Leave
  <2> QED BY <2>1 DEF CleanInv
<1>3. CASE StartCycle
  <2>1. /\ step = "check" /\ step' = "cycle" /\ passes' = passes
        /\ reason' = reason /\ stream' = stream /\ healths' = healths
        /\ counts' = counts
    BY <1>3 DEF StartCycle
  <2> QED BY <2>1 DEF CleanInv
<1>4. CASE EndLoop
  <2>1. /\ step = "check" /\ step' = "ended" /\ passes' = passes
        /\ reason' = reason /\ stream' = stream /\ healths' = healths
        /\ counts' = counts /\ cycle' = cycle /\ now' = now
        /\ deadline' = deadline /\ LoopIsOver
    BY <1>4 DEF EndLoop
  <2>2. LoopIsOver'
    BY <2>1 DEF LoopIsOver
  <2> QED BY <2>1, <2>2 DEF CleanInv
<1>5. CASE RefuseCycle \/ RunCycle
  <2>1. step = "cycle" /\ step' = "record" /\ reason' = reason
    BY <1>5 DEF RefuseCycle, RunCycle
  <2>2. Clean(Earlier')
    <3>1. CASE RefuseCycle
      <4>1. passes' = passes /\ Clean(passes)
        BY <2>1, <3>1 DEF RefuseCycle, CleanInv
      <4>2. \A i \in 1 .. Len(passes) - 1 : i \in DOMAIN passes
        BY <1>0, LenProperties
      <4>3. Clean(Earlier)
        BY <4>1, <4>2 DEF Clean, Earlier
      <4>4. Earlier' = Earlier
        BY <4>1 DEF Earlier
      <4> QED BY <4>3, <4>4
    <3>2. CASE RunCycle
      <4>1. /\ last' \in PassChoices /\ passes' = Append(passes, last')
        BY <3>2 DEF RunCycle
      <4>2. [i \in 1 .. Len(Append(passes, last')) - 1 |->
                Append(passes, last')[i]] = passes
        BY <1>0, <4>1, AppendedPass
      <4>3. Earlier' = passes
        BY <4>1, <4>2, Zenon DEF Earlier
      <4> QED BY <2>1, <4>3 DEF CleanInv
    <3> QED BY <1>5, <3>1, <3>2
  <2> QED BY <2>1, <2>2 DEF CleanInv
<1>6. CASE Record
  <2>1. /\ step = "record" /\ step' = "test" /\ passes' = passes
        /\ reason' = reason
    BY <1>6 DEF Record
  <2>2. Earlier' = Earlier
    BY <2>1 DEF Earlier
  <2> QED BY <2>1, <2>2 DEF CleanInv
<1>7. CASE Stop
  <2>1. step' = "ended" /\ reason' # "completed"
    BY <1>7 DEF Stop
  <2> QED BY <2>1 DEF CleanInv
<1>8. CASE DeadlinePassed
  <2>1. /\ step = "test" /\ step' = "ended" /\ StopReason = "completed"
        /\ now >= deadline /\ passes' = passes /\ reason' = reason
        /\ stream' = stream /\ healths' = healths /\ counts' = counts
        /\ cycle' = cycle /\ now' = now /\ deadline' = deadline
    BY <1>8 DEF DeadlinePassed
  <2>2. LoopIsOver'
    BY <2>1 DEF LoopIsOver
  <2>3. /\ Clean(passes) /\ stream # "terminated"
        /\ counts.blocked < MaxBlocked
    BY <2>1, GoingOnIsClean
  <2> QED BY <2>1, <2>2, <2>3 DEF CleanInv
<1>9. CASE Sleep
  <2>1. /\ step = "test" /\ step' = "check" /\ StopReason = "completed"
        /\ passes' = passes /\ reason' = reason
        /\ stream' = stream /\ healths' = healths /\ counts' = counts
    BY <1>9 DEF Sleep
  <2>2. /\ reason = "completed" /\ Clean(passes) /\ stream # "terminated"
        /\ counts.blocked < MaxBlocked
    BY <2>1, GoingOnIsClean
  <2> QED BY <2>1, <2>2 DEF CleanInv
<1>10. CASE UNCHANGED vars
  BY <1>10 DEF vars, CleanInv, Earlier, LoopIsOver
<1> QED
  BY <1>1, <1>2, <1>3, <1>4, <1>5, <1>6, <1>7, <1>8, <1>9, <1>10 DEF Next

-----------------------------------------------------------------------------
(* The theorems.                                                           *)

LEMMA SoakInit == Init => SoakInv
<1> SUFFICES ASSUME Init PROVE SoakInv
  OBVIOUS
<1>1. TypeInv
  BY TypeInit
<1>2. step = "off"
  BY DEF Init
<1> QED
  BY <1>1, <1>2 DEF SoakInv, InputsDecide, CountsInv, LastIsLast, CleanInv

LEMMA SoakInvariant == Spec => []SoakInv
<1>1. SoakInv /\ [Next]_vars => SoakInv'
  BY TypeStep, InputsStep, CountsStep, LastStep, CleanStep DEF SoakInv
<1> QED BY SoakInit, <1>1, PTL DEF Spec

\* The loop, its counts and its reasons stay within their types; manual
\* attention is never the reason given (RestrictedLiveSoakRunner.run).
THEOREM SoakTypes == Spec => []TypeOK
<1>1. SoakInv => TypeOK
  BY DEF SoakInv, TypeInv
<1> QED BY SoakInvariant, <1>1, PTL

\* Whatever the gate returns, and whichever cycles never reach it, the counts
\* of a session are of the passes of that session, each counted once, and its
\* reconnect and refresh events add up to the counters.
THEOREM CountsTellThePasses == Spec => []CountsAreOfPasses
<1>1. SoakInv => CountsAreOfPasses
  <2> SUFFICES ASSUME SoakInv, AtRest PROVE CountsAreOfPasses!2
    BY DEF CountsAreOfPasses
  <2>1. /\ step \notin {"off", "record"} /\ passes \in Seq(PassChoices)
        /\ CountsInv
    BY DEF SoakInv, TypeInv, AtRest
  <2>2. Recorded = passes
    BY <2>1 DEF Recorded
  <2>3. /\ CountsOf(counts, passes)
        /\ Total(deltas.reconnects) = previous.reconnects
        /\ Total(deltas.refreshes) = previous.refreshes
        /\ previous.reconnects = reconnects
        /\ previous.refreshes = refreshes
    BY <2>1, <2>2 DEF CountsInv, Previous
  <2>4. \A i \in DOMAIN passes : passes[i] \in PassChoices
    BY <2>1, LenProperties, ElementOfSeq
  <2>5. /\ {i \in DOMAIN passes : passes[i] \in Blocking}
             = {i \in DOMAIN passes : Blocked(passes[i])}
        /\ {i \in DOMAIN passes : passes[i] \in Asking}
             = {i \in DOMAIN passes : passes[i].queries > 0}
    BY <2>4 DEF Blocking, Asking
  <2> QED
    BY <2>3, <2>5, Zenon DEF CountsOf, Times, HowMany, QueriesOf
<1> QED BY SoakInvariant, <1>1, PTL

\* A recovery success rate of one says that every workflow of the session
\* converged, in every session the loop can run.
THEOREM RateIsConvergence == Spec => []RateTellsConvergence
<1>1. SoakInv => RateTellsConvergence
  <2> SUFFICES ASSUME SoakInv, AtRest PROVE RateTellsConvergence!2
    BY DEF RateTellsConvergence
  <2> DEFINE good == {i \in DOMAIN passes : passes[i] \in Succeeding}
             all == {i \in DOMAIN passes : passes[i] \in Asking}
  <2>1. /\ step \notin {"off", "record"} /\ passes \in Seq(PassChoices)
        /\ CountsInv
    BY DEF SoakInv, TypeInv, AtRest
  <2>2. /\ counts.successes = Cardinality(good)
        /\ counts.workflows = Cardinality(all)
    <3>1. Recorded = passes
      BY <2>1 DEF Recorded
    <3> QED BY <2>1, <3>1 DEF CountsInv, CountsOf, Times
  <2>3. \A i \in DOMAIN passes : passes[i] \in PassChoices
    BY <2>1, LenProperties, ElementOfSeq
  <2>4. good \in SUBSET all
    BY <2>3, PassFacts DEF Succeeding, Asking
  <2>5. IsFiniteSet(all)
    <3>1. IsFiniteSet(DOMAIN passes)
      BY <2>1, LenProperties, FS_Interval
    <3>2. all \in SUBSET (DOMAIN passes)
      OBVIOUS
    <3> HIDE DEF all
    <3> QED BY <3>1, <3>2, FS_Subset
  <2>6. /\ Cardinality(good) <= Cardinality(all)
        /\ Cardinality(good) = Cardinality(all) => good = all
    <3> HIDE DEF good, all
    <3> QED BY <2>4, <2>5, FS_Subset
  <2>7. ASSUME good = all, NEW i \in DOMAIN passes, passes[i].queries > 0
        PROVE  passes[i].convergence = "converged_terminal"
    <3>1. i \in all
      BY <2>3, <2>7 DEF Asking
    <3>2. i \in good
      BY <2>7, <3>1
    <3> QED BY <3>2 DEF Succeeding, Succeeded
  <2> HIDE DEF good, all
  <2> QED BY <2>2, <2>6, <2>7
<1> QED BY SoakInvariant, <1>1, PTL

\* A session that ends as completed went to its deadline or its last cycle,
\* without manual attention in a pass, below its limit of blocked mutations and
\* with a stream that is not terminated, whatever its limits are.
THEOREM CompletedMeansClean == Spec => []CompletedIsClean
<1>1. SoakInv => CompletedIsClean
  <2> SUFFICES ASSUME SoakInv, step = "ended", reason = "completed"
               PROVE  CompletedIsClean!2
    BY DEF CompletedIsClean
  <2>1. cycle = MaxCycles \/ now >= deadline
    BY DEF SoakInv, CleanInv, LoopIsOver, TypeInv, TypeOK
  <2>2. /\ Clean(passes) /\ stream # "terminated"
        /\ Len(healths) > 0 => counts.blocked < MaxBlocked
    BY DEF SoakInv, CleanInv
  <2>3. counts.blocked = HowMany(Blocked)
    <3>1. AtRest /\ CountsInv /\ passes \in Seq(PassChoices)
      BY DEF AtRest, SoakInv, TypeInv
    <3>2. Recorded = passes /\ step # "off"
      BY DEF Recorded
    <3>3. counts.blocked = Times(passes, Blocking)
      BY <3>1, <3>2 DEF CountsInv, CountsOf
    <3>4. \A i \in DOMAIN passes : passes[i] \in PassChoices
      BY <3>1, LenProperties, ElementOfSeq
    <3>5. {i \in DOMAIN passes : passes[i] \in Blocking}
             = {i \in DOMAIN passes : Blocked(passes[i])}
      BY <3>4 DEF Blocking
    <3> QED BY <3>3, <3>5, Zenon DEF Times, HowMany
  <2> QED BY <2>1, <2>2, <2>3 DEF Clean, Settles
<1> QED BY SoakInvariant, <1>1, PTL
=============================================================================
