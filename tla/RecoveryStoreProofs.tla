------------------------- MODULE RecoveryStoreProofs -------------------------
(***************************************************************************)
(* Theorems about RecoveryStore, for every set of orders, every set of     *)
(* batches and alerts, and every limit on rounds and attempts.             *)
(***************************************************************************)
EXTENDS RecoveryStore, FiniteSetTheorems, SequenceTheorems, TLAPS

USE OrdersAssumption, KindsAssumption, ChoicesAssumption, MissesAssumption,
    LimitAssumption

-----------------------------------------------------------------------------
(* The numbers that one pass adds to an id.                                *)

\* An outcome that occurs among the answers of an id occurs a first time.
LEMMA FirstIndexType ==
    ASSUME NEW k, answers[k] \in Seq(Outcome),
           NEW i \in DOMAIN answers[k]
    PROVE  /\ FirstIndex(k, answers[k][i]) \in DOMAIN answers[k]
           /\ FirstIndex(k, answers[k][i]) \in Nat
           /\ answers[k][FirstIndex(k, answers[k][i])] = answers[k][i]
<1> DEFINE S == {j \in DOMAIN answers[k] : answers[k][j] = answers[k][i]}
           R == OpToRel(<, Nat)
<1>1. DOMAIN answers[k] \subseteq Nat
  BY LenProperties
<1>2. \A x, y \in Nat : x < y => <<x, y>> \in R
  BY Zenon DEF OpToRel
<1>3. S \subseteq Nat /\ S # {}
  BY <1>1
<1>4. IsWellFoundedOn(R, Nat)
  BY NatLessThanWellFounded, Zenon
<1>5. PICK m \in S : \A j \in S : ~ (<<j, m>> \in R)
  <2> HIDE DEF S, R
  <2> QED BY <1>3, <1>4, WFMin, ZenonT(60)
<1> HIDE DEF R
<1>6. \A j \in S : m <= j
  <2> SUFFICES ASSUME NEW j \in S PROVE m <= j
    OBVIOUS
  <2> HIDE DEF S
  <2>1. j \in Nat /\ m \in Nat
    BY <1>3
  <2>2. ~ (j < m)
    BY <1>2, <1>5, <2>1
  <2> QED BY <2>1, <2>2
<1>7. /\ m \in DOMAIN answers[k] /\ answers[k][m] = answers[k][i]
      /\ \A j \in DOMAIN answers[k] : answers[k][j] = answers[k][i] => m <= j
  BY <1>5, <1>6
<1>8. /\ FirstIndex(k, answers[k][i]) \in DOMAIN answers[k]
      /\ answers[k][FirstIndex(k, answers[k][i])] = answers[k][i]
  BY <1>7 DEF FirstIndex
<1>9. FirstIndex(k, answers[k][i]) \in Nat
  BY <1>1, <1>8
<1> HIDE DEF S
<1> QED BY <1>8, <1>9

\* The new outcomes of an id are finitely many, each at a place of its own.
LEMMA NewOutcomesFinite ==
    ASSUME NEW k, answers[k] \in Seq(Outcome)
    PROVE  /\ IsFiniteSet(NewOutcomes(k))
           /\ \A x \in NewOutcomes(k) : FirstIndex(k, x) \in Nat
           /\ \A x, y \in NewOutcomes(k) :
                 FirstIndex(k, x) = FirstIndex(k, y) => x = y
           /\ NewOutcomes(k) \subseteq Outcome
<1> DEFINE D == DOMAIN answers[k]
           A == {answers[k][i] : i \in D}
<1>1. D = 1 .. Len(answers[k]) /\ Len(answers[k]) \in Nat
  BY LenProperties
<1>2. IsFiniteSet(D)
  BY <1>1, FS_Interval
<1>3. [i \in D |-> answers[k][i]] \in Surjection(D, A)
  BY DEF Surjection
<1>4. IsFiniteSet(A)
  <2> HIDE DEF D, A
  <2> QED BY <1>2, <1>3, FS_Surjection
<1>5. NewOutcomes(k) \subseteq A
  BY DEF NewOutcomes
<1>6. \A x \in A : FirstIndex(k, x) \in D /\ FirstIndex(k, x) \in Nat
                     /\ answers[k][FirstIndex(k, x)] = x
  BY FirstIndexType
<1>7. A \subseteq Outcome
  BY <1>1, ElementOfSeq
<1>8. IsFiniteSet(NewOutcomes(k))
  <2> HIDE DEF A
  <2> QED BY <1>4, <1>5, FS_Subset
<1> HIDE DEF A, D
<1> QED BY <1>5, <1>6, <1>7, <1>8

\* They are ranked 1, 2, ... in the order they came in: the ranks are those
\* numbers, and no two outcomes share one.
LEMMA RanksAreAnInterval ==
    ASSUME NEW k, answers[k] \in Seq(Outcome)
    PROVE  /\ {RankAmongNew(k, x) : x \in NewOutcomes(k)}
                = 1 .. Cardinality(NewOutcomes(k))
           /\ \A x, y \in NewOutcomes(k) :
                 RankAmongNew(k, x) = RankAmongNew(k, y) => x = y
<1> DEFINE N == NewOutcomes(k)
           F(x) == FirstIndex(k, x)
           Below(x) == {z \in N : F(z) <= F(x)}
           c == Cardinality(N)
<1>1. IsFiniteSet(N) /\ (\A x \in N : F(x) \in Nat)
        /\ (\A x, y \in N : F(x) = F(y) => x = y)
  BY NewOutcomesFinite
<1>2. \A x : RankAmongNew(k, x) = Cardinality(Below(x))
  BY DEF RankAmongNew
<1> HIDE DEF N, F
<1>3. c \in Nat
  BY <1>1, FS_CardinalityType
<1>4. \A x \in N : IsFiniteSet(Below(x)) /\ x \in Below(x)
                     /\ Cardinality(Below(x)) \in 1 .. c
  <2> SUFFICES ASSUME NEW x \in N
               PROVE  IsFiniteSet(Below(x)) /\ x \in Below(x)
                        /\ Cardinality(Below(x)) \in 1 .. c
    OBVIOUS
  <2>1. Below(x) \in SUBSET N /\ x \in Below(x)
    BY <1>1
  <2> HIDE DEF Below
  <2>2. IsFiniteSet(Below(x)) /\ Cardinality(Below(x)) <= c
    BY <1>1, <2>1, FS_Subset
  <2>3. Cardinality(Below(x)) \in Nat /\ Cardinality(Below(x)) # 0
    BY <2>1, <2>2, FS_CardinalityType, FS_EmptySet
  <2> QED BY <1>3, <2>1, <2>2, <2>3
<1>5. \A x, y \in N : F(x) < F(y) => Cardinality(Below(x)) # Cardinality(Below(y))
  <2> SUFFICES ASSUME NEW x \in N, NEW y \in N, F(x) < F(y),
                      Cardinality(Below(x)) = Cardinality(Below(y))
               PROVE  FALSE
    OBVIOUS
  <2>1. Below(x) \in SUBSET Below(y) /\ y \notin Below(x) /\ y \in Below(y)
    BY <1>1
  <2>2. IsFiniteSet(Below(y))
    BY <1>4
  <2> HIDE DEF Below
  <2> QED BY <2>1, <2>2, FS_Subset
<1>6. \A x, y \in N : Cardinality(Below(x)) = Cardinality(Below(y)) => x = y
  BY <1>1, <1>5
<1> DEFINE rank == [x \in N |-> Cardinality(Below(x))]
<1>7. rank \in Injection(N, 1 .. c)
  <2>1. rank \in [N -> 1 .. c]
    BY <1>4
  <2>2. \A x, y \in N : rank[x] = rank[y] => x = y
    BY <1>6
  <2> HIDE DEF rank
  <2> QED BY <2>1, <2>2 DEF Injection, IsInjective
<1>8. rank \in Surjection(N, 1 .. c)
  <2>1. IsFiniteSet(1 .. c) /\ Cardinality(1 .. c) = c
    BY <1>3, FS_Interval
  <2> HIDE DEF rank
  <2> QED BY <1>7, <2>1, FS_Injection
<1>9. {rank[x] : x \in N} = 1 .. c
  <2> HIDE DEF rank
  <2>1. rank \in [N -> 1 .. c] /\ \A t \in 1 .. c : \E x \in N : rank[x] = t
    BY <1>8 DEF Surjection
  <2> QED BY <2>1
<1>10. {RankAmongNew(k, x) : x \in N} = 1 .. c
  BY <1>2, <1>9
<1> QED BY <1>2, <1>6, <1>10 DEF N

-----------------------------------------------------------------------------
(* The inductive invariant.                                                *)

\* A lookup by client id is kept only when it settled its order.
ClientAnswersSettle ==
    \A o \in Orders : \A i \in DOMAIN answers[ClientId(o)] :
        answers[ClientId(o)][i] = "done"

\* Once the first write of a pass is done, every answer of the pass is on file.
AnswersAreOnFile ==
    phase \in {"persist", "persisting"} =>
        \A k \in Key : \A i \in DOMAIN answers[k] :
            \E a \in file.attempts : a.key = k /\ a.outcome = answers[k][i]

AttemptsAreFinite == \A k \in Key : IsFiniteSet(Registered(k))

Numbering ==
    /\ AttemptsAreFinite
    /\ AttemptNumbersAreUnique
    /\ NoAttemptNumberIsSkipped

IInv ==
    /\ TypeOK
    /\ ClientAnswersSettle
    /\ AnswersAreOnFile
    /\ Numbering
    /\ ResumeListHoldsExchangeIds
    /\ ManualAttentionIsExplained

LEMMA KeyShapes ==
    /\ \A o \in Orders : ExchangeId(o) \in Key /\ ClientId(o) \in Key
    /\ \A k \in Key : /\ k[1] \in Orders /\ k[2] \in {"exchange", "client"}
                       /\ k = IF k[2] = "exchange" THEN ExchangeId(k[1])
                              ELSE ClientId(k[1])
    /\ \A o \in Orders : /\ ExchangeId(o)[1] = o /\ ExchangeId(o)[2] = "exchange"
                         /\ ClientId(o)[1] = o /\ ClientId(o)[2] = "client"
    /\ NoAnswers \in [Key -> Seq(Outcome)]
<1>1. NoAnswers \in [Key -> Seq(Outcome)]
  BY EmptySeq DEF NoAnswers
<1> QED BY <1>1 DEF Key, ExchangeId, ClientId

\* The highest number on file is the number of attempts on file.
LEMMA HighestIsCount ==
    ASSUME NEW k \in Key, Numbering
    PROVE  /\ HighestNumber(k) = Cardinality(Registered(k))
           /\ HighestNumber(k) \in Nat
<1> DEFINE c == Cardinality(Registered(k))
           S == {0} \cup {a.number : a \in Registered(k)}
<1>1. c \in Nat
  BY FS_CardinalityType DEF Numbering, AttemptsAreFinite
<1>2. S = 0 .. c
  BY <1>1 DEF Numbering, NoAttemptNumberIsSkipped
<1>3. \A m \in 0 .. c : (\A y \in 0 .. c : m >= y) => m = c
  BY <1>1
<1>4. c \in 0 .. c /\ \A y \in 0 .. c : c >= y
  BY <1>1
<1>5. Max(0 .. c) = c
  <2> HIDE DEF c
  <2> QED BY <1>3, <1>4 DEF Max
<1> QED BY <1>1, <1>2, <1>5 DEF HighestNumber

\* The attempts that one pass adds for an id.
LEMMA NewAttemptsOfKey ==
    ASSUME NEW a
    PROVE  a \in NewAttempts <=>
              \E k \in Key : \E x \in NewOutcomes(k) :
                 a = [key |-> k, outcome |-> x,
                      number |-> HighestNumber(k) + RankAmongNew(k, x)]
BY DEF NewAttempts

\* Registering keeps the numbering.
LEMMA RegisterKeepsNumbering ==
    ASSUME TypeOK, Numbering, RegisterLookups
    PROVE  Numbering' /\ file'.attempts \subseteq Attempt
<1> DEFINE new(k, x) == [key |-> k, outcome |-> x,
                         number |-> HighestNumber(k) + RankAmongNew(k, x)]
           c(k) == Cardinality(Registered(k))
           N(k) == NewOutcomes(k)
           Added(k) == {new(k, x) : x \in N(k)}
<1>1. file'.attempts = file.attempts \cup NewAttempts
  BY DEF RegisterLookups, TypeOK, Snapshot
<1>2. \A k \in Key : answers[k] \in Seq(Outcome)
  BY DEF TypeOK
<1>3. \A k \in Key : HighestNumber(k) = c(k) /\ c(k) \in Nat
  BY HighestIsCount
<1>4. \A k \in Key :
        /\ IsFiniteSet(N(k)) /\ N(k) \subseteq Outcome
        /\ Cardinality(N(k)) \in Nat
        /\ {RankAmongNew(k, x) : x \in N(k)} = 1 .. Cardinality(N(k))
        /\ \A x, y \in N(k) : RankAmongNew(k, x) = RankAmongNew(k, y) => x = y
  BY <1>2, NewOutcomesFinite, RanksAreAnInterval, FS_CardinalityType
<1>5. \A k \in Key : \A x \in N(k) :
        /\ RankAmongNew(k, x) \in 1 .. Cardinality(N(k))
        /\ new(k, x).number \in Nat /\ new(k, x).number > c(k)
        /\ new(k, x) \in Attempt
  <2> SUFFICES ASSUME NEW k \in Key, NEW x \in N(k)
               PROVE  /\ RankAmongNew(k, x) \in 1 .. Cardinality(N(k))
                      /\ new(k, x).number \in Nat /\ new(k, x).number > c(k)
                      /\ new(k, x) \in Attempt
    OBVIOUS
  <2>1. RankAmongNew(k, x) \in 1 .. Cardinality(N(k))
    BY <1>4
  <2>2. x \in Outcome
    BY <1>4
  <2> HIDE DEF N, c
  <2> QED BY <1>3, <1>4, <2>1, <2>2 DEF Attempt
<1>6. \A k \in Key : Registered(k)' = Registered(k) \cup Added(k)
  <2> SUFFICES ASSUME NEW k \in Key, NEW a
               PROVE  a \in Registered(k)' <=> a \in Registered(k) \/ a \in Added(k)
    OBVIOUS
  <2>1. a \in NewAttempts /\ a.key = k <=> a \in Added(k)
    BY NewAttemptsOfKey
  <2> HIDE DEF Added
  <2> QED BY <1>1, <2>1 DEF Registered
<1>7. \A k \in Key : \A a \in Registered(k) :
        a.number \in 1 .. c(k) /\ a.outcome \notin N(k)
  BY DEF Numbering, NoAttemptNumberIsSkipped, NewOutcomes
<1>8. ASSUME NEW k \in Key
      PROVE  /\ IsFiniteSet(Added(k)) /\ Cardinality(Added(k)) = Cardinality(N(k))
             /\ {a.number : a \in Added(k)} = (c(k) + 1) .. (c(k) + Cardinality(N(k)))
  <2> DEFINE f == [x \in N(k) |-> new(k, x)]
  <2>1. f \in Surjection(N(k), Added(k))
    BY DEF Surjection
  <2>2. f \in Injection(N(k), Added(k))
    <3>1. f \in [N(k) -> Added(k)]
      OBVIOUS
    <3>2. \A x, y \in N(k) : f[x] = f[y] => x = y
      OBVIOUS
    <3> HIDE DEF f, N, Added
    <3> QED BY <3>1, <3>2 DEF Injection, IsInjective
  <2>3. IsFiniteSet(N(k))
    BY <1>4
  <2>4. IsFiniteSet(Added(k)) /\ Cardinality(Added(k)) = Cardinality(N(k))
    <3> HIDE DEF f, N, Added
    <3> QED BY <2>1, <2>2, <2>3, FS_Surjection
  <2>5. {a.number : a \in Added(k)} = {c(k) + RankAmongNew(k, x) : x \in N(k)}
    <3>1. \A x : new(k, x).number = c(k) + RankAmongNew(k, x)
      BY <1>3
    <3>2. {a.number : a \in Added(k)} = {new(k, x).number : x \in N(k)}
      BY Zenon
    <3> HIDE DEF new, c, N, Added
    <3> QED BY <3>1, <3>2, Zenon
  <2>6. {c(k) + RankAmongNew(k, x) : x \in N(k)}
          = {c(k) + r : r \in {RankAmongNew(k, x) : x \in N(k)}}
    OBVIOUS
  <2>7. {c(k) + r : r \in 1 .. Cardinality(N(k))}
          = (c(k) + 1) .. (c(k) + Cardinality(N(k)))
    <3> DEFINE n == Cardinality(N(k))
               d == c(k)
    <3>1. n \in Nat /\ d \in Nat
      BY <1>3, <1>4
    <3> HIDE DEF n, d
    <3>2. \A z \in (d + 1) .. (d + n) : z - d \in 1 .. n /\ z = d + (z - d)
      BY <3>1
    <3>3. {d + r : r \in 1 .. n} = (d + 1) .. (d + n)
      BY <3>1, <3>2
    <3> QED BY <3>3 DEF n, d
  <2> HIDE DEF N, c, Added
  <2> QED BY <1>4, <2>4, <2>5, <2>6, <2>7
<1>9. ASSUME NEW k \in Key
      PROVE  /\ IsFiniteSet(Registered(k)')
             /\ Cardinality(Registered(k)') = c(k) + Cardinality(N(k))
             /\ {a.number : a \in Registered(k)'} = 1 .. Cardinality(Registered(k)')
  <2>1. Registered(k) \cap Added(k) = {}
    BY <1>5, <1>7
  <2>2. IsFiniteSet(Registered(k))
    BY DEF Numbering, AttemptsAreFinite
  <2>3. IsFiniteSet(Added(k)) /\ Cardinality(Added(k)) = Cardinality(N(k))
    BY <1>8
  <2> HIDE DEF Added, N
  <2>4. /\ IsFiniteSet(Registered(k)')
        /\ Cardinality(Registered(k)') = c(k) + Cardinality(N(k))
    <3>1. /\ IsFiniteSet(Registered(k) \cup Added(k))
          /\ Cardinality(Registered(k) \cup Added(k))
                = c(k) + Cardinality(N(k)) - Cardinality({})
      BY <2>1, <2>2, <2>3, FS_Union
    <3>2. Cardinality({}) = 0
      BY FS_EmptySet
    <3>3. Registered(k)' = Registered(k) \cup Added(k)
      BY <1>6
    <3>4. c(k) \in Nat /\ Cardinality(N(k)) \in Nat
      BY <1>3, <1>4
    <3> HIDE DEF c
    <3>5. c(k) + Cardinality(N(k)) - Cardinality({}) = c(k) + Cardinality(N(k))
      BY <3>2, <3>4
    <3> QED BY <3>1, <3>3, <3>5, Zenon
  <2>5. {a.number : a \in Registered(k)'}
          = {a.number : a \in Registered(k)} \cup {a.number : a \in Added(k)}
    BY <1>6
  <2>6. {a.number : a \in Registered(k)} = 1 .. c(k)
    BY DEF Numbering, NoAttemptNumberIsSkipped
  <2>7. {a.number : a \in Added(k)} = (c(k) + 1) .. (c(k) + Cardinality(N(k)))
    BY <1>8
  <2>8. (1 .. c(k)) \cup ((c(k) + 1) .. (c(k) + Cardinality(N(k))))
          = 1 .. (c(k) + Cardinality(N(k)))
    BY <1>3, <1>4
  <2> HIDE DEF c
  <2> QED BY <2>4, <2>5, <2>6, <2>7, <2>8
<1>10. AttemptsAreFinite' /\ NoAttemptNumberIsSkipped'
  BY <1>9 DEF AttemptsAreFinite, NoAttemptNumberIsSkipped
<1>11. AttemptNumbersAreUnique'
  <2> SUFFICES ASSUME NEW a \in file'.attempts, NEW b \in file'.attempts,
                      a.key = b.key, a.number = b.number \/ a.outcome = b.outcome
               PROVE  a = b
    BY DEF AttemptNumbersAreUnique
  <2>1. CASE a \in file.attempts /\ b \in file.attempts
    BY <2>1 DEF Numbering, AttemptNumbersAreUnique
  <2>2. \A p \in file.attempts : p.key \in Key /\ p \in Registered(p.key)
    BY DEF TypeOK, Snapshot, Attempt, Registered
  <2>3. CASE a \in NewAttempts /\ b \in NewAttempts
    <3>1. PICK k \in Key : \E x \in N(k) : a = new(k, x)
      BY <2>3, NewAttemptsOfKey
    <3>2. PICK x \in N(k) : a = new(k, x)
      BY <3>1
    <3>3. PICK y \in N(k) : b = new(k, y)
      BY <2>3, <3>2, NewAttemptsOfKey
    <3>4. RankAmongNew(k, x) \in Nat /\ RankAmongNew(k, y) \in Nat
      BY <1>4, <1>5
    <3>5. a.number = b.number => RankAmongNew(k, x) = RankAmongNew(k, y)
      BY <1>3, <3>2, <3>3, <3>4
    <3>6. x = y
      BY <1>4, <3>2, <3>3, <3>5
    <3> QED BY <3>2, <3>3, <3>6
  <2>4. ASSUME NEW p \in file.attempts, NEW q \in NewAttempts, p.key = q.key
        PROVE  p.number # q.number /\ p.outcome # q.outcome
    <3>1. PICK k \in Key : \E x \in N(k) : q = new(k, x)
      BY NewAttemptsOfKey
    <3>2. PICK x \in N(k) : q = new(k, x)
      BY <3>1
    <3>3. p \in Registered(k)
      BY <2>2, <2>4, <3>2
    <3>4. p.number \in 1 .. c(k) /\ p.outcome # x
      BY <1>7, <3>3
    <3>5. q.number > c(k) /\ q.outcome = x
      BY <1>5, <3>2
    <3> HIDE DEF c
    <3> QED BY <1>3, <3>4, <3>5
  <2> QED BY <1>1, <2>1, <2>3, <2>4
<1>12. file'.attempts \subseteq Attempt
  BY <1>1, <1>5, NewAttemptsOfKey DEF TypeOK, Snapshot
<1> QED BY <1>10, <1>11, <1>12 DEF Numbering

\* A write that leaves the attempts alone leaves their numbering alone.
LEMMA SameAttempts ==
    ASSUME Numbering, file'.attempts = file.attempts
    PROVE  Numbering'
<1>1. \A k : Registered(k)' = Registered(k)
  BY DEF Registered
<1> QED
  BY <1>1 DEF Numbering, AttemptsAreFinite, AttemptNumbersAreUnique,
              NoAttemptNumberIsSkipped

-----------------------------------------------------------------------------
(* The second write.                                                       *)

\* The states of a pass are filed under ids of its orders, those that are not
\* settled under exchange ids; an id left to the operator was answered by a
\* miss.
LEMMA StatesOfThePass ==
    ASSUME TypeOK, ClientAnswersSettle
    PROVE  /\ Unsettled \subseteq Key /\ LeftToOperator \subseteq Unsettled
           /\ \A k \in Unsettled : k[2] = "exchange"
           /\ \A k \in LeftToOperator :
                 \E i \in DOMAIN answers[k] : answers[k][i] \in Misses
           /\ PassConvergence \in Convergence
<1>1. \A k \in Key : answers[k] \in Seq(Outcome)
  BY DEF TypeOK
<1>2. Matched \cup Requested \subseteq Orders
  BY DEF TypeOK, Matched, Requested, Unknown, Missing
<1>3. \A k \in Key : FiledUnder(k) \in Key /\ FiledUnder(k) \in {k, ExchangeId(k[1])}
  BY KeyShapes DEF FiledUnder
<1>4. Reported \subseteq Key
  BY <1>2, <1>3, KeyShapes DEF Reported, Answered
<1>5. \A k \in Answered : /\ k \in Key /\ Len(answers[k]) \in DOMAIN answers[k]
                          /\ Latest(k) \in Outcome
  <2> SUFFICES ASSUME NEW k \in Answered
               PROVE  /\ k \in Key /\ Len(answers[k]) \in DOMAIN answers[k]
                      /\ Latest(k) \in Outcome
    OBVIOUS
  <2>1. k \in Key /\ answers[k] # <<>> /\ answers[k] \in Seq(Outcome)
    BY <1>1 DEF Answered
  <2>2. Len(answers[k]) \in 1 .. Len(answers[k]) /\ DOMAIN answers[k] = 1 .. Len(answers[k])
    BY <2>1, LenProperties, EmptySeq
  <2> QED BY <2>1, <2>2, ElementOfSeq DEF Latest
<1>6. \A k \in Answered : k[2] = "client" => LookupState(k) = "converged_terminal"
  <2> SUFFICES ASSUME NEW k \in Answered, k[2] = "client"
               PROVE  FoundDone(k)
    BY DEF LookupState
  <2>1. k = ClientId(k[1]) /\ k[1] \in Orders
    BY <1>5, KeyShapes
  <2> QED BY <1>5, <2>1 DEF ClientAnswersSettle, FoundDone
<1>7. \A k \in Unsettled : k[2] = "exchange"
  <2> SUFFICES ASSUME NEW k \in Unsettled, k[2] # "exchange" PROVE FALSE
    OBVIOUS
  <2>1. k \in Reported /\ k \in Key /\ k[2] = "client"
    BY <1>4, KeyShapes DEF Unsettled
  <2>2. \A o \in Orders : k # ExchangeId(o)
    BY <2>1 DEF ExchangeId
  <2>3. PICK j \in Answered : k = IF FoundDone(j) THEN FiledUnder(j) ELSE j
    BY <1>2, <2>1, <2>2 DEF Reported
  <2>4. k \in Answered
    <3>1. j \in Key /\ j[1] \in Orders
      BY <1>5, KeyShapes
    <3>2. CASE FoundDone(j)
      <4>1. k = FiledUnder(j)
        BY <2>3, <3>2
      <4>2. k = j \/ k = ExchangeId(j[1])
        BY <1>3, <3>1, <4>1
      <4> QED BY <2>2, <3>1, <4>2
    <3>3. CASE ~ FoundDone(j)
      BY <2>3, <3>3
    <3> QED BY <3>2, <3>3
  <2> QED BY <1>6, <2>1, <2>4 DEF Unsettled, FinalState
<1>8. \A k \in LeftToOperator :
        \E i \in DOMAIN answers[k] : answers[k][i] \in Misses
  <2> SUFFICES ASSUME NEW k \in LeftToOperator
               PROVE  \E i \in DOMAIN answers[k] : answers[k][i] \in Misses
    OBVIOUS
  <2>1. k \in Answered /\ LookupState(k) = "manual_attention"
    BY DEF LeftToOperator, FinalState
  <2>2. ~ FoundDone(k) /\ Latest(k) # "open"
    BY <2>1 DEF LookupState
  <2>3. Latest(k) \in Misses
    BY <1>5, <2>1, <2>2 DEF Outcome, FoundDone, Latest
  <2> QED BY <1>5, <2>1, <2>3 DEF Latest
<1>9. PassConvergence \in Convergence
  BY DEF PassConvergence, Convergence
<1> QED
  BY <1>4, <1>7, <1>8, <1>9 DEF Unsettled, LeftToOperator

-----------------------------------------------------------------------------
(* The invariant is inductive.                                             *)

LEMMA InitIInv == Init => IInv
<1> SUFFICES ASSUME Init PROVE IInv
  OBVIOUS
<1> USE DEF Init, EmptySnapshot
<1>1. TypeOK
  BY KeyShapes DEF TypeOK, Snapshot, Convergence, Phases
<1>2. ClientAnswersSettle
  BY KeyShapes DEF ClientAnswersSettle, NoAnswers
<1>3. AnswersAreOnFile
  BY DEF AnswersAreOnFile
<1>4. \A k : Registered(k) = {}
  BY DEF Registered
<1>5. Numbering
  <2>1. IsFiniteSet({}) /\ Cardinality({}) = 0
    BY FS_EmptySet
  <2>2. AttemptsAreFinite /\ AttemptNumbersAreUnique
    BY <1>4, <2>1 DEF AttemptsAreFinite, AttemptNumbersAreUnique
  <2>3. NoAttemptNumberIsSkipped
    <3>1. \A k \in Key : {a.number : a \in Registered(k)} = {}
      BY <1>4
    <3>2. 1 .. 0 = {}
      OBVIOUS
    <3>3. \A k \in Key : 1 .. Cardinality(Registered(k)) = {}
      BY <1>4, <2>1, <3>2, Zenon
    <3> QED BY <3>1, <3>3, Zenon DEF NoAttemptNumberIsSkipped
  <2> QED BY <2>2, <2>3 DEF Numbering
<1>6. ResumeListHoldsExchangeIds /\ ManualAttentionIsExplained
  BY DEF ResumeListHoldsExchangeIds, ManualAttentionIsExplained
<1> QED BY <1>1, <1>2, <1>3, <1>5, <1>6 DEF IInv

\* A file that a crash left torn holds nothing that could be wrong.
LEMMA NothingOnFile ==
    ASSUME file' = TornSnapshot
    PROVE  /\ file' \in Snapshot /\ Numbering'
           /\ ResumeListHoldsExchangeIds' /\ ManualAttentionIsExplained'
           /\ ConvergedMeansSettled'
<1>1. /\ file' = [torn |-> TRUE, attempts |-> {}, unresolved |-> {},
                  manual |-> {}, gap |-> FALSE, convergence |-> "none"]
  BY DEF TornSnapshot, EmptySnapshot
<1>2. /\ file'.attempts = {} /\ file'.unresolved = {} /\ file'.manual = {}
  BY <1>1
<1>3. file' \in Snapshot
  BY <1>1 DEF Snapshot, Convergence
<1>4. \A k : Registered(k)' = {}
  BY <1>2 DEF Registered
<1>5. IsFiniteSet({}) /\ Cardinality({}) = 0
  BY FS_EmptySet
<1>6. AttemptsAreFinite' /\ AttemptNumbersAreUnique'
  BY <1>2, <1>4, <1>5 DEF AttemptsAreFinite, AttemptNumbersAreUnique
<1>7. NoAttemptNumberIsSkipped'
  <2>1. \A k \in Key : {a.number : a \in Registered(k)'} = {}
    BY <1>4
  <2>2. 1 .. 0 = {}
    OBVIOUS
  <2>3. \A k \in Key : 1 .. Cardinality(Registered(k)') = {}
    BY <1>4, <1>5, <2>2, Zenon
  <2> QED BY <2>1, <2>3, Zenon DEF NoAttemptNumberIsSkipped
<1>8. /\ ResumeListHoldsExchangeIds' /\ ManualAttentionIsExplained'
      /\ ConvergedMeansSettled'
  BY <1>2 DEF ResumeListHoldsExchangeIds, ManualAttentionIsExplained,
              ConvergedMeansSettled
<1> QED BY <1>3, <1>6, <1>7, <1>8 DEF Numbering

\* Two kinds of step that leave most of the invariant alone: one that does not
\* write the file, and one that forgets the pass.
LEMMA NoWrite ==
    ASSUME IInv, UNCHANGED file, TypeOK', ClientAnswersSettle',
           phase' \notin {"persist", "persisting"} \/ UNCHANGED <<phase, answers>>
    PROVE  IInv'
<1>1. Numbering'
  BY SameAttempts DEF IInv
<1>2. AnswersAreOnFile'
  BY DEF IInv, AnswersAreOnFile
<1>3. ResumeListHoldsExchangeIds' /\ ManualAttentionIsExplained'
  BY DEF IInv, ResumeListHoldsExchangeIds, ManualAttentionIsExplained
<1> QED BY <1>1, <1>2, <1>3 DEF IInv

LEMMA ForgottenType ==
    ASSUME Forgotten
    PROVE  /\ ClientAnswersSettle'
           /\ batch' \subseteq Orders /\ awaited' \subseteq Orders
           /\ gap' \in BOOLEAN /\ round' \in Nat
           /\ asked' \subseteq Orders /\ switched' \subseteq Orders
           /\ answers' \in [Key -> Seq(Outcome)]
<1>1. answers' = NoAnswers
  BY DEF Forgotten
<1>2. \A o \in Orders : NoAnswers[ClientId(o)] = <<>>
  BY KeyShapes DEF NoAnswers
<1>3. ClientAnswersSettle'
  BY <1>1, <1>2 DEF ClientAnswersSettle
<1> QED BY <1>1, <1>3, KeyShapes DEF Forgotten

\* One more answer about an id.
LEMMA AppendAnswer ==
    ASSUME TypeOK, NEW k \in Key, NEW outcome \in Outcome,
           answers' = [answers EXCEPT ![k] = Append(@, outcome)]
    PROVE  /\ answers' \in [Key -> Seq(Outcome)]
           /\ \A i \in DOMAIN answers'[k] :
                 \/ i \in DOMAIN answers[k] /\ answers'[k][i] = answers[k][i]
                 \/ answers'[k][i] = outcome
           /\ \A j \in Key \ {k} : answers'[j] = answers[j]
<1>1. answers[k] \in Seq(Outcome) /\ answers'[k] = Append(answers[k], outcome)
  BY DEF TypeOK
<1>2. /\ answers'[k] \in Seq(Outcome)
      /\ DOMAIN answers'[k] = 1 .. Len(answers[k]) + 1
      /\ DOMAIN answers[k] = 1 .. Len(answers[k])
      /\ Len(answers[k]) \in Nat
      /\ \A i \in 1 .. Len(answers[k]) : answers'[k][i] = answers[k][i]
      /\ answers'[k][Len(answers[k]) + 1] = outcome
  BY <1>1, AppendProperties, LenProperties
<1>3. \A i \in 1 .. Len(answers[k]) + 1 :
        i \in 1 .. Len(answers[k]) \/ i = Len(answers[k]) + 1
  BY <1>2
<1> QED BY <1>1, <1>2, <1>3 DEF TypeOK

LEMMA StepIInv ==
    ASSUME IInv, [Next]_vars
    PROVE  IInv'
<1> USE DEF Phases
<1>1. TypeOK /\ ClientAnswersSettle /\ AnswersAreOnFile /\ Numbering
        /\ ResumeListHoldsExchangeIds /\ ManualAttentionIsExplained
  BY DEF IInv
<1>2. ASSUME NEW o \in Orders, EndOrder(o) PROVE IInv'
  <2>1. TypeOK' /\ ClientAnswersSettle' /\ UNCHANGED <<file, phase, answers>>
    BY <1>1, <1>2 DEF EndOrder, memory, TypeOK, ClientAnswersSettle
  <2> QED BY <2>1, NoWrite
<1>3. CASE CannotLoad
  <2>1. TypeOK' /\ ClientAnswersSettle' /\ UNCHANGED file /\ phase' = "dead"
    BY <1>1, <1>3 DEF CannotLoad, memory, TypeOK, ClientAnswersSettle
  <2> QED BY <2>1, NoWrite
<1>4. ASSUME NEW seen \in BatchChoices, NEW expectations \in Expectations,
             NEW hasGap \in BOOLEAN, StartPass(seen, expectations, hasGap)
      PROVE  IInv'
  <2>1. {k[1] : k \in file.unresolved} \subseteq Orders
    BY <1>1, KeyShapes DEF TypeOK, Snapshot
  <2>2. file.gap \in BOOLEAN
    BY <1>1 DEF TypeOK, Snapshot
  <2>3. TypeOK'
    BY <1>1, <1>4, <2>1, <2>2, KeyShapes DEF StartPass, TypeOK
  <2>4. ClientAnswersSettle' /\ UNCHANGED file /\ phase' = "lookup"
    BY <1>4, KeyShapes DEF StartPass, ClientAnswersSettle, NoAnswers
  <2> QED BY <2>3, <2>4, NoWrite
<1>5. ASSUME NEW o \in Orders, NEW outcome \in Outcome, LookupByClientId(o, outcome)
      PROVE  IInv'
  <2>1. UNCHANGED file /\ phase' = "lookup"
    BY <1>5 DEF LookupByClientId
  <2>2. CASE outcome = "done"
    <3>1. answers' = [answers EXCEPT ![ClientId(o)] = Append(@, outcome)]
      BY <1>5, <2>2 DEF LookupByClientId
    <3>2. /\ answers' \in [Key -> Seq(Outcome)]
          /\ \A i \in DOMAIN answers'[ClientId(o)] :
                \/ /\ i \in DOMAIN answers[ClientId(o)]
                   /\ answers'[ClientId(o)][i] = answers[ClientId(o)][i]
                \/ answers'[ClientId(o)][i] = outcome
          /\ \A j \in Key \ {ClientId(o)} : answers'[j] = answers[j]
      BY <1>1, <3>1, KeyShapes, AppendAnswer
    <3>3. TypeOK'
      BY <1>1, <1>5, <2>2, <3>2 DEF LookupByClientId, TypeOK
    <3>4. ASSUME NEW x \in Orders, NEW i \in DOMAIN answers'[ClientId(x)]
          PROVE  answers'[ClientId(x)][i] = "done"
      <4>1. CASE x = o
        BY <1>1, <2>2, <3>2, <4>1 DEF ClientAnswersSettle
      <4>2. CASE x # o
        <5>1. ClientId(x) \in Key \ {ClientId(o)}
          BY <4>2, KeyShapes DEF ClientId
        <5> QED BY <1>1, <3>2, <5>1 DEF ClientAnswersSettle
      <4> QED BY <4>1, <4>2
    <3>5. ClientAnswersSettle'
      BY <3>4 DEF ClientAnswersSettle
    <3> QED BY <2>1, <3>3, <3>5, NoWrite
  <2>3. CASE outcome # "done"
    <3>1. TypeOK' /\ ClientAnswersSettle'
      BY <1>1, <1>5, <2>3 DEF LookupByClientId, TypeOK, ClientAnswersSettle
    <3> QED BY <2>1, <3>1, NoWrite
  <2> QED BY <2>2, <2>3
<1>6. ASSUME NEW o \in Orders, NEW outcome \in Outcome, LookupByExchangeId(o, outcome)
      PROVE  IInv'
  <2>1. UNCHANGED file /\ phase' = "lookup"
        /\ answers' = [answers EXCEPT ![ExchangeId(o)] = Append(@, outcome)]
    BY <1>6 DEF LookupByExchangeId
  <2>2. /\ answers' \in [Key -> Seq(Outcome)]
        /\ \A j \in Key \ {ExchangeId(o)} : answers'[j] = answers[j]
    BY <1>1, <2>1, KeyShapes, AppendAnswer
  <2>3. TypeOK'
    BY <1>1, <1>6, <2>2 DEF LookupByExchangeId, TypeOK
  <2>4. \A x \in Orders : ClientId(x) \in Key \ {ExchangeId(o)}
    BY Zenon, KeyShapes DEF ClientId, ExchangeId
  <2>5. ClientAnswersSettle'
    BY <1>1, <2>2, <2>4 DEF ClientAnswersSettle
  <2> QED BY <2>1, <2>3, <2>5, NoWrite
<1>7. CASE NextRound
  <2>1. TypeOK' /\ ClientAnswersSettle' /\ UNCHANGED file /\ phase' = "lookup"
    BY <1>1, <1>7 DEF NextRound, TypeOK, ClientAnswersSettle
  <2> QED BY <2>1, NoWrite
<1>8. CASE EndLookups
  <2>1. TypeOK' /\ ClientAnswersSettle' /\ UNCHANGED file /\ phase' = "register"
    BY <1>1, <1>8 DEF EndLookups, memory, TypeOK, ClientAnswersSettle
  <2> QED BY <2>1, NoWrite
<1>9. ASSUME NEW from, NEW to, Truncate(from, to),
             <<from, to>> \in {<<"register", "registering">>,
                               <<"persist", "persisting">>}
      PROVE  IInv'
  <2>1. /\ UNCHANGED memory
        /\ file'.attempts = file.attempts /\ file'.unresolved = file.unresolved
        /\ file'.manual = file.manual /\ file' \in Snapshot
        /\ phase' = to /\ phase = from /\ UNCHANGED venue
    BY <1>1, <1>9 DEF Truncate, TypeOK, Snapshot
  <2>2. TypeOK' /\ ClientAnswersSettle'
    BY <1>1, <1>9, <2>1 DEF memory, TypeOK, ClientAnswersSettle
  <2>3. AnswersAreOnFile'
    BY <1>1, <1>9, <2>1 DEF memory, AnswersAreOnFile
  <2>4. ResumeListHoldsExchangeIds' /\ ManualAttentionIsExplained'
    BY <1>1, <2>1 DEF ResumeListHoldsExchangeIds, ManualAttentionIsExplained
  <2> QED BY <1>1, <2>1, <2>2, <2>3, <2>4, SameAttempts DEF IInv
<1>10. CASE RegisterLookups
  <2>1. Numbering' /\ file'.attempts \subseteq Attempt
    BY <1>1, <1>10, RegisterKeepsNumbering
  <2>2. /\ file' = [file EXCEPT !.torn = FALSE, !.attempts = @ \cup NewAttempts]
        /\ phase' = "persist" /\ UNCHANGED <<venue, memory>>
    BY <1>10 DEF RegisterLookups
  <2>3. /\ file'.attempts = file.attempts \cup NewAttempts
        /\ file'.unresolved = file.unresolved /\ file'.manual = file.manual
        /\ file' \in Snapshot
    BY <1>1, <2>1, <2>2 DEF TypeOK, Snapshot
  <2>4. TypeOK' /\ ClientAnswersSettle'
    BY <1>1, <2>2, <2>3 DEF memory, TypeOK, ClientAnswersSettle
  <2>5. ASSUME NEW k \in Key, NEW i \in DOMAIN answers[k]
        PROVE  \E a \in file'.attempts : a.key = k /\ a.outcome = answers[k][i]
    <3>1. CASE answers[k][i] \in NewOutcomes(k)
      <4> DEFINE a == [key |-> k, outcome |-> answers[k][i],
                       number |-> HighestNumber(k) + RankAmongNew(k, answers[k][i])]
      <4>1. a \in NewAttempts /\ a.key = k /\ a.outcome = answers[k][i]
        BY <3>1, NewAttemptsOfKey
      <4> QED BY <2>3, <4>1
    <3>2. CASE answers[k][i] \notin NewOutcomes(k)
      BY <2>3, <3>2 DEF NewOutcomes, Registered
    <3> QED BY <3>1, <3>2
  <2>6. AnswersAreOnFile'
    BY <2>2, <2>5 DEF memory, AnswersAreOnFile
  <2>7. ResumeListHoldsExchangeIds' /\ ManualAttentionIsExplained'
    BY <1>1, <2>3 DEF ResumeListHoldsExchangeIds, ManualAttentionIsExplained
  <2> QED BY <2>1, <2>4, <2>6, <2>7 DEF IInv
<1>11. CASE PersistWorkflow
  <2>1. /\ Unsettled \subseteq Key /\ LeftToOperator \subseteq Unsettled
        /\ \A k \in Unsettled : k[2] = "exchange"
        /\ \A k \in LeftToOperator :
              \E i \in DOMAIN answers[k] : answers[k][i] \in Misses
        /\ PassConvergence \in Convergence
    BY <1>1, StatesOfThePass
  <2>2. /\ file'.unresolved = (file.unresolved \ Reported) \cup Unsettled
        /\ file'.manual = (file.manual \ Reported) \cup LeftToOperator
        /\ file'.attempts = file.attempts
        /\ file' \in Snapshot
    BY <1>1, <1>11, <2>1 DEF PersistWorkflow, TypeOK, Snapshot
  <2>3. Forgotten /\ phase' = "idle" /\ UNCHANGED venue
    BY <1>11 DEF PersistWorkflow
  <2>4. TypeOK' /\ ClientAnswersSettle'
    BY <1>1, <2>2, <2>3, ForgottenType DEF TypeOK
  <2>5. ResumeListHoldsExchangeIds'
    BY <1>1, <2>1, <2>2 DEF ResumeListHoldsExchangeIds
  <2>6. ASSUME NEW k \in LeftToOperator
        PROVE  \E a \in file.attempts : a.key = k /\ a.outcome \in Misses
    <3>1. PICK i \in DOMAIN answers[k] : answers[k][i] \in Misses
      BY <2>1
    <3>2. phase = "persisting" /\ k \in Key
      BY <1>11, <2>1 DEF PersistWorkflow
    <3> QED BY <1>1, <3>1, <3>2 DEF AnswersAreOnFile
  <2>7. ManualAttentionIsExplained'
    <3> SUFFICES ASSUME NEW k \in file'.manual
                 PROVE  /\ k \in file'.unresolved
                        /\ \E a \in file'.attempts : a.key = k /\ a.outcome \in Misses
      BY DEF ManualAttentionIsExplained
    <3>1. CASE k \in file.manual \ Reported
      BY <1>1, <2>2, <3>1 DEF ManualAttentionIsExplained
    <3>2. CASE k \in LeftToOperator
      BY <2>1, <2>2, <2>6, <3>2
    <3> QED BY <2>2, <3>1, <3>2
  <2>8. AnswersAreOnFile'
    BY <2>3 DEF AnswersAreOnFile
  <2> QED BY <1>1, <2>2, <2>4, <2>5, <2>7, <2>8, SameAttempts DEF IInv
<1>12. CASE Crash
  <2>1. CASE ~ file.torn
    <3>1. TypeOK' /\ ClientAnswersSettle' /\ UNCHANGED file /\ phase' = "idle"
      BY <1>1, <1>12, <2>1, ForgottenType DEF Crash, TypeOK
    <3> QED BY <3>1, NoWrite
  <2>2. CASE file.torn
    <3>1. /\ file' = TornSnapshot /\ phase' = "idle" /\ Forgotten
          /\ UNCHANGED venue
      BY <1>12, <2>2 DEF Crash
    <3>2. TypeOK' /\ ClientAnswersSettle'
      BY <1>1, <3>1, NothingOnFile, ForgottenType DEF TypeOK
    <3>3. AnswersAreOnFile'
      BY <3>1 DEF AnswersAreOnFile
    <3> QED BY <3>1, <3>2, <3>3, NothingOnFile DEF IInv
  <2> QED BY <2>1, <2>2
<1>13. CASE UNCHANGED vars
  <2>1. TypeOK' /\ ClientAnswersSettle' /\ UNCHANGED <<file, phase, answers>>
    BY <1>1, <1>13 DEF vars, TypeOK, ClientAnswersSettle
  <2> QED BY <2>1, NoWrite
<1> QED
  BY <1>2, <1>3, <1>4, <1>5, <1>6, <1>7, <1>8, <1>9, <1>10, <1>11, <1>12, <1>13
  DEF Next

-----------------------------------------------------------------------------
(* The theorems.                                                           *)

\* Every reachable state satisfies the inductive invariant.
THEOREM StoreInvariant == Spec => []IInv
BY InitIInv, StepIInv, PTL DEF Spec

\* Every variable keeps its shape, for every set of orders and alerts.
THEOREM StoreTypeCorrect == Spec => []TypeOK
<1>1. IInv => TypeOK
  BY DEF IInv
<1> QED BY <1>1, StoreInvariant, PTL

\* Attempt numbering is replay-safe, however often passes are cut short and
\* repeated (JsonBinanceReconciliationStateStore.register_lookup_results).
THEOREM AttemptsNumberedUniquely == Spec => []AttemptNumbersAreUnique
<1>1. IInv => AttemptNumbersAreUnique
  BY DEF IInv, Numbering
<1> QED BY <1>1, StoreInvariant, PTL

\* The attempts of an id are numbered without a gap: the number of the last one
\* is how many there were.
THEOREM AttemptsNumberedWithoutGap == Spec => []NoAttemptNumberIsSkipped
<1>1. IInv => NoAttemptNumberIsSkipped
  BY DEF IInv, Numbering
<1> QED BY <1>1, StoreInvariant, PTL

\* Only exchange ids get on the resume list, so that what is resumed can be
\* asked for (reconcile_with_transports sends resumed ids as exchange ids).
THEOREM ResumedIdsCanBeQueried == Spec => []ResumeListHoldsExchangeIds
<1>1. IInv => ResumeListHoldsExchangeIds
  BY DEF IInv
<1> QED BY <1>1, StoreInvariant, PTL

\* An order handed to the operator has its failed lookup on file, wherever the
\* process died between the two writes.
THEOREM OperatorSeesTheLookup == Spec => []ManualAttentionIsExplained
<1>1. IInv => ManualAttentionIsExplained
  BY DEF IInv
<1> QED BY <1>1, StoreInvariant, PTL

\* A registered attempt survives every later write and every restart, but for a
\* crash inside a write, which leaves a file that no start loads.
THEOREM AttemptsSurvive == Spec => AttemptsAreStable
<1>1. ASSUME IInv, [Next]_vars
      PROVE  [file.attempts \subseteq file'.attempts \/ file' = TornSnapshot]_vars
  <2>1. file \in Snapshot
    BY <1>1 DEF IInv, TypeOK
  <2>2. CASE RegisterLookups
    BY <2>1, <2>2 DEF RegisterLookups, Snapshot
  <2>3. CASE PersistWorkflow
    BY <2>1, <2>3 DEF PersistWorkflow, Snapshot
  <2>4. CASE \E from, to \in Phases : Truncate(from, to)
    BY <2>1, <2>4 DEF Truncate, Snapshot
  <2>5. CASE UNCHANGED file \/ Crash
    BY <2>5 DEF Crash
  <2> QED
    BY <1>1, <2>2, <2>3, <2>4, <2>5
    DEF Next, vars, EndOrder, CannotLoad, StartPass, LookupByClientId,
        LookupByExchangeId, NextRound, EndLookups, Phases
<1> QED BY <1>1, StoreInvariant, PTL DEF Spec, AttemptsAreStable

\* An order leaves the resume list only with evidence: a payload about it in
\* the pass, or a lookup on file that found it finished.
THEOREM NothingIsForgotten == Spec => OrdersLeaveWithEvidence
<1> DEFINE Evidence(o) ==
              \/ o \in batch
              \/ \E a \in file'.attempts :
                    a.key \in {ExchangeId(o), ClientId(o)} /\ a.outcome = "done"
           Leaves(o) == ExchangeId(o) \in file.unresolved \ file'.unresolved
           Whole == file' # TornSnapshot
<1>1. ASSUME IInv, [Next]_vars, NEW o \in Orders, Whole, Leaves(o)
      PROVE  Evidence(o)
  <2>1. file \in Snapshot
    BY <1>1 DEF IInv, TypeOK
  <2>2. PersistWorkflow
    <3>1. CASE RegisterLookups
      BY <1>1, <2>1, <3>1 DEF RegisterLookups, Snapshot
    <3>2. CASE \E from, to \in Phases : Truncate(from, to)
      BY <1>1, <2>1, <3>2 DEF Truncate, Snapshot
    <3>3. CASE UNCHANGED file \/ Crash
      BY <1>1, <3>3 DEF Crash
    <3> QED
      BY <1>1, <3>1, <3>2, <3>3
      DEF Next, vars, EndOrder, CannotLoad, StartPass, LookupByClientId,
          LookupByExchangeId, NextRound, EndLookups, Phases
  <2>3. /\ phase = "persisting" /\ file'.attempts = file.attempts
        /\ file'.unresolved = (file.unresolved \ Reported) \cup Unsettled
    BY <2>1, <2>2 DEF PersistWorkflow, Snapshot
  <2>4. /\ ExchangeId(o) \in Reported
        /\ FinalState(ExchangeId(o)) = "converged_terminal"
    BY <1>1, <2>3 DEF Unsettled
  <2>5. ASSUME NEW k \in {ExchangeId(o), ClientId(o)}, FoundDone(k)
        PROVE  Evidence(o)
    <3>1. PICK i \in DOMAIN answers[k] : answers[k][i] = "done"
      BY <2>5 DEF FoundDone
    <3>2. k \in Key
      BY KeyShapes
    <3>3. PICK a \in file.attempts : a.key = k /\ a.outcome = answers[k][i]
      BY <1>1, <2>3, <3>1, <3>2 DEF IInv, AnswersAreOnFile
    <3> QED BY <2>3, <3>1, <3>3
  <2>6. CASE ExchangeId(o) \in Answered
    BY <2>4, <2>5, <2>6 DEF FinalState, LookupState
  <2>7. CASE ExchangeId(o) \notin Answered /\ ~ FoundDone(ClientId(o))
    <3>1. o \notin Requested
      BY <2>4, <2>7, KeyShapes DEF FinalState
    <3>2. \A x \in Orders : ExchangeId(x) = ExchangeId(o) => x = o
      BY DEF ExchangeId
    <3>3. CASE \E x \in Matched \cup Requested : ExchangeId(o) = ExchangeId(x)
      <4>1. Matched \cup Requested \subseteq Orders
        BY <1>1 DEF IInv, TypeOK, Matched, Requested, Unknown, Missing
      <4>2. o \in Matched
        BY <3>1, <3>2, <3>3, <4>1
      <4> QED BY <4>2 DEF Matched
    <3>4. CASE \E j \in Answered :
                 ExchangeId(o) = IF FoundDone(j) THEN FiledUnder(j) ELSE j
      <4>1. PICK j \in Answered :
               ExchangeId(o) = IF FoundDone(j) THEN FiledUnder(j) ELSE j
        BY <3>4
      <4>2. j # ExchangeId(o) /\ j \in Key
        BY <2>7 DEF Answered
      <4>3. FoundDone(j) /\ ExchangeId(o) = FiledUnder(j)
        BY <4>1, <4>2
      <4>4. ExchangeId(o) = ExchangeId(j[1])
        BY <4>2, <4>3 DEF FiledUnder
      <4>5. j[1] = o
        BY <4>4 DEF ExchangeId
      <4>6. j = ClientId(o)
        BY <4>2, <4>5, KeyShapes
      <4> QED BY <2>7, <4>3, <4>6
    <3> QED BY <2>4, <3>3, <3>4 DEF Reported
  <2> QED BY <2>5, <2>6, <2>7
<1>2. ASSUME IInv, [Next]_vars
      PROVE  [Whole => \A o \in Orders : Leaves(o) => Evidence(o)]_vars
  BY <1>1, <1>2
<1> QED BY <1>2, StoreInvariant, PTL DEF Spec, OrdersLeaveWithEvidence

-----------------------------------------------------------------------------
(* A file that tells of convergence can be trusted.                        *)

Answers(o) == ExchangeId(o) \in Answered \/ ClientId(o) \in Answered

\* An order counts as asked about only when one of its ids was answered, ...
AskedAreAnswered == \A o \in asked : Answers(o)

\* ... the writes come when every requested order was, ...
RequestedAreAsked ==
    phase \in {"register", "registering", "persist", "persisting"} =>
        asked = Requested

\* ... and what the file told to resume is among the awaited orders.
ResumedAreAwaited ==
    phase \notin {"idle", "dead"} =>
        \A k \in file.unresolved : k[1] \in awaited

ConvergenceInv ==
    /\ IInv
    /\ AskedAreAnswered /\ RequestedAreAsked /\ ResumedAreAwaited
    /\ ConvergedMeansSettled

\* A pass that converged leaves no order waiting whose payload can be parsed.
LEMMA ConvergedPass ==
    ASSUME ConvergenceInv, phase = "persisting",
           PassConvergence \in {"not_required", "converged_terminal"},
           NEW k \in (file.unresolved \ Reported) \cup Unsettled
    PROVE  k[1] \in Unparsable
<1>1. TypeOK /\ ClientAnswersSettle /\ ResumeListHoldsExchangeIds
  BY DEF ConvergenceInv, IInv
<1>2. \A j \in Answered : LookupState(j) = "converged_terminal"
  <2> DEFINE states == {LookupState(j) : j \in Answered}
  <2>1. \A j \in Answered : LookupState(j) \in states
    OBVIOUS
  <2>2. \A x \in states : x \in {"converged_terminal", "manual_attention", "pending"}
    BY DEF LookupState
  <2>3. states = {} \/ ("manual_attention" \notin states /\ "pending" \notin states)
    BY DEF PassConvergence
  <2> HIDE DEF states
  <2> QED BY <2>1, <2>2, <2>3
<1>3. k \in Unsettled
  <2> SUFFICES ASSUME k \in file.unresolved, k \notin Reported PROVE FALSE
    OBVIOUS
  <2>1. k \in Key /\ k[2] = "exchange" /\ k[1] \in awaited
    BY <1>1 DEF ConvergenceInv, ResumedAreAwaited, ResumeListHoldsExchangeIds,
                TypeOK, Snapshot
  <2>2. k = ExchangeId(k[1])
    BY <2>1, KeyShapes
  <2>3. k[1] \in Matched \cup Requested
    BY <2>1 DEF Matched, Requested, Missing
  <2> QED BY <2>2, <2>3 DEF Reported
<1>4. k \in Key /\ k[2] = "exchange" /\ FinalState(k) # "converged_terminal"
  BY <1>1, <1>3, StatesOfThePass DEF Unsettled
<1>5. PICK o \in Orders : k = ExchangeId(o) /\ k[1] = o
  BY <1>4, KeyShapes
<1>6. k \notin Answered
  BY <1>2, <1>4 DEF FinalState
<1>7. o \in Requested
  BY <1>4, <1>5, <1>6 DEF FinalState
<1>8. ClientId(o) \in Answered
  BY <1>5, <1>6, <1>7
  DEF ConvergenceInv, RequestedAreAsked, AskedAreAnswered, Answers
<1>9. FoundDone(ClientId(o))
  BY <1>2, <1>8 DEF LookupState
<1>10. FiledUnder(ClientId(o)) # k
  BY <1>4, <1>5, <1>6, <1>9 DEF FinalState
<1> QED BY <1>5, <1>10, KeyShapes DEF FiledUnder

LEMMA InitConvergence == Init => ConvergenceInv
<1> SUFFICES ASSUME Init PROVE ConvergenceInv
  OBVIOUS
<1>1. AskedAreAnswered /\ RequestedAreAsked /\ ResumedAreAwaited
        /\ ConvergedMeansSettled
  BY DEF Init, EmptySnapshot, AskedAreAnswered, RequestedAreAsked,
         ResumedAreAwaited, ConvergedMeansSettled
<1> QED BY <1>1, InitIInv DEF ConvergenceInv

\* One more answer settles its order and loses no other.
LEMMA AnswersGrow ==
    ASSUME TypeOK, NEW k \in Key, NEW outcome \in Outcome,
           answers' = [answers EXCEPT ![k] = Append(@, outcome)]
    PROVE  Answered' = Answered \cup {k}
<1>1. answers[k] \in Seq(Outcome) /\ answers'[k] = Append(answers[k], outcome)
      /\ \A j \in Key \ {k} : answers'[j] = answers[j]
  BY DEF TypeOK
<1>2. answers'[k] # <<>>
  BY <1>1, AppendProperties, LenProperties, EmptySeq
<1> QED BY <1>1, <1>2 DEF Answered

\* A step that leaves the lists of the file alone, and the pass or all of it.
LEMMA ListsUntouched ==
    ASSUME ConvergenceInv, IInv',
           file'.unresolved = file.unresolved,
           file'.convergence = file.convergence,
           \/ /\ UNCHANGED <<batch, awaited, asked, answers>>
              /\ \/ phase' = phase
                 \/ phase \notin {"idle", "dead", "lookup"}
                 \/ phase' = "dead"
           \/ Forgotten /\ phase' = "idle"
    PROVE  ConvergenceInv'
<1>1. ConvergedMeansSettled'
  BY DEF ConvergenceInv, ConvergedMeansSettled
<1>2. CASE Forgotten /\ phase' = "idle"
  BY <1>1, <1>2
  DEF ConvergenceInv, Forgotten, AskedAreAnswered, RequestedAreAsked,
      ResumedAreAwaited
<1>3. CASE /\ UNCHANGED <<batch, awaited, asked, answers>>
           /\ \/ phase' = phase
              \/ phase \notin {"idle", "dead", "lookup"}
              \/ phase' = "dead"
  <2>1. Answered' = Answered /\ Requested' = Requested
    BY <1>3 DEF Answered, Requested, Unknown, Missing
  <2>2. AskedAreAnswered'
    BY <1>3, <2>1 DEF ConvergenceInv, AskedAreAnswered, Answers
  <2>3. RequestedAreAsked'
    BY <1>3, <2>1
    DEF ConvergenceInv, IInv, TypeOK, Phases, RequestedAreAsked
  <2>4. ResumedAreAwaited'
    BY <1>3 DEF ConvergenceInv, ResumedAreAwaited
  <2> QED BY <1>1, <2>2, <2>3, <2>4 DEF ConvergenceInv
<1> QED BY <1>2, <1>3

LEMMA StepConvergence == ConvergenceInv /\ [Next]_vars => ConvergenceInv'
<1> SUFFICES ASSUME ConvergenceInv, [Next]_vars PROVE ConvergenceInv'
  OBVIOUS
<1>0. IInv /\ IInv' /\ TypeOK /\ file \in Snapshot
  BY StepIInv DEF ConvergenceInv, IInv, TypeOK
<1>1. ASSUME \/ UNCHANGED vars \/ CannotLoad
             \/ \E o \in Orders : EndOrder(o)
             \/ Truncate("register", "registering") \/ RegisterLookups
             \/ Truncate("persist", "persisting")
      PROVE  ConvergenceInv'
  <2>1. /\ file'.unresolved = file.unresolved
        /\ file'.convergence = file.convergence
    BY <1>0, <1>1
    DEF vars, CannotLoad, EndOrder, Truncate, RegisterLookups, Snapshot
  <2> QED
    BY <1>0, <1>1, <2>1, ListsUntouched
    DEF vars, memory, CannotLoad, EndOrder, Truncate, RegisterLookups
<1>2. ASSUME NEW seen \in BatchChoices, NEW expectations \in Expectations,
             NEW hasGap \in BOOLEAN, StartPass(seen, expectations, hasGap)
      PROVE  ConvergenceInv'
  BY <1>0, <1>2
  DEF StartPass, ConvergenceInv, AskedAreAnswered, RequestedAreAsked,
      ResumedAreAwaited, ConvergedMeansSettled
<1>3. ASSUME NEW o \in Orders, NEW outcome \in Outcome,
             LookupByClientId(o, outcome) \/ LookupByExchangeId(o, outcome)
      PROVE  ConvergenceInv'
  <2>1. UNCHANGED <<file, batch, awaited>> /\ phase = "lookup" /\ phase' = "lookup"
    BY <1>3 DEF LookupByClientId, LookupByExchangeId
  <2>2. RequestedAreAsked' /\ ResumedAreAwaited' /\ ConvergedMeansSettled'
    BY <2>1
    DEF ConvergenceInv, RequestedAreAsked, ResumedAreAwaited,
        ConvergedMeansSettled
  <2>3. AskedAreAnswered'
    <3>1. CASE UNCHANGED <<asked, answers>>
      BY <3>1 DEF ConvergenceInv, AskedAreAnswered, Answers, Answered
    <3>2. CASE /\ asked' = asked \cup {o}
               /\ \E k \in {ExchangeId(o), ClientId(o)} :
                     answers' = [answers EXCEPT ![k] = Append(@, outcome)]
      <4>1. PICK k \in {ExchangeId(o), ClientId(o)} :
               answers' = [answers EXCEPT ![k] = Append(@, outcome)]
        BY <3>2
      <4>2. Answered' = Answered \cup {k}
        BY <1>0, <4>1, AnswersGrow, KeyShapes
      <4> QED
        BY <3>2, <4>2 DEF ConvergenceInv, AskedAreAnswered, Answers
    <3> QED BY <1>3, <3>1, <3>2 DEF LookupByClientId, LookupByExchangeId
  <2> QED BY <1>0, <2>2, <2>3 DEF ConvergenceInv
<1>4. CASE NextRound
  BY <1>0, <1>4
  DEF NextRound, ConvergenceInv, AskedAreAnswered, RequestedAreAsked,
      ResumedAreAwaited, ConvergedMeansSettled
<1>5. CASE EndLookups
  <2>1. UNCHANGED <<file, batch, awaited, asked, answers>> /\ phase = "lookup"
        /\ asked = Requested /\ phase' = "register"
    BY <1>5 DEF EndLookups, memory
  <2>2. Requested' = Requested /\ Answered' = Answered
    BY <2>1 DEF Requested, Unknown, Missing, Answered
  <2> QED
    BY <1>0, <2>1, <2>2
    DEF ConvergenceInv, AskedAreAnswered, Answers, RequestedAreAsked,
        ResumedAreAwaited, ConvergedMeansSettled
<1>6. CASE PersistWorkflow
  <2>1. /\ phase = "persisting" /\ phase' = "idle" /\ Forgotten
        /\ file'.unresolved = (file.unresolved \ Reported) \cup Unsettled
        /\ file'.convergence = PassConvergence
    BY <1>0, <1>6 DEF PersistWorkflow, Snapshot
  <2>2. ConvergedMeansSettled'
    BY <2>1, ConvergedPass DEF ConvergedMeansSettled
  <2> QED
    BY <1>0, <2>1, <2>2
    DEF ConvergenceInv, Forgotten, AskedAreAnswered, RequestedAreAsked,
        ResumedAreAwaited
<1>7. CASE Crash
  <2>1. phase' = "idle" /\ Forgotten
    BY <1>7 DEF Crash
  <2>2. CASE ~ file.torn
    <3>1. UNCHANGED file
      BY <1>7, <2>2 DEF Crash
    <3> QED BY <1>0, <2>1, <3>1, ListsUntouched
  <2>3. CASE file.torn
    <3>1. file' = TornSnapshot
      BY <1>7, <2>3 DEF Crash
    <3> QED
      BY <1>0, <2>1, <3>1, NothingOnFile
      DEF ConvergenceInv, Forgotten, AskedAreAnswered, RequestedAreAsked,
          ResumedAreAwaited
  <2> QED BY <2>2, <2>3
<1> QED
  BY <1>1, <1>2, <1>3, <1>4, <1>5, <1>6, <1>7 DEF Next

\* When the file says that the last pass converged, no order is waiting, but
\* for one whose lookup payload could not be parsed (persist_workflow_state).
THEOREM ConvergenceCanBeTrusted == Spec => []ConvergedMeansSettled
<1>1. ConvergenceInv => ConvergedMeansSettled
  BY DEF ConvergenceInv
<1> QED BY <1>1, InitConvergence, StepConvergence, PTL DEF Spec
=============================================================================
