------------------------- MODULE PaperSessionProofs -------------------------
(***************************************************************************)
(* What a paper session owes to its bars: portfolios the contracts accept, *)
(* a summary that follows from the transitions on file, and books that     *)
(* balance, for any bars, and for any number of processes started on the   *)
(* same files and killed wherever they are.                                *)
(***************************************************************************)
EXTENDS OfflineRunsProofs, WellFoundedInduction, FiniteSetTheorems

-----------------------------------------------------------------------------
(* Folds.  FoldLeft chooses a function that satisfies an equation; that    *)
(* there is one is shown by a shortest prefix without one.                 *)

\* A nonempty set of natural numbers has a least element.
LEMMA LeastElement ==
    ASSUME NEW S \in SUBSET Nat, S # {}
    PROVE  \E n \in S : \A m \in S : n <= m
<1>1. PICK x \in S : TRUE
  OBVIOUS
<1> DEFINE R == OpToRel(<, Nat)
<1>2. PICK n \in S : \A m \in S : ~ (<<m, n>> \in R)
  <2>1. IsWellFoundedOn(R, Nat)
    BY NatLessThanWellFounded, Zenon
  <2> HIDE DEF R
  <2> QED BY <2>1, WFMin, Zenon
<1>3. \A m \in S : ~ (m < n)
  BY <1>1, <1>2 DEF OpToRel
<1> QED BY <1>3

\* The greatest index of a set is one of its indices, and no less than any.
LEMMA GreatestIndex ==
    ASSUME NEW n \in Nat, NEW s \in SUBSET (1 .. n), s # {}
    PROVE  /\ Max(s) \in s
           /\ \A m \in 1 .. n : s \subseteq 1 .. m
                 => s \ {Max(s)} \in SUBSET (1 .. m - 1)
<1> DEFINE Bounds == {k \in Nat : \A y \in s : k >= y}
<1>1. PICK k \in Bounds : \A m \in Bounds : k <= m
  <2>1. n \in Bounds
    OBVIOUS
  <2>2. Bounds \in SUBSET Nat /\ Bounds # {}
    BY <2>1
  <2> HIDE DEF Bounds
  <2> QED BY <2>2, LeastElement
<1>2. k \in s
  <2>1. SUFFICES ASSUME k \notin s PROVE FALSE
    OBVIOUS
  <2>2. k \in Nat /\ \A y \in s : y \in Nat /\ y > 0 /\ k >= y /\ k # y
    BY <2>1
  <2>3. PICK y \in s : TRUE
    OBVIOUS
  <2>4. k > 0 /\ k - 1 \in Nat
    BY <2>2, <2>3
  <2>5. \A z \in s : k - 1 >= z
    BY <2>2
  <2>6. k - 1 \in Bounds /\ ~ (k <= k - 1)
    BY <2>2, <2>4, <2>5
  <2> QED BY <2>6, <1>1
<1>3. \E x \in s : \A y \in s : x >= y
  BY <1>1, <1>2
<1>4. Max(s) \in s /\ \A y \in s : Max(s) >= y
  <2> DEFINE P(x) == x \in s /\ \A y \in s : x >= y
  <2>1. \E x : P(x)
    BY <1>3
  <2>2. P(CHOOSE x : P(x))
    <3> HIDE DEF P
    <3> QED BY <2>1, Zenon
  <2>3. Max(s) = CHOOSE x : P(x)
    BY DEF Max
  <2> QED BY <2>2, <2>3
<1>5. ASSUME NEW m \in 1 .. n, s \subseteq 1 .. m, NEW y \in s \ {Max(s)}
      PROVE  y \in 1 .. m - 1
  <2>1. y \in 1 .. m /\ Max(s) \in 1 .. m /\ Max(s) >= y /\ y # Max(s)
    BY <1>4, <1>5
  <2> HIDE DEF Max
  <2> QED BY <2>1
<1> QED BY <1>4, <1>5

-----------------------------------------------------------------------------
\* What a fold computes of each set of indices, the last first.
IsFold(h, n, V, base, G) ==
    /\ h \in [SUBSET (1 .. n) -> V]
    /\ \A s \in SUBSET (1 .. n) :
          h[s] = IF s = {} THEN base ELSE G[Max(s)][h[s \ {Max(s)}]]

\* Two folds that go on alike.
Alike(c, d, n) ==
    /\ c[{}] = d[{}]
    /\ \A s \in SUBSET (1 .. n) :
          s # {} /\ c[s \ {Max(s)}] = d[s \ {Max(s)}] => c[s] = d[s]

\* Folds that go on alike are the same: they differ at no shortest prefix.
LEMMA FoldsAgree ==
    ASSUME NEW n \in Nat, NEW c, NEW d, Alike(c, d, n)
    PROVE  \A s \in SUBSET (1 .. n) : c[s] = d[s]
<1> DEFINE Apart == {m \in 0 .. n : \E s \in SUBSET (1 .. m) : c[s] # d[s]}
<1>1. Apart = {}
  <2>1. SUFFICES ASSUME Apart # {} PROVE FALSE
    OBVIOUS
  <2>2. PICK m \in Apart : \A k \in Apart : m <= k
    <3>1. Apart \in SUBSET Nat
      OBVIOUS
    <3> HIDE DEF Apart
    <3> QED BY <2>1, <3>1, LeastElement
  <2>3. PICK s \in SUBSET (1 .. m) : c[s] # d[s]
    OBVIOUS
  <2>4. s # {} /\ s \in SUBSET (1 .. n) /\ m \in 1 .. n
    <3>1. s # {}
      BY <2>3 DEF Alike
    <3>2. PICK y \in s : y \in 1 .. m
      BY <3>1
    <3>3. m \in 0 .. n /\ m > 0
      BY <3>2
    <3> QED BY <3>1, <3>3
  <2>5. s \ {Max(s)} \in SUBSET (1 .. m - 1)
    BY <2>4, GreatestIndex
  <2>6. m - 1 \notin Apart /\ m - 1 \in 0 .. n
    BY <2>2, <2>4
  <2>7. c[s \ {Max(s)}] = d[s \ {Max(s)}]
    BY <2>5, <2>6
  <2> QED BY <2>3, <2>4, <2>7 DEF Alike
<1>2. n \in 0 .. n /\ n \notin Apart
  <2>1. n \in 0 .. n
    OBVIOUS
  <2> HIDE DEF Apart
  <2> QED BY <1>1, <2>1, Zenon
<1> QED BY <1>2, Zenon

\* There is a fold of any length: a shortest prefix without one would be one
\* longer than a prefix that has one.
LEMMA FoldExists ==
    ASSUME NEW n \in Nat, NEW V, NEW base \in V, NEW G,
           \A i \in 1 .. n : G[i] \in [V -> V]
    PROVE  \E h : IsFold(h, n, V, base, G)
<1> DEFINE Lacking == {k \in 0 .. n : ~ \E h : IsFold(h, k, V, base, G)}
<1>1. SUFFICES ASSUME Lacking # {} PROVE FALSE
  OBVIOUS
<1>2. PICK k \in Lacking : \A m \in Lacking : k <= m
  <2>1. Lacking \in SUBSET Nat
    OBVIOUS
  <2> HIDE DEF Lacking
  <2> QED BY <1>1, <2>1, LeastElement
<1>3. k # 0
  <2>1. SUFFICES ASSUME k = 0 PROVE FALSE
    OBVIOUS
  <2>2. IsFold([s \in SUBSET (1 .. 0) |-> base], 0, V, base, G)
    <3>1. \A s \in SUBSET (1 .. 0) : s = {}
      OBVIOUS
    <3> QED BY <3>1 DEF IsFold
  <2> QED BY <2>1, <2>2
<1>4. k \in 1 .. n /\ k - 1 \in 0 .. n /\ ~ (k <= k - 1)
  BY <1>3
<1>5. PICK h : IsFold(h, k - 1, V, base, G)
  BY <1>2, <1>4
<1>6. \A s \in SUBSET (1 .. k) : s \ {k} \in SUBSET (1 .. k - 1)
  BY <1>4
<1> DEFINE g == [s \in SUBSET (1 .. k) |->
                   IF k \in s THEN G[k][h[s \ {k}]] ELSE h[s]]
<1>7. g \in [SUBSET (1 .. k) -> V]
  <2>1. ASSUME NEW s \in SUBSET (1 .. k) PROVE g[s] \in V
    <3>1. s \ {k} \in SUBSET (1 .. k - 1) /\ G[k] \in [V -> V]
      BY <1>4, <1>6
    <3>2. h[s \ {k}] \in V
      BY <1>5, <3>1 DEF IsFold
    <3>3. k \notin s => s \ {k} = s
      OBVIOUS
    <3> QED BY <3>1, <3>2, <3>3
  <2> QED BY <2>1
<1>8. ASSUME NEW s \in SUBSET (1 .. k)
      PROVE  g[s] = IF s = {} THEN base ELSE G[Max(s)][g[s \ {Max(s)}]]
  <2>1. CASE k \in s
    <3>1. Max(s) = k
      <4>1. s # {} /\ Max(s) \in s /\ s \ {Max(s)} \in SUBSET (1 .. k - 1)
        BY <1>4, <2>1, GreatestIndex
      <4> QED BY <4>1, <2>1, <1>4
    <3>2. g[s \ {k}] = h[s \ {k}]
      BY <1>6
    <3>3. g[s] = G[k][h[s \ {k}]]
      BY <2>1
    <3> HIDE DEF g
    <3> QED BY <2>1, <3>1, <3>2, <3>3
  <2>2. CASE k \notin s
    <3>1. s \in SUBSET (1 .. k - 1) /\ g[s] = h[s]
      BY <2>2, <1>6
    <3>2. \A t \in SUBSET s : g[t] = h[t]
      BY <2>2
    <3>3. h[s] = IF s = {} THEN base ELSE G[Max(s)][h[s \ {Max(s)}]]
      BY <1>5, <3>1 DEF IsFold
    <3> HIDE DEF g
    <3> QED BY <3>1, <3>2, <3>3
  <2> QED BY <2>1, <2>2
<1>9. IsFold(g, k, V, base, G)
  <2> HIDE DEF g
  <2> QED BY <1>7, <1>8 DEF IsFold
<1> QED BY <1>2, <1>9

\* The folded functions are the same as far as the shorter fold goes.
Extends(F, G, n) == \A i \in 1 .. n : F[i] = G[i]
Continues(k, h, n, V, base, F, G) ==
    /\ n \in Nat /\ Extends(F, G, n)
    /\ IsFold(h, n, V, base, G) /\ IsFold(k, n + 1, V, base, F)

\* A fold over one more element applies it to the fold over the others.
LEMMA FoldGrows ==
    ASSUME NEW k, NEW h, NEW n, NEW V, NEW base, NEW F, NEW G,
           Continues(k, h, n, V, base, F, G)
    PROVE  k[1 .. n + 1] = F[n + 1][h[1 .. n]]
<1> USE DEF Continues
<1>1. \A s \in SUBSET (1 .. n) : k[s] = h[s]
  <2>1. k[{}] = h[{}]
    BY DEF IsFold
  <2>2. ASSUME NEW s \in SUBSET (1 .. n), s # {},
               k[s \ {Max(s)}] = h[s \ {Max(s)}]
        PROVE  k[s] = h[s]
    <3>1. Max(s) \in 1 .. n /\ s \in SUBSET (1 .. n + 1)
      <4>1. Max(s) \in s
        BY <2>2, GreatestIndex
      <4>2. 1 .. n \subseteq 1 .. n + 1
        OBVIOUS
      <4> QED BY <4>1, <4>2
    <3>2. k[s] = F[Max(s)][k[s \ {Max(s)}]] /\ h[s] = G[Max(s)][h[s \ {Max(s)}]]
      BY <2>2, <3>1 DEF IsFold
    <3> QED BY <2>2, <3>1, <3>2 DEF Extends
  <2>3. \A s \in SUBSET (1 .. n) :
           s # {} /\ k[s \ {Max(s)}] = h[s \ {Max(s)}] => k[s] = h[s]
    BY <2>2
  <2>4. Alike(k, h, n)
    BY <2>1, <2>3 DEF Alike
  <2> QED BY <2>4, FoldsAgree
<1> DEFINE all == 1 .. n + 1
<1>2. all # {} /\ all \in SUBSET (1 .. n + 1) /\ n + 1 \in Nat
  OBVIOUS
<1>3. Max(all) = n + 1 /\ all \ {n + 1} = 1 .. n
  <2>1. Max(all) \in all /\ all \ {Max(all)} \in SUBSET (1 .. n)
    <3>1. n + 1 \in 1 .. n + 1 /\ (n + 1) - 1 = n /\ all \subseteq 1 .. n + 1
      OBVIOUS
    <3> HIDE DEF all
    <3> QED BY <1>2, <3>1, GreatestIndex
  <2> QED BY <2>1
<1> HIDE DEF all
<1>4. k[all] = F[n + 1][k[1 .. n]]
  BY <1>2, <1>3 DEF IsFold
<1> QED BY <1>1, <1>4 DEF all

-----------------------------------------------------------------------------
(* Sums.                                                                   *)

\* What each term of a sum does to it.
Adding(seq) == [i \in 1 .. Len(seq) |-> [v \in Nat |-> v + seq[i]]]

\* The sum of a sequence of numbers is the fold that adds them.
LEMMA TotalIsAFold ==
    ASSUME NEW seq \in Seq(Nat)
    PROVE  \E h : /\ IsFold(h, Len(seq), Nat, 0, Adding(seq))
                  /\ Total(seq) = h[1 .. Len(seq)]
<1> DEFINE n == Len(seq)
           f(c) == [s \in SUBSET DOMAIN seq |->
                      IF s = {} THEN 0
                      ELSE LET x == Max(s) IN c[s \ {x}] + seq[x]]
           c == CHOOSE g : g = f(g)
<1>1. n \in Nat /\ DOMAIN seq = 1 .. n /\ \A i \in 1 .. n : seq[i] \in Nat
  BY LenProperties, ElementOfSeq
<1>2. PICK h : IsFold(h, n, Nat, 0, Adding(seq))
  <2>1. \A i \in 1 .. n : Adding(seq)[i] \in [Nat -> Nat]
    BY <1>1 DEF Adding
  <2> QED BY <1>1, <2>1, FoldExists
<1>3. ASSUME NEW s \in SUBSET (1 .. n), s # {}
      PROVE  h[s] = h[s \ {Max(s)}] + seq[Max(s)]
  <2>0. Max(s) \in 1 .. n /\ s \ {Max(s)} \in SUBSET (1 .. n)
    BY <1>1, <1>3, GreatestIndex
  <2>1. /\ Max(s) \in 1 .. n /\ h[s \ {Max(s)}] \in Nat
        /\ h[s] = Adding(seq)[Max(s)][h[s \ {Max(s)}]]
    BY <1>2, <1>3, <2>0 DEF IsFold
  <2>2. Adding(seq)[Max(s)] = [v \in Nat |-> v + seq[Max(s)]]
    BY <2>1, Zenon DEF Adding
  <2> QED BY <2>1, <2>2
<1>4. h = f(h)
  <2>1. h = [s \in SUBSET (1 .. n) |-> h[s]] /\ h[{}] = 0
    BY <1>2 DEF IsFold
  <2>2. ASSUME NEW s \in SUBSET (1 .. n) PROVE h[s] = f(h)[s]
    BY <1>1, <1>3, <2>1
  <2>3. f(h) = [s \in SUBSET (1 .. n) |-> f(h)[s]]
    BY <1>1
  <2> HIDE DEF f
  <2> QED BY <2>1, <2>2, <2>3
<1>5. Total(seq) = c[1 .. n]
  BY <1>1, Zenon DEF Total, FoldLeft, MapThenFoldSet
<1>6. c = f(c)
  <2> HIDE DEF f
  <2> QED BY <1>4, Zenon
<1> HIDE DEF c
<1>7. c[1 .. n] = h[1 .. n]
  <2>1. c[{}] = 0
    BY <1>6
  <2>2. ASSUME NEW s \in SUBSET (1 .. n), s # {},
               c[s \ {Max(s)}] = h[s \ {Max(s)}]
        PROVE  c[s] = h[s]
    BY <1>1, <1>3, <1>6, <2>2
  <2>3. Alike(c, h, n)
    BY <1>2, <2>1, <2>2 DEF Alike, IsFold
  <2> QED BY <1>1, <2>3, FoldsAgree
<1> QED BY <1>2, <1>5, <1>7

\* A sum grows by its last term.
LEMMA TotalGrows ==
    /\ Total(<< >>) = 0
    /\ \A seq \in Seq(Nat) : Total(seq) \in Nat
    /\ \A seq \in Seq(Nat), x \in Nat : Total(Append(seq, x)) = Total(seq) + x
<1>1. ASSUME NEW seq \in Seq(Nat)
      PROVE  Total(seq) \in Nat /\ (seq = << >> => Total(seq) = 0)
  <2>1. PICK h : /\ IsFold(h, Len(seq), Nat, 0, Adding(seq))
                 /\ Total(seq) = h[1 .. Len(seq)]
    BY TotalIsAFold
  <2>2. seq = << >> => 1 .. Len(seq) = {}
    OBVIOUS
  <2> QED BY <2>1, <2>2 DEF IsFold
<1>2. ASSUME NEW seq \in Seq(Nat), NEW x \in Nat
      PROVE  Total(Append(seq, x)) = Total(seq) + x
  <2> DEFINE n == Len(seq)
             more == Append(seq, x)
  <2>1. /\ n \in Nat /\ more \in Seq(Nat) /\ Len(more) = n + 1
        /\ more[n + 1] = x /\ \A i \in 1 .. n : more[i] = seq[i]
    BY LenProperties, AppendProperties
  <2> HIDE DEF more
  <2>2. PICK h : IsFold(h, n, Nat, 0, Adding(seq)) /\ Total(seq) = h[1 .. n]
    BY TotalIsAFold
  <2>3. PICK k : /\ IsFold(k, n + 1, Nat, 0, Adding(more))
                 /\ Total(more) = k[1 .. n + 1]
    BY <2>1, TotalIsAFold
  <2>4. /\ Adding(more)[n + 1] = [v \in Nat |-> v + x]
        /\ Extends(Adding(more), Adding(seq), n)
    <3>1. Adding(more) = [i \in 1 .. n + 1 |-> [v \in Nat |-> v + more[i]]]
      BY <2>1, Zenon DEF Adding
    <3>2. ASSUME NEW i \in 1 .. n
          PROVE  Adding(more)[i] = Adding(seq)[i]
      <4>1. i \in 1 .. n + 1 /\ more[i] = seq[i]
        BY <2>1
      <4>2. Adding(seq)[i] = [v \in Nat |-> v + seq[i]]
        BY Zenon DEF Adding
      <4> QED BY <3>1, <4>1, <4>2, Zenon
    <3>3. n + 1 \in 1 .. n + 1
      BY <2>1
    <3>4. Adding(more)[n + 1] = [v \in Nat |-> v + x]
      BY <2>1, <3>1, <3>3, Zenon
    <3> QED BY <3>2, <3>4 DEF Extends
  <2>5. k[1 .. n + 1] = Adding(more)[n + 1][h[1 .. n]]
    <3>1. Continues(k, h, n, Nat, 0, Adding(more), Adding(seq))
      BY <2>1, <2>2, <2>3, <2>4 DEF Continues
    <3> QED BY <3>1, FoldGrows
  <2>6. Total(seq) \in Nat
    BY <1>1
  <2> QED BY <2>2, <2>3, <2>4, <2>5, <2>6 DEF more
<1> QED BY <1>1, <1>2, EmptySeq

-----------------------------------------------------------------------------
(* The elements picked of a sequence.                                      *)

\* What each element does to those picked before it.
Picking(seq, S, places) ==
    [i \in 1 .. Len(seq) |->
        [v \in Seq(S) |-> IF i \in places THEN Append(v, seq[i]) ELSE v]]

\* What is picked of a sequence is the fold that appends it.
LEMMA PickedIsAFold ==
    ASSUME NEW S, NEW seq \in Seq(S), NEW places
    PROVE  \E h : /\ IsFold(h, Len(seq), Seq(S), << >>, Picking(seq, S, places))
                  /\ Picked(seq, places) = h[1 .. Len(seq)]
<1> DEFINE n == Len(seq)
           ids == [i \in DOMAIN seq |-> i]
           op(v, i) == IF i \in places THEN Append(v, seq[i]) ELSE v
           f(c) == [s \in SUBSET DOMAIN ids |->
                      IF s = {} THEN << >>
                      ELSE LET x == Max(s) IN op(c[s \ {x}], ids[x])]
           c == CHOOSE g : g = f(g)
<1>1. n \in Nat /\ DOMAIN seq = 1 .. n /\ \A i \in 1 .. n : seq[i] \in S
  BY LenProperties, ElementOfSeq
<1>2. /\ \A v \in Seq(S), i \in 1 .. n : op(v, i) \in Seq(S)
      /\ DOMAIN ids = 1 .. n /\ \A i \in 1 .. n : ids[i] = i
  BY <1>1, AppendProperties
<1> HIDE DEF ids, op
<1>3. PICK h : IsFold(h, n, Seq(S), << >>, Picking(seq, S, places))
  <2>1. \A i \in 1 .. n : Picking(seq, S, places)[i] \in [Seq(S) -> Seq(S)]
    BY <1>2 DEF Picking, op
  <2>2. << >> \in Seq(S)
    BY EmptySeq
  <2> QED BY <1>1, <2>1, <2>2, FoldExists
<1>4. ASSUME NEW s \in SUBSET (1 .. n), s # {}
      PROVE  /\ Max(s) \in 1 .. n
             /\ h[s] = op(h[s \ {Max(s)}], Max(s))
  <2>1. Max(s) \in 1 .. n /\ s \ {Max(s)} \in SUBSET (1 .. n)
    BY <1>1, <1>4, GreatestIndex
  <2>2. /\ h[s \ {Max(s)}] \in Seq(S)
        /\ h[s] = Picking(seq, S, places)[Max(s)][h[s \ {Max(s)}]]
    BY <1>3, <1>4, <2>1 DEF IsFold
  <2>3. Picking(seq, S, places)[Max(s)] = [v \in Seq(S) |-> op(v, Max(s))]
    BY <2>1, Zenon DEF Picking, op
  <2> QED BY <2>1, <2>2, <2>3, Zenon
<1>5. h = f(h)
  <2>1. h = [s \in SUBSET (1 .. n) |-> h[s]] /\ h[{}] = << >>
    BY <1>3 DEF IsFold
  <2>2. ASSUME NEW s \in SUBSET (1 .. n) PROVE h[s] = f(h)[s]
    BY <1>2, <1>4, <2>1
  <2>3. f(h) = [s \in SUBSET (1 .. n) |-> f(h)[s]]
    BY <1>2
  <2> HIDE DEF f
  <2> QED BY <2>1, <2>2, <2>3
<1>6. Picked(seq, places) = c[1 .. n]
  BY <1>2, Zenon DEF Picked, FoldLeftDomain, FoldLeft, MapThenFoldSet, ids, op
<1>7. c = f(c)
  <2> HIDE DEF f
  <2> QED BY <1>5, Zenon
<1> HIDE DEF c
<1>8. c[1 .. n] = h[1 .. n]
  <2>1. c[{}] = << >>
    BY <1>7
  <2>2. ASSUME NEW s \in SUBSET (1 .. n), s # {},
               c[s \ {Max(s)}] = h[s \ {Max(s)}]
        PROVE  c[s] = h[s]
    <3>1. c[s] = op(c[s \ {Max(s)}], ids[Max(s)])
      BY <1>2, <1>7, <2>2
    <3>2. h[s] = op(h[s \ {Max(s)}], Max(s)) /\ ids[Max(s)] = Max(s)
      BY <1>2, <1>4, <2>2
    <3> QED BY <2>2, <3>1, <3>2, Zenon
  <2>3. Alike(c, h, n)
    BY <1>3, <2>1, <2>2 DEF Alike, IsFold
  <2> QED BY <1>1, <2>3, FoldsAgree
<1> QED BY <1>3, <1>6, <1>8

\* Two sets of places that are the same among the first n.
SamePlaces(I, J, n) == \A i \in 1 .. n : i \in I <=> i \in J

\* What is picked is a sequence of the same elements.
LEMMA PickedIsSeq ==
    ASSUME NEW S, NEW seq \in Seq(S), NEW I
    PROVE  Picked(seq, I) \in Seq(S) /\ (seq = << >> => Picked(seq, I) = << >>)
<1>1. PICK h : /\ IsFold(h, Len(seq), Seq(S), << >>, Picking(seq, S, I))
               /\ Picked(seq, I) = h[1 .. Len(seq)]
  BY PickedIsAFold
<1>2. seq = << >> => 1 .. Len(seq) = {}
  OBVIOUS
<1>3. h[1 .. Len(seq)] \in Seq(S)
  BY <1>1, Zenon DEF IsFold
<1>4. h[{}] = << >>
  BY <1>1 DEF IsFold
<1> QED BY <1>1, <1>2, <1>3, <1>4, Zenon

\* One more element is picked or not.
OneMore(S, seq, x, I, J) ==
    seq \in Seq(S) /\ x \in S /\ SamePlaces(I, J, Len(seq))

\* The last element is appended to what is picked of the others, or left out.
LEMMA PickedGrows ==
    ASSUME NEW S, NEW seq, NEW x, NEW I, NEW J, OneMore(S, seq, x, I, J)
    PROVE  Picked(Append(seq, x), J) =
             IF Len(seq) + 1 \in J THEN Append(Picked(seq, I), x)
             ELSE Picked(seq, I)
<1> USE DEF OneMore
<1> DEFINE n == Len(seq)
           more == Append(seq, x)
           F == Picking(more, S, J)
           G == Picking(seq, S, I)
<1>1. /\ n \in Nat /\ more \in Seq(S) /\ Len(more) = n + 1
      /\ more[n + 1] = x /\ \A i \in 1 .. n : more[i] = seq[i]
  BY LenProperties, AppendProperties
<1> HIDE DEF more
<1>2. PICK h : IsFold(h, n, Seq(S), << >>, G) /\ Picked(seq, I) = h[1 .. n]
  BY PickedIsAFold
<1>3. PICK k : /\ IsFold(k, n + 1, Seq(S), << >>, F)
               /\ Picked(more, J) = k[1 .. n + 1]
  BY <1>1, PickedIsAFold
<1>4. /\ F[n + 1] = [v \in Seq(S) |-> IF n + 1 \in J THEN Append(v, x) ELSE v]
      /\ Extends(F, G, n)
  <2>1. F = [i \in 1 .. n + 1 |->
              [v \in Seq(S) |-> IF i \in J THEN Append(v, more[i]) ELSE v]]
    BY <1>1, Zenon DEF Picking
  <2>2. ASSUME NEW i \in 1 .. n PROVE F[i] = G[i]
    <3>1. i \in 1 .. n + 1 /\ more[i] = seq[i] /\ (i \in I <=> i \in J)
      BY <1>1 DEF SamePlaces
    <3>2. G[i] = [v \in Seq(S) |-> IF i \in I THEN Append(v, seq[i]) ELSE v]
      BY Zenon DEF Picking
    <3> HIDE DEF F, G
    <3> QED BY <2>1, <3>1, <3>2, Zenon
  <2>3. n + 1 \in 1 .. n + 1
    BY <1>1
  <2> HIDE DEF F
  <2>4. F[n + 1] = [v \in Seq(S) |-> IF n + 1 \in J THEN Append(v, x) ELSE v]
    BY <1>1, <2>1, <2>3, Zenon
  <2> QED BY <2>2, <2>4 DEF Extends
<1>5. k[1 .. n + 1] = F[n + 1][h[1 .. n]]
  <2>1. Continues(k, h, n, Seq(S), << >>, F, G)
    BY <1>1, <1>2, <1>3, <1>4 DEF Continues
  <2> QED BY <2>1, FoldGrows
<1>6. Picked(seq, I) \in Seq(S)
  BY PickedIsSeq
<1> QED BY <1>2, <1>3, <1>4, <1>5, <1>6, Zenon DEF more

-----------------------------------------------------------------------------
USE OfflineAssumption, PaperAssumption

(* What a cycle trades.                                                    *)

\* One or two elements.
LEMMA PickedOfOne ==
    ASSUME NEW S, NEW x \in S, NEW I
    PROVE  Picked(<<x>>, I) = IF 1 \in I THEN <<x>> ELSE << >>
<1> DEFINE none == << >>
<1>1. none \in Seq(S) /\ Len(none) = 0 /\ Append(none, x) = <<x>>
  BY EmptySeq
<1>2. OneMore(S, none, x, I, I) /\ Picked(none, I) = none
  BY <1>1, PickedIsSeq DEF SamePlaces, OneMore
<1> HIDE DEF none
<1>3. Picked(Append(none, x), I) =
         IF Len(none) + 1 \in I THEN Append(Picked(none, I), x)
         ELSE Picked(none, I)
  BY <1>2, PickedGrows
<1> QED BY <1>1, <1>2, <1>3 DEF none

\* A second element that is not picked changes nothing.
LEMMA PickedOfTwo ==
    ASSUME NEW S, NEW x \in S, NEW y \in S, NEW I, 2 \notin I
    PROVE  Picked(<<x, y>>, I) = Picked(<<x>>, I)
<1> DEFINE one == <<x>>
<1>1. one \in Seq(S) /\ Len(one) = 1
  <2>1. << >> \in Seq(S)
    BY EmptySeq
  <2> QED BY <2>1, AppendProperties
<1>2. OneMore(S, one, y, I, I)
  BY <1>1 DEF SamePlaces, OneMore
<1>3. Append(one, y) = <<x, y>>
  <2> DEFINE two == Append(one, y)
  <2>1. /\ two \in Seq(S) /\ Len(two) = 2 /\ two[1] = x /\ two[2] = y
    BY <1>1, AppendProperties
  <2>2. /\ DOMAIN two = 1 .. 2 /\ two = [i \in 1 .. 2 |-> two[i]]
    BY <2>1, LenProperties
  <2> HIDE DEF two
  <2>3. two = <<x, y>>
    BY <2>1, <2>2
  <2> QED BY <2>3 DEF two
<1> HIDE DEF one
<1>4. Picked(Append(one, y), I) =
         IF Len(one) + 1 \in I THEN Append(Picked(one, I), y)
         ELSE Picked(one, I)
  BY <1>2, PickedGrows
<1>5. Len(one) + 1 \notin I
  <2>1. Len(one) + 1 = 2
    BY <1>1
  <2> QED BY <2>1
<1>6. Picked(Append(one, y), I) = Picked(one, I)
  BY <1>4, <1>5
<1> QED BY <1>3, <1>6 DEF one

\* What a strategy may ask for.
Signal == [side : {"flat", "buy", "sell"}, quantity : Nat, notional : Nat]

\* Of the signals of a bar at most one trades, and it asks for one or two units.
LEMMA OneTrade ==
    ASSUME NEW b, b.plan \in DOMAIN Asks, NEW book
    PROVE  \/ Taken(Signals(b, book)) = << >>
           \/ \E s \in Signal : /\ Taken(Signals(b, book)) = <<s>>
                                /\ s.side # "flat" /\ Quantity(s) \in 1 .. 2
<1> DEFINE places(signals) ==
              {i \in DOMAIN signals :
                 RiskStatus(signals[i]) = "allow" /\ signals[i].side # "flat"}
<1>1. /\ Flat \in Signal /\ Flat.side = "flat"
      /\ \A q \in Nat : Sized("buy", q) \in Signal /\ Priced("buy", q) \in Signal
      /\ \A q \in Nat : Sized("sell", q) \in Signal
  BY DEF Flat, Sized, Priced, Signal
<1>2. ASSUME NEW x \in Signal
      PROVE  /\ Taken(<<x>>) \in {<< >>, <<x>>}
             /\ RiskStatus(x) = "reject" \/ x.side = "flat" => Taken(<<x>>) = << >>
             /\ Taken(<<x, Flat>>) \in {<< >>, <<x>>}
             /\ RiskStatus(x) = "reject" => Taken(<<x, Flat>>) = << >>
  <2>1. /\ Taken(<<x>>) = Picked(<<x>>, places(<<x>>))
        /\ Taken(<<x, Flat>>) = Picked(<<x, Flat>>, places(<<x, Flat>>))
    BY DEF Taken
  <2>2. /\ 2 \notin places(<<x, Flat>>)
        /\ RiskStatus(x) = "reject" => 1 \notin places(<<x, Flat>>)
        /\ RiskStatus(x) = "reject" \/ x.side = "flat" => 1 \notin places(<<x>>)
    BY <1>1
  <2> HIDE DEF places
  <2>3. Picked(<<x>>, places(<<x>>)) =
           IF 1 \in places(<<x>>) THEN <<x>> ELSE << >>
    BY PickedOfOne
  <2>4. Picked(<<x, Flat>>, places(<<x, Flat>>)) =
           IF 1 \in places(<<x, Flat>>) THEN <<x>> ELSE << >>
    BY <1>1, <2>2, PickedOfOne, PickedOfTwo
  <2> QED BY <2>1, <2>2, <2>3, <2>4
<1>4. Taken(<< >>) = << >>
  <2>1. Taken(<< >>) = Picked(<< >>, places(<< >>))
    BY DEF Taken
  <2>2. << >> \in Seq(Signal)
    BY EmptySeq
  <2> QED BY <2>1, <2>2, PickedIsSeq
<1>5. Taken(<<Flat>>) = << >>
  BY <1>1, <1>2
<1>6. Taken(<<Priced("buy", MaxNotional + 1), Flat>>) = << >>
  <2>1. Priced("buy", MaxNotional + 1) \in Signal
    BY <1>1
  <2>2. RiskStatus(Priced("buy", MaxNotional + 1)) = "reject"
    BY DEF RiskStatus, Priced
  <2> QED BY <1>2, <2>1, <2>2
<1>7. Signals(b, book) \in {<< >>, <<Flat>>, <<Sized("buy", 1), Flat>>,
                            <<Priced("buy", 2)>>,
                            <<Priced("buy", MaxNotional + 1), Flat>>,
                            <<Sized("sell", 2)>>}
  BY DEF Signals, Asks
<1>8. /\ \A q \in Nat \ {0} : /\ Quantity(Sized("buy", q)) = q
                              /\ Quantity(Sized("sell", q)) = q
                              /\ Quantity(Priced("buy", q)) = q
      /\ Sized("buy", 1).side = "buy" /\ Sized("sell", 2).side = "sell"
      /\ Priced("buy", 2).side = "buy"
  BY DEF Quantity, Sized, Priced
<1>13. ASSUME NEW s \in Signal, Taken(Signals(b, book)) \in {<< >>, <<s>>},
              s.side # "flat", Quantity(s) \in 1 .. 2
       PROVE  \/ Taken(Signals(b, book)) = << >>
              \/ \E t \in Signal : /\ Taken(Signals(b, book)) = <<t>>
                                   /\ t.side # "flat" /\ Quantity(t) \in 1 .. 2
  BY <1>13
<1>9. CASE Signals(b, book) \in
             {<< >>, <<Flat>>, <<Priced("buy", MaxNotional + 1), Flat>>}
  BY <1>4, <1>5, <1>6, <1>9
<1>10. CASE Signals(b, book) = <<Sized("buy", 1), Flat>>
  <2> DEFINE x == Sized("buy", 1)
  <2>1. x \in Signal /\ x.side # "flat" /\ Quantity(x) \in 1 .. 2
    BY <1>1, <1>8
  <2> HIDE DEF x
  <2>2. Taken(Signals(b, book)) \in {<< >>, <<x>>}
    BY <1>2, <1>10, <2>1 DEF x
  <2> QED BY <1>13, <2>1, <2>2
<1>11. CASE Signals(b, book) = <<Priced("buy", 2)>>
  <2> DEFINE x == Priced("buy", 2)
  <2>1. x \in Signal /\ x.side # "flat" /\ Quantity(x) \in 1 .. 2
    BY <1>1, <1>8
  <2> HIDE DEF x
  <2>2. Taken(Signals(b, book)) \in {<< >>, <<x>>}
    BY <1>2, <1>11, <2>1 DEF x
  <2> QED BY <1>13, <2>1, <2>2
<1>12. CASE Signals(b, book) = <<Sized("sell", 2)>>
  <2> DEFINE x == Sized("sell", 2)
  <2>1. x \in Signal /\ x.side # "flat" /\ Quantity(x) \in 1 .. 2
    BY <1>1, <1>8
  <2> HIDE DEF x
  <2>2. Taken(Signals(b, book)) \in {<< >>, <<x>>}
    BY <1>2, <1>12, <2>1 DEF x
  <2> QED BY <1>13, <2>1, <2>2
<1> QED BY <1>7, <1>9, <1>10, <1>11, <1>12

\* What the simulator makes of the intents of a bar.
Fill == [side : {"buy", "sell"}, quantity : Nat \ {0}, price : Nat, fee : Nat]

\* A bar is filled at most once, at its price.
LEMMA FillsOfBar ==
    ASSUME NEW b, b.plan \in DOMAIN Asks, b.price \in Nat, NEW book, NEW venue
    PROVE  LET simulated == Simulate(Decisions(b, book, venue).shape, b.price)
               fills == [i \in DOMAIN simulated |-> simulated[i].fill]
           IN  \/ fills = << >>
               \/ \E f \in Fill : /\ fills = <<f>> /\ f.quantity \in 1 .. 2
                                 /\ f.price = b.price
<1> DEFINE traded == Taken(Signals(b, book))
           shape == Decisions(b, book, venue).shape
           simulated == Simulate(shape, b.price)
           fills == [i \in DOMAIN simulated |-> simulated[i].fill]
<1>1. shape = [i \in DOMAIN traded |->
                  [venue |-> venue, side |-> traded[i].side,
                   quantity |-> Quantity(traded[i])]]
  BY DEF Decisions, Intents
<1>2. simulated = [i \in DOMAIN shape |->
                     [fill |-> FillOf(shape[i], b.price),
                      order |-> FillOrder(Acknowledge(NewFromIntent(shape[i])),
                                          FillOf(shape[i], b.price))]]
  BY DEF Simulate
<1>3. /\ DOMAIN fills = DOMAIN traded
      /\ \A i \in DOMAIN traded :
            fills[i] = FillOf([venue |-> venue, side |-> traded[i].side,
                               quantity |-> Quantity(traded[i])], b.price)
  <2> HIDE DEF traded, shape, simulated
  <2>1. DOMAIN shape = DOMAIN traded /\ DOMAIN simulated = DOMAIN shape
    BY <1>1, <1>2
  <2>2. DOMAIN fills = DOMAIN simulated
    OBVIOUS
  <2>3. ASSUME NEW i \in DOMAIN traded
        PROVE  fills[i] = FillOf([venue |-> venue, side |-> traded[i].side,
                                  quantity |-> Quantity(traded[i])], b.price)
    <3>1. shape[i] = [venue |-> venue, side |-> traded[i].side,
                      quantity |-> Quantity(traded[i])]
      BY <1>1, <2>3, Zenon
    <3>2. simulated[i].fill = FillOf(shape[i], b.price)
      BY <1>2, <2>1, <2>3
    <3>3. fills[i] = simulated[i].fill
      BY <2>1, <2>3
    <3> HIDE DEF fills
    <3> QED BY <3>1, <3>2, <3>3, Zenon
  <2> QED BY <2>1, <2>2, <2>3
<1>4. CASE traded = << >>
  BY <1>3, <1>4
<1>5. ASSUME NEW s \in Signal, traded = <<s>>, s.side # "flat",
             Quantity(s) \in 1 .. 2
      PROVE  \E f \in Fill : /\ fills = <<f>> /\ f.quantity \in 1 .. 2
                             /\ f.price = b.price
  <2> DEFINE f == FillOf([venue |-> venue, side |-> s.side,
                          quantity |-> Quantity(s)], b.price)
  <2>1. /\ f.side = s.side /\ f.quantity = Quantity(s) /\ f.price = b.price
        /\ f.fee = (Quantity(s) * b.price * FeeBps) \div 10000
        /\ f = [side |-> f.side, quantity |-> f.quantity, price |-> f.price,
                fee |-> f.fee]
    BY DEF FillOf
  <2>2. f.fee \in Nat
    BY <1>5, <2>1
  <2>3. s.side \in {"buy", "sell"}
    BY <1>5 DEF Signal
  <2>4. f \in Fill
    <3> HIDE DEF f
    <3> QED BY <1>5, <2>1, <2>2, <2>3 DEF Fill
  <2>5. fills = <<f>>
    <3>1. DOMAIN fills = 1 .. 1 /\ fills[1] = f
      BY <1>3, <1>5
    <3>2. fills = [i \in 1 .. 1 |-> fills[i]]
      BY <3>1
    <3> HIDE DEF f, fills
    <3> QED BY <3>1, <3>2
  <2> HIDE DEF f, fills
  <2> QED BY <1>5, <2>1, <2>4, <2>5
<1> HIDE DEF fills
<1> QED BY <1>4, <1>5, OneTrade DEF fills

-----------------------------------------------------------------------------
(* The portfolio after a cycle.                                            *)

\* What the books would be of, were they allowed to go short.
Account == [cash : Int, qty : Int, avg : Nat, realized : Int, unrealized : Int]

\* The same books but for the mark.
SameMoney(a, b) ==
    /\ a.cash = b.cash /\ a.qty = b.qty /\ a.avg = b.avg
    /\ a.realized = b.realized

\* Applying the fills of a bar is applying its only fill, if there is one.
LEMMA NoFillApplied ==
    ASSUME NEW start
    PROVE  FoldLeft(ApplyFill, start, << >>) = start
<1> DEFINE none == << >>
           next(c) == [s \in SUBSET DOMAIN none |->
                         IF s = {} THEN start
                         ELSE LET x == Max(s)
                              IN  ApplyFill(c[s \ {x}], none[x])]
           c == CHOOSE g : g = next(g)
           h == [s \in SUBSET {} |-> start]
<1>1. DOMAIN none = {} /\ \A s \in SUBSET {} : s = {}
  OBVIOUS
<1> HIDE DEF none
<1>2. h = next(h)
  BY <1>1
<1>3. c = next(c)
  <2> HIDE DEF next, h
  <2> QED BY <1>2, Zenon
<1>4. FoldLeft(ApplyFill, start, none) = c[{}]
  BY <1>1, Zenon DEF FoldLeft, MapThenFoldSet
<1> HIDE DEF c
<1>5. c[{}] = start
  BY <1>1, <1>3
<1> QED BY <1>4, <1>5 DEF none

\* Applying a list of one fill is applying the fill.
LEMMA OneFillApplied ==
    ASSUME NEW start, NEW f
    PROVE  FoldLeft(ApplyFill, start, <<f>>) = ApplyFill(start, f)
<1> DEFINE one == <<f>>
           after == ApplyFill(start, f)
           next(c) == [s \in SUBSET DOMAIN one |->
                      IF s = {} THEN start
                      ELSE LET x == Max(s) IN ApplyFill(c[s \ {x}], one[x])]
           c == CHOOSE g : g = next(g)
           h == [s \in SUBSET {1} |-> IF s = {} THEN start ELSE after]
<1>1. DOMAIN one = {1} /\ one[1] = f
  OBVIOUS
<1> HIDE DEF one
<1>2. Max({1}) = 1
  <2>1. Max({1}) \in {1}
    <3>1. {1} \in SUBSET (1 .. 1) /\ {1} # {}
      OBVIOUS
    <3> QED BY <3>1, GreatestIndex
  <2> QED BY <2>1
<1>3. \A s \in SUBSET {1} : s = {} \/ (s = {1} /\ s \ {1} = {})
  OBVIOUS
<1>4. h = next(h)
  <2>1. /\ h = [s \in SUBSET {1} |-> h[s]] /\ h[{}] = start /\ h[{1}] = after
        /\ {1} \ {1} = {}
    OBVIOUS
  <2>2. ASSUME NEW s \in SUBSET {1} PROVE h[s] = next(h)[s]
    <3> HIDE DEF h
    <3>1. CASE s = {}
      BY <1>1, <2>1, <3>1
    <3>2. CASE s = {1}
      BY <1>1, <1>2, <2>1, <3>2
    <3> QED BY <1>3, <3>1, <3>2
  <2>3. next(h) = [s \in SUBSET {1} |-> next(h)[s]]
    BY <1>1
  <2> HIDE DEF h, next
  <2> QED BY <2>1, <2>2, <2>3
<1>5. c = next(c)
  <2> HIDE DEF next, h
  <2> QED BY <1>4, Zenon
<1>6. FoldLeft(ApplyFill, start, one) = c[{1}]
  BY <1>1, Zenon DEF FoldLeft, MapThenFoldSet
<1> HIDE DEF c
<1>7. c[{}] = start /\ c[{1}] = ApplyFill(c[{1} \ {Max({1})}], one[Max({1})])
  BY <1>1, <1>5
<1>8. {1} \ {1} = {}
  OBVIOUS
<1> QED BY <1>1, <1>2, <1>6, <1>7, <1>8 DEF one

\* A fill of a typed account leaves a typed account.
LEMMA ApplyFillTyped ==
    ASSUME NEW book \in Book, NEW f \in Fill
    PROVE  ApplyFill(book, f) \in Account
<1>1. /\ book.cash \in Nat /\ book.qty \in Nat /\ book.avg \in Nat
      /\ book.realized \in Int /\ book.unrealized \in Int
      /\ f.quantity \in Nat \ {0} /\ f.price \in Nat /\ f.fee \in Nat
  BY DEF Book, Fill
<1>2. \A m, n \in Nat : m * n \in Nat
  OBVIOUS
<1>3. \A m, n \in Int : m * n \in Int
  OBVIOUS
<1>6. book = [cash |-> book.cash, qty |-> book.qty, avg |-> book.avg,
              realized |-> book.realized, unrealized |-> book.unrealized]
  BY DEF Book
<1>4. CASE f.side = "buy"
  <2> DEFINE qty == book.qty + f.quantity
             cost == f.quantity * f.price
             avg == IF qty = f.quantity THEN f.price
                    ELSE (book.qty * book.avg + cost) \div qty
  <2>1. qty \in Nat \ {0} /\ cost \in Nat /\ book.qty * book.avg \in Nat
    BY <1>1, <1>2
  <2>2. avg \in Nat
    <3> DEFINE total == book.qty * book.avg + cost
    <3>1. total \in Nat
      BY <2>1
    <3> HIDE DEF total, qty
    <3>2. total \div qty \in Nat
      BY <2>1, <3>1
    <3> QED BY <1>1, <3>2 DEF total
  <2>3. ApplyFill(book, f) = [book EXCEPT !.qty = qty, !.avg = avg,
                                          !.cash = book.cash - cost - f.fee]
    BY <1>4 DEF ApplyFill, Bought
  <2>4. ApplyFill(book, f) =
           [cash |-> book.cash - cost - f.fee, qty |-> qty, avg |-> avg,
            realized |-> book.realized, unrealized |-> book.unrealized]
    BY <1>6, <2>3
  <2>5. book.cash - cost - f.fee \in Int
    BY <1>1, <2>1
  <2> HIDE DEF qty, cost, avg
  <2> QED BY <1>1, <2>1, <2>2, <2>4, <2>5 DEF Account
<1>5. CASE f.side # "buy"
  <2> DEFINE gain == (f.price - book.avg) * f.quantity
             cost == f.quantity * f.price
             qty == book.qty - f.quantity
             avg == IF qty # 0 THEN book.avg ELSE 0
  <2>1. gain \in Int /\ cost \in Int /\ qty \in Int /\ avg \in Nat
    <3>1. f.price - book.avg \in Int /\ f.quantity \in Int /\ f.price \in Int
      BY <1>1
    <3> QED BY <1>1, <1>3, <3>1
  <2>2. ApplyFill(book, f) = [book EXCEPT !.qty = qty, !.avg = avg,
                                 !.realized = book.realized + gain - f.fee,
                                 !.cash = book.cash + cost - f.fee]
    BY <1>5 DEF ApplyFill, Sold
  <2>4. ApplyFill(book, f) =
           [cash |-> book.cash + cost - f.fee, qty |-> qty, avg |-> avg,
            realized |-> book.realized + gain - f.fee,
            unrealized |-> book.unrealized]
    BY <1>6, <2>2
  <2>5. /\ book.cash + cost - f.fee \in Int
        /\ book.realized + gain - f.fee \in Int
    BY <1>1, <2>1
  <2> HIDE DEF gain, cost, qty, avg
  <2> QED BY <1>1, <2>1, <2>4, <2>5 DEF Account
<1> QED BY <1>4, <1>5

\* What the portfolio after a bar owes to the fill of the bar.
Trades(b, start, o) ==
    \/ o.fills = << >> /\ SameMoney(start, o.end)
    \/ \E f \in Fill : /\ o.fills = <<f>> /\ f.quantity \in 1 .. 2
                       /\ f.price = b.price
                       /\ SameMoney(ApplyFill(start, f), o.end)

\* The bars of the assumption.
BarType == [valid : BOOLEAN, price : Nat, plan : DOMAIN Asks]

\* The paper runner's outcome: the portfolio it started from, with the fill of
\* the bar applied to it.
LEMMA PaperTrades ==
    ASSUME NEW b \in BarType, NEW start \in Book
    PROVE  /\ PaperOutcome(b, start).start = start
           /\ PaperOutcome(b, start).end \in Account
           /\ ~ b.valid => PaperOutcome(b, start) = Refused(start)
           /\ Trades(b, start, PaperOutcome(b, start))
<1> DEFINE o == PaperOutcome(b, start)
<1>1. b.plan \in DOMAIN Asks /\ b.price \in Nat /\ b.valid \in BOOLEAN
  BY DEF BarType
<1>2. Book \subseteq Account
  BY DEF Book, Account
<1>3. CASE ~ b.valid
  <2>1. o = Refused(start)
    BY <1>3 DEF PaperOutcome
  <2>2. o.start = start /\ o.end = start /\ o.fills = << >>
    BY <2>1 DEF Refused
  <2> HIDE DEF o
  <2> QED BY <1>2, <2>1, <2>2 DEF Trades, SameMoney, o
<1>4. CASE b.valid
  <2> DEFINE simulated == Simulate(Decisions(b, start, "binance").shape, b.price)
             fills == [i \in DOMAIN simulated |-> simulated[i].fill]
             mark == IF fills = << >> THEN FoldLeft(ApplyFill, start, fills).avg
                     ELSE Last(fills).price
  <2>1. o.start = start /\ o.end = ApplyFills(start, fills) /\ o.fills = fills
    BY <1>4 DEF PaperOutcome
  <2>2. \/ fills = << >>
        \/ \E f \in Fill : /\ fills = <<f>> /\ f.quantity \in 1 .. 2
                          /\ f.price = b.price
    BY <1>1, FillsOfBar
  <2> HIDE DEF fills, o
  <2>3. ASSUME NEW after \in Account, NEW price \in Nat
        PROVE  LET e == [after EXCEPT !.unrealized =
                                          (price - after.avg) * after.qty]
               IN  SameMoney(after, e) /\ e \in Account
    <3>1. (price - after.avg) * after.qty \in Int
      BY DEF Account
    <3> QED BY <3>1 DEF SameMoney, Account
  <2>4. CASE fills = << >>
    <3>1. o.end = [start EXCEPT !.unrealized =
                                    (start.avg - start.avg) * start.qty]
      BY <2>1, <2>4, NoFillApplied DEF ApplyFills
    <3>2. start \in Account /\ start.avg \in Nat
      BY <1>2 DEF Book
    <3> QED BY <1>4, <2>1, <2>3, <2>4, <3>1, <3>2 DEF Trades, o
  <2>5. ASSUME NEW f \in Fill, fills = <<f>>, f.quantity \in 1 .. 2,
               f.price = b.price
        PROVE  SameMoney(ApplyFill(start, f), o.end) /\ o.end \in Account
    <3> DEFINE after == ApplyFill(start, f)
    <3>1. Last(fills).price = f.price /\ fills # << >>
      BY <2>5 DEF Last
    <3>2. FoldLeft(ApplyFill, start, fills) = after
      BY <2>5, OneFillApplied
    <3>3. o.end = [after EXCEPT !.unrealized =
                                    (f.price - after.avg) * after.qty]
      BY <2>1, <3>1, <3>2 DEF ApplyFills
    <3>4. after \in Account /\ f.price \in Nat
      BY ApplyFillTyped DEF Fill
    <3> HIDE DEF after
    <3> QED BY <2>3, <3>3, <3>4 DEF after
  <2> QED BY <1>4, <2>1, <2>2, <2>4, <2>5 DEF Trades, o
<1> QED BY <1>1, <1>3, <1>4

\* The books the contracts accept.
LEMMA CanonicalIsBook ==
    ASSUME NEW a \in Account, Canonical(a) PROVE a \in Book
BY DEF Account, Canonical, Book

-----------------------------------------------------------------------------
(* Types.                                                                  *)

InCycle == step \in {"cycle", "status", "health", "transition", "returned"}

\* The portfolios are ones the contracts accept, and the report-only runner of
\* a replay left its own as it was.
BooksInv ==
    /\ books \in Book /\ bar \in Bars \cup {NoBar}
    /\ out.start \in Book /\ out.end \in Book /\ reported.end = reported.start
    /\ task.kind = "replay" /\ task.mode = "report_only" /\ InCycle =>
          out.end = out.start

\* The bounds, and the counts of a process.
BoundsInv ==
    /\ runs <= MaxRuns /\ taken \in 0 .. MaxCycles
    /\ task.acted <= task.done /\ step \in Steps

\* The exit codes on file.
ExitsInv == \A d \in Dirs : disk[d].verdict.exit \in 0 .. 2

\* The portfolio a process starts from.
LEMMA InitialBook == Initial \in Book
BY DEF Initial, Book

\* A bar has a price and a plan, before the first one too.
LEMMA BarsTyped == \A b \in Bars \cup {NoBar} : b \in BarType
<1>1. NoBar \in BarType
  BY DEF NoBar, BarType, Asks
<1> QED BY <1>1 DEF BarType

\* A process that ends leaves nothing in memory.
LEMMA StoppedBooks == Stopped => BooksInv'
BY InitialBook DEF Stopped, BooksInv, Refused, NoTask

\* What a runner returns.
LEMMA RunBooks ==
    ASSUME NEW b \in BarType, NEW start \in Book, Run(b, start)
    PROVE  /\ out'.start = start /\ out'.end \in Book
           /\ task.mode = "report_only" => out'.end = out'.start
           /\ step' \in {"cycle", "returned"}
<1>1. CASE task.mode = "paper" /\ out' = PaperOutcome(b, start)
  <2>1. Canonical(PaperOutcome(b, start).end)
    BY <1>1 DEF Run, Raises
  <2> QED BY <1>1, <2>1, PaperTrades, CanonicalIsBook DEF Run
<1>2. CASE task.mode = "report_only" /\ out' = ReportOutcome(b, start)
  BY <1>2 DEF Run, ReportOutcome, Refused
<1>3. CASE /\ task.mode = "restricted_live"
           /\ \E degraded \in BOOLEAN : out' = LiveOutcome(b, start, degraded)
  BY <1>3 DEF Run, LiveOutcome, Refused
<1> QED BY <1>1, <1>2, <1>3 DEF Run

\* No step carries on a portfolio the contracts refuse.
LEMMA BooksStep == ShapeInv /\ BooksInv /\ [Next]_vars => BooksInv'
<1> SUFFICES ASSUME ShapeInv, BooksInv, [Next]_vars PROVE BooksInv'
  OBVIOUS
<1>1. CASE Starts
  <2>1. /\ books' = Initial /\ UNCHANGED <<bar, reported, out>>
        /\ step' \in {"input", "verdict"}
    BY Zenon, <1>1 DEF Starts, StartSession, StartReplay, StartDryRun, Start
  <2>2. ~ InCycle'
    BY <2>1 DEF InCycle
  <2> QED BY <2>1, <2>2, InitialBook DEF BooksInv
<1>2. CASE \E b \in Bars : TakeBar(b)
  <2>1. PICK b \in Bars : TakeBar(b)
    BY <1>2
  <2> DEFINE start == IF task.kind = "replay" THEN Initial ELSE books
  <2>2. b \in BarType /\ start \in Book
    BY BarsTyped, InitialBook DEF BooksInv
  <2>3. bar' = b /\ Run(b, start) /\ UNCHANGED <<task, books, reported>>
    BY <2>1 DEF TakeBar
  <2> HIDE DEF start
  <2>4. /\ out'.start \in Book /\ out'.end \in Book
        /\ task.mode = "report_only" => out'.end = out'.start
    BY <2>2, <2>3, RunBooks
  <2> QED BY <2>3, <2>4 DEF BooksInv
<1>3. CASE UNCHANGED <<task, books, bar, reported, out>> /\ (InCycle' => InCycle)
  BY <1>3 DEF BooksInv
<1>4. CASE PersistCycle \/ PersistSummary \/ PersistHealth \/ PersistTransition
  BY <1>3, <1>4 DEF PersistCycle, PersistSummary, PersistHealth,
                    PersistTransition, InCycle
<1>5. CASE Carry /\ UNCHANGED <<bar, reported, out>>
  BY <1>5 DEF Carry, BooksInv, InCycle
<1>6. CASE ReplayPaper
  <2>1. /\ task.kind = "replay" /\ task.mode = "report_only" /\ InCycle
        /\ reported' = out /\ out' = PaperOutcome(bar, books)
        /\ UNCHANGED <<books, bar>> /\ task'.mode = "paper"
        /\ Canonical(out'.end)
    BY <1>6 DEF ReplayPaper, InCycle, ShapeInv, TaskShape, Raises
  <2>2. reported'.end = reported'.start
    BY <2>1 DEF BooksInv
  <2>3. out'.start \in Book /\ out'.end \in Book
    <3>1. bar \in BarType /\ books \in Book
      BY BarsTyped DEF BooksInv
    <3> QED BY <2>1, <3>1, PaperTrades, CanonicalIsBook
  <2> QED BY <2>1, <2>2, <2>3 DEF BooksInv
<1>7. CASE PersistParity
  BY <1>3, <1>5, <1>7 DEF PersistParity, InCycle
<1>8. CASE (\E b \in Bars : RunnerRaises(b)) \/ LaunchRaises \/ LaunchEnds
  <2>1. CASE Stopped
    BY <2>1, StoppedBooks
  <2>2. CASE ~ Stopped
    <3>1. /\ UNCHANGED <<books, bar, reported, out>> /\ step' = "verdict"
      BY <1>8, <2>2 DEF RunnerRaises, LaunchRaises, LaunchEnds
    <3> QED BY <3>1 DEF BooksInv, InCycle
  <2> QED BY <2>1, <2>2
<1>9. CASE PersistSessionSummary \/ EndReplay \/ WriteVerdict \/ Killed
  BY <1>9, StoppedBooks DEF PersistSessionSummary, EndReplay, WriteVerdict,
                            Killed
<1>10. CASE CarryPortfolio
  BY <1>5, <1>10 DEF CarryPortfolio
<1>11. CASE UNCHANGED vars
  BY <1>3, <1>11 DEF vars, InCycle
<1> QED
  BY <1>1, <1>2, <1>4, <1>6, <1>7, <1>8, <1>9, <1>10, <1>11 DEF Next, Starts

\* A run of three bars cannot act four times.
LEMMA CarryCounts ==
    ASSUME ShapeInv, BoundsInv, Carry
    PROVE  task'.acted <= task'.done /\ step' \in Steps
<1> DEFINE n == IF out.fills # << >> THEN 1 ELSE 0
<1>1. /\ task'.done = task.done + 1 /\ task'.acted = task.acted + n
      /\ task.done \in Nat /\ task.acted \in Nat /\ step' = "input"
  BY DEF Carry, ShapeInv, TaskShape
<1>2. n \in 0 .. 1
  OBVIOUS
<1> HIDE DEF n
<1> QED BY <1>1, <1>2 DEF BoundsInv, Steps

\* A process acts at most once a cycle.
LEMMA BoundsStep == ShapeInv /\ BoundsInv /\ [Next]_vars => BoundsInv'
<1> SUFFICES ASSUME ShapeInv, BoundsInv, [Next]_vars PROVE BoundsInv'
  OBVIOUS
<1>1. CASE Starts
  <2>1. /\ runs < MaxRuns /\ runs' = runs + 1 /\ taken' = taken
        /\ task'.acted = 0 /\ task'.done = 0 /\ step' \in {"input", "verdict"}
    BY Zenon, <1>1 DEF Starts, StartSession, StartReplay, StartDryRun, Start,
                       NoTask
  <2> QED BY <2>1 DEF BoundsInv, ShapeInv, Steps
<1>2. CASE runs' = runs /\ taken' = taken /\ Stopped
  BY <1>2 DEF BoundsInv, Stopped, NoTask, Steps
<1>3. CASE /\ runs' = runs /\ taken' \in 0 .. MaxCycles /\ step' \in Steps
           /\ task'.acted = task.acted /\ task'.done = task.done
  BY <1>3 DEF BoundsInv
<1>4. CASE /\ runs' = runs /\ taken' = taken /\ Carry
  BY <1>4, CarryCounts DEF BoundsInv
<1>5. CASE \E b \in Bars : TakeBar(b)
  BY <1>3, <1>5 DEF TakeBar, Run, BoundsInv, Steps
<1>6. CASE PersistCycle \/ PersistSummary \/ PersistHealth \/ PersistTransition
  BY <1>3, <1>6 DEF PersistCycle, PersistSummary, PersistHealth,
                    PersistTransition, BoundsInv, Steps
<1>7. CASE ReplayPaper
  <2>1. task'.acted = task.acted /\ task'.done = task.done
    BY <1>7 DEF ReplayPaper, ShapeInv, TaskShape
  <2> QED BY <1>3, <1>7, <2>1 DEF ReplayPaper, BoundsInv, Steps
<1>8. CASE PersistParity \/ CarryPortfolio
  BY <1>3, <1>4, <1>8 DEF PersistParity, CarryPortfolio, BoundsInv, Steps
<1>9. CASE PersistSessionSummary \/ EndReplay \/ WriteVerdict \/ Killed
  BY <1>2, <1>9 DEF PersistSessionSummary, EndReplay, WriteVerdict, Killed
<1>10. CASE \E b \in Bars : RunnerRaises(b)
  <2>1. runs' = runs /\ taken' \in 0 .. MaxCycles
    BY <1>10 DEF RunnerRaises, BoundsInv
  <2>2. CASE Stopped
    BY <2>1, <2>2 DEF BoundsInv, Stopped, NoTask, Steps
  <2>3. CASE ~ Stopped
    <3>1. task'.acted = task.acted /\ task'.done = task.done /\ step' = "verdict"
      BY <1>10, <2>3 DEF RunnerRaises, ShapeInv, TaskShape
    <3> QED BY <1>3, <2>1, <3>1 DEF Steps
  <2> QED BY <2>2, <2>3
<1>11. CASE LaunchRaises \/ LaunchEnds
  <2>1. task'.acted = task.acted /\ task'.done = task.done
    BY <1>11 DEF LaunchRaises, LaunchEnds, ShapeInv, TaskShape
  <2> QED BY <1>3, <1>11, <2>1 DEF LaunchRaises, LaunchEnds, BoundsInv, Steps
<1>12. CASE UNCHANGED vars
  BY <1>3, <1>12 DEF vars, BoundsInv
<1> QED
  BY <1>1, <1>5, <1>6, <1>7, <1>8, <1>9, <1>10, <1>11, <1>12 DEF Next, Starts

\* A verdict exits with 0, 1 or 2.
LEMMA ExitsStep == ShapeInv /\ ExitsInv /\ [Next]_vars => ExitsInv'
<1> SUFFICES ASSUME ShapeInv, ExitsInv, [Next]_vars, NEW d \in Dirs
             PROVE  disk'[d].verdict.exit \in 0 .. 2
  BY DEF ExitsInv
<1>0. /\ DiskShape /\ "verdict" \in FileNames /\ "verdict" \notin RowFiles
      /\ disk[d].verdict.exit \in 0 .. 2
  BY DEF ShapeInv, FileNames, RowFiles, ExitsInv
<1>1. CASE Appends
  <2>1. \E f \in RowFiles : \E row : Append1(f, row)
    BY <1>1 DEF Appends, PersistCycle, PersistSummary, PersistTransition,
                PersistSessionSummary, PersistParity, RowFiles
  <2>2. disk'[d]["verdict"] = disk[d]["verdict"]
    BY <1>0, <2>1, AppendedFile
  <2> QED BY <1>0, <2>2
<1>2. CASE PersistHealth
  <2>1. Written(Dir, "health", Row)
    BY <1>2 DEF PersistHealth, Written
  <2>2. disk'[d]["verdict"] = disk[d]["verdict"]
    BY <1>0, <2>1, DirIsOne, WrittenFile DEF FileNames, RowFiles
  <2> QED BY <1>0, <2>2
<1>3. CASE WriteVerdict
  <2> DEFINE v == [run |-> runs, exit |-> ExitCode,
                   ok |-> task.launch = "success", mode |-> task.mode,
                   final |-> out.end]
  <2>1. Written("dry", "verdict", v) /\ v.exit = ExitCode
    BY <1>3 DEF WriteVerdict, Written
  <2> HIDE DEF v
  <2>2. ExitCode \in 0 .. 2 /\ "dry" \in Dirs
    BY DEF ExitCode, Dirs
  <2>3. \/ disk'[d]["verdict"] = v
        \/ disk'[d]["verdict"] = disk[d]["verdict"]
    BY <1>0, <2>1, <2>2, WrittenFile
  <2> QED BY <1>0, <2>1, <2>2, <2>3
<1>4. CASE disk' = disk
  BY <1>0, <1>4
<1> QED BY <1>1, <1>2, <1>3, <1>4, StepsOfDisk

\* The files and portfolios before the first process.
LEMMA TypesInit == Init => BooksInv /\ BoundsInv /\ ExitsInv
<1> SUFFICES ASSUME Init PROVE BooksInv /\ BoundsInv /\ ExitsInv
  OBVIOUS
<1>1. BooksInv
  BY InitialBook DEF Init, BooksInv, Refused, NoTask
<1>2. BoundsInv
  BY DEF Init, BoundsInv, NoTask, Steps
<1>3. ExitsInv
  BY DEF Init, ExitsInv, Empty
<1> QED BY <1>1, <1>2, <1>3

\* The portfolios of the offline modes are ones the contracts accept, and a
\* report-only cycle never moves one.
THEOREM OfflineTypes == Spec => []TypeOK
<1>1. Init => ShapeInv /\ BooksInv /\ BoundsInv /\ ExitsInv
  BY ShapeInit, TypesInit
<1>2. ShapeInv /\ BooksInv /\ BoundsInv /\ ExitsInv /\ [Next]_vars
        => ShapeInv' /\ BooksInv' /\ BoundsInv' /\ ExitsInv'
  BY ShapeStep, BooksStep, BoundsStep, ExitsStep
<1>3. ShapeInv /\ BooksInv /\ BoundsInv /\ ExitsInv => TypeOK
  <2> SUFFICES ASSUME ShapeInv, BooksInv, BoundsInv, ExitsInv PROVE TypeOK
    OBVIOUS
  <2>1. /\ task.kind \in {"none", "session", "replay", "dry"}
        /\ task.mode \in Modes /\ task.venue \in Venues
        /\ task.done \in Nat /\ task.acted \in Nat
        /\ task.launch \in {"none", "raised", "success", "unsuccessful"}
    BY DEF ShapeInv, TaskShape, Launches
  <2>2. task.acted \in 0 .. task.done /\ runs \in 0 .. MaxRuns
    BY <2>1 DEF BoundsInv, ShapeInv
  <2> QED BY <2>1, <2>2 DEF TypeOK, BooksInv, BoundsInv, ExitsInv
<1> QED BY <1>1, <1>2, <1>3, PTL DEF Spec

-----------------------------------------------------------------------------
(* What a portfolio is worth at cost.                                      *)

\* The cash and the position at cost, without what was realized.
Worth(b) == b.cash + b.qty * b.avg - b.realized
BuyFee(f) == IF f.side = "buy" THEN f.fee ELSE 0

\* Products of integers, one fact at a time.
LEMMA Products ==
    /\ \A m, n \in Int : m * n \in Int
    /\ \A m, n \in Nat : m * n \in Nat
    /\ \A m \in Nat, n \in Nat \ {0} : m <= m * n
    /\ \A k, m, n \in Int : (k * m) * n = k * (m * n)
    /\ \A k, m, n \in Int : (k + m) * n = k * n + m * n
    /\ \A k, m, n \in Int : (k - m) * n = k * n - m * n
    /\ \A m, n \in Int : m * n = n * m
    /\ \A m \in Nat, n \in Nat \ {0} : (n * m) \div n = m
<1>1. \A m, n \in Int : m * n \in Int
  OBVIOUS
<1>2. \A m, n \in Nat : m * n \in Nat
  OBVIOUS
<1>3. \A m \in Nat, n \in Nat \ {0} : m <= m * n
  OBVIOUS
<1>4. \A k, m, n \in Int : (k * m) * n = k * (m * n)
  OBVIOUS
<1>5. \A k, m, n \in Int : (k + m) * n = k * n + m * n
  OBVIOUS
<1>6. \A k, m, n \in Int : (k - m) * n = k * n - m * n
  OBVIOUS
<1>7. \A m, n \in Int : m * n = n * m
  OBVIOUS
<1>8. \A m \in Nat, n \in Nat \ {0} : (n * m) \div n = m
  OBVIOUS
<1> QED BY <1>1, <1>2, <1>3, <1>4, <1>5, <1>6, <1>7, <1>8

\* A multiple of d.
LEMMA Multiples ==
    ASSUME NEW d \in Nat \ {0}
    PROVE  /\ \A m \in Nat : m * d \in Nat /\ Divides(d, m * d)
           /\ \A n \in Nat : Divides(d, n) => \E m \in Nat : n = m * d
<1>1. ASSUME NEW m \in Nat PROVE m * d \in Nat /\ Divides(d, m * d)
  <2>1. m * d \in Nat /\ m <= m * d
    BY Products
  <2>2. m \in 0 .. m * d
    BY <2>1
  <2> QED BY <2>1, <2>2 DEF Divides
<1>2. ASSUME NEW n \in Nat, Divides(d, n) PROVE \E m \in Nat : n = m * d
  BY <1>2 DEF Divides
<1> QED BY <1>1, <1>2

\* A multiple of a multiple is a multiple.
LEMMA MultipleOfMultiple ==
    ASSUME NEW d \in Nat \ {0}, NEW e \in Nat \ {0}, NEW n \in Nat,
           Divides(d, e), Divides(e, n)
    PROVE  Divides(d, n)
<1>1. PICK a \in Nat : e = a * d
  BY Multiples
<1>2. PICK b \in Nat : n = b * e
  BY Multiples
<1>3. n = (b * a) * d /\ b * a \in Nat
  BY <1>1, <1>2, Products
<1> QED BY <1>3, Multiples

\* The average of a grown position is exact.
LEMMA AverageIsExact ==
    ASSUME NEW base \in Nat \ {0}, NEW small \in Nat \ {0},
           NEW whole \in Nat \ {0}, Divides(whole * small, base),
           NEW total \in Nat, Divides(base, total)
    PROVE  /\ whole * (total \div whole) = total
           /\ Divides(small, total \div whole)
<1>1. whole * small \in Nat \ {0}
  OBVIOUS
<1>2. Divides(whole * small, total)
  BY <1>1, MultipleOfMultiple
<1>3. PICK m \in Nat : total = m * (whole * small)
  BY <1>1, <1>2, Multiples
<1>4. m * small \in Nat /\ total = whole * (m * small)
  <2>1. m * small \in Nat
    BY Products
  <2>2. m * (whole * small) = whole * (m * small)
    OBVIOUS
  <2> QED BY <1>3, <2>1, <2>2
<1>5. total \div whole = m * small
  BY <1>4, Products
<1> QED BY <1>4, <1>5, Multiples

\* A sum of multiples.
LEMMA CostIsMultiple ==
    ASSUME NEW base \in Nat \ {0}, NEW avg \in Nat, NEW price \in Nat,
           NEW q \in Nat, NEW p \in Nat, Divides(base, avg), Divides(base, price)
    PROVE  Divides(base, q * avg + p * price) /\ q * avg + p * price \in Nat
<1>1. PICK a \in Nat : avg = a * base
  BY Multiples
<1>2. PICK c \in Nat : price = c * base
  BY Multiples
<1>3. q * a \in Nat /\ p * c \in Nat
  BY Products
<1>4. q * avg = (q * a) * base /\ p * price = (p * c) * base
  BY <1>1, <1>2, Products
<1>5. q * avg + p * price = (q * a + p * c) * base
  BY <1>3, <1>4, Products
<1>6. q * a + p * c \in Nat
  BY <1>3
<1> QED BY <1>5, <1>6, Multiples

\* The bar that buys or sells, in units of which every amount is a multiple.
Exact(base, small, book, f) ==
    /\ Divides(base, f.price) /\ Divides(base, book.avg) /\ Divides(small, base)
    /\ book.qty # 0 => Divides((book.qty + f.quantity) * small, base)

\* A buy costs its fee, whatever it is of; a sale moves what was realized.
LEMMA TradeKeepsWorth ==
    ASSUME NEW book \in Book, NEW f \in Fill, f.quantity \in 1 .. 2,
           NEW base \in Nat \ {0}, NEW small \in Nat \ {0},
           Exact(base, small, book, f)
    PROVE  LET after == ApplyFill(book, f)
           IN  /\ Worth(after) = Worth(book) - BuyFee(f)
               /\ after.qty <= book.qty + 2
               /\ Divides(small, after.avg)
<1> DEFINE after == ApplyFill(book, f)
<1>1. /\ book.cash \in Nat /\ book.qty \in Nat /\ book.avg \in Nat
      /\ book.realized \in Int /\ f.fee \in Nat
      /\ f.quantity \in Nat \ {0} /\ f.quantity <= 2 /\ f.price \in Nat
      /\ f.side \in {"buy", "sell"}
  BY DEF Book, Fill
<1>2. Divides(small, f.price) /\ Divides(small, book.avg) /\ Divides(small, 0)
  <2>1. 0 * small = 0
    OBVIOUS
  <2> QED BY <1>1, <2>1, MultipleOfMultiple, Multiples DEF Exact
<1>3. book = [cash |-> book.cash, qty |-> book.qty, avg |-> book.avg,
              realized |-> book.realized, unrealized |-> book.unrealized]
  BY DEF Book
<1>4. CASE f.side = "buy"
  <2> DEFINE qty == book.qty + f.quantity
             cost == f.quantity * f.price
             total == book.qty * book.avg + cost
             avg == IF qty = f.quantity THEN f.price ELSE total \div qty
  <2>1. after = [book EXCEPT !.qty = qty, !.avg = avg,
                             !.cash = book.cash - cost - f.fee]
    BY <1>4 DEF ApplyFill, Bought
  <2>2. qty \in Nat \ {0} /\ cost \in Nat
    BY <1>1, Products
  <2>3. qty * avg = total /\ Divides(small, avg)
    <3>1. CASE book.qty = 0
      <4>1. qty = f.quantity /\ avg = f.price
        BY <1>1, <3>1
      <4>2. 0 * book.avg = 0
        BY <1>1
      <4>3. total = cost
        BY <2>2, <3>1, <4>2
      <4> QED BY <1>2, <4>1, <4>3
    <3>2. CASE book.qty # 0
      <4>1. qty # f.quantity
        BY <1>1, <3>2
      <4>2. total \in Nat /\ Divides(base, total)
        BY <1>1, CostIsMultiple DEF Exact
      <4>3. Divides(qty * small, base)
        BY <3>2 DEF Exact
      <4> HIDE DEF qty, total
      <4> QED BY <2>2, <4>1, <4>2, <4>3, AverageIsExact
    <3> QED BY <3>1, <3>2
  <2> HIDE DEF qty, avg
  <2>4. /\ after.qty = qty /\ after.avg = avg /\ after.realized = book.realized
        /\ after.cash = book.cash - cost - f.fee
    BY <1>3, <2>1
  <2>5. Worth(after) = (book.cash - cost - f.fee) + total - book.realized
    BY <2>3, <2>4 DEF Worth
  <2>6. book.qty * book.avg \in Nat
    BY <1>1, Products
  <2> DEFINE held == book.qty * book.avg
  <2>7. Worth(book) = book.cash + held - book.realized /\ BuyFee(f) = f.fee
    BY <1>4 DEF Worth, BuyFee
  <2>8. total = held + cost /\ held \in Nat
    BY <2>6
  <2> HIDE DEF held, cost, total
  <2>9. Worth(after) = Worth(book) - BuyFee(f)
    BY <1>1, <2>2, <2>5, <2>7, <2>8
  <2>10. after.qty <= book.qty + 2
    BY <1>1, <2>4 DEF qty
  <2> HIDE DEF after
  <2> QED BY <2>3, <2>4, <2>9, <2>10 DEF after
<1>5. CASE f.side = "sell"
  <2> DEFINE gain == (f.price - book.avg) * f.quantity
             cost == f.quantity * f.price
             qty == book.qty - f.quantity
             avg == IF qty # 0 THEN book.avg ELSE 0
             held == book.qty * book.avg
             sold == f.quantity * book.avg
  <2>1. after = [book EXCEPT !.qty = qty, !.avg = avg,
                    !.realized = book.realized + gain - f.fee,
                    !.cash = book.cash + cost - f.fee]
    BY <1>5 DEF ApplyFill, Sold
  <2>2. /\ cost \in Int /\ held \in Int /\ sold \in Int /\ qty \in Int
        /\ gain = cost - sold
    <3>1. gain = f.price * f.quantity - book.avg * f.quantity
      BY <1>1, Products
    <3>2. f.price * f.quantity = cost /\ book.avg * f.quantity = sold
      BY <1>1, Products
    <3> QED BY <1>1, <3>1, <3>2, Products
  <2>3. qty * avg = held - sold
    <3>1. qty * book.avg = held - sold
      BY <1>1, Products
    <3>2. qty = 0 => qty * avg = 0 /\ qty * book.avg = 0
      BY <1>1
    <3> QED BY <3>1, <3>2
  <2> HIDE DEF gain, cost, qty, avg, held, sold
  <2>4. /\ after.qty = qty /\ after.avg = avg
        /\ after.realized = book.realized + gain - f.fee
        /\ after.cash = book.cash + cost - f.fee
    BY <1>3, <2>1
  <2>5. Worth(after) = (book.cash + cost - f.fee) + (held - sold)
                          - (book.realized + gain - f.fee)
    BY <2>3, <2>4 DEF Worth
  <2>6. Worth(book) = book.cash + held - book.realized /\ BuyFee(f) = 0
    BY <1>5 DEF Worth, BuyFee, held
  <2>7. Worth(after) = Worth(book) - BuyFee(f)
    BY <1>1, <2>2, <2>5, <2>6
  <2>8. Divides(small, avg) /\ qty <= book.qty + 2
    BY <1>1, <1>2 DEF avg, qty
  <2> HIDE DEF after
  <2> QED BY <2>4, <2>7, <2>8 DEF after
<1> HIDE DEF after
<1> QED BY <1>1, <1>4, <1>5 DEF after

-----------------------------------------------------------------------------
(* The rows of one run, as a file grows.                                   *)

\* The rows of the two files that a session's summary follows from.
Transition == [run : Nat, cycle : Nat, start : Book, end : Book,
               fills : Seq(Fill)]
CycleRow == [run : Nat, cycle : Nat]

\* A sequence with one more element, told by its elements.
Grown(long, short, x) ==
    /\ long = [i \in 1 .. Len(short) + 1 |-> long[i]]
    /\ long[Len(short) + 1] = x
    /\ \A i \in 1 .. Len(short) : long[i] = short[i]

\* Such a sequence is the shorter one with the element appended.
LEMMA GrownSeq ==
    ASSUME NEW T, NEW short \in Seq(T), NEW x \in T, NEW long,
           Grown(long, short, x)
    PROVE  long = Append(short, x)
<1> USE DEF Grown
<1> DEFINE more == Append(short, x)
<1>1. /\ more \in Seq(T) /\ Len(more) = Len(short) + 1
      /\ more[Len(short) + 1] = x /\ \A i \in 1 .. Len(short) : more[i] = short[i]
      /\ Len(short) \in Nat
  BY AppendProperties, LenProperties
<1>2. more = [i \in 1 .. Len(short) + 1 |-> more[i]]
  BY <1>1, LenProperties
<1> HIDE DEF more
<1>3. \A i \in 1 .. Len(short) + 1 : long[i] = more[i]
  <2>1. ASSUME NEW i \in 1 .. Len(short) + 1
        PROVE  i \in 1 .. Len(short) \/ i = Len(short) + 1
    BY <1>1
  <2> QED BY <1>1, <2>1
<1> QED BY <1>2, <1>3 DEF more

\* A row appended to a file is appended to the rows of its run alone.
LEMMA OfGrows ==
    ASSUME NEW S, NEW rows \in Seq(S), NEW row \in S, NEW r
    PROVE  /\ Of(rows, r) \in Seq(S)
           /\ Of(Append(rows, row), r) =
                 IF row.run = r THEN Append(Of(rows, r), row) ELSE Of(rows, r)
<1> DEFINE more == Append(rows, row)
           I == {i \in DOMAIN rows : rows[i].run = r}
           J == {i \in DOMAIN more : more[i].run = r}
           n == Len(rows)
<1>1. /\ n \in Nat /\ DOMAIN rows = 1 .. n
      /\ DOMAIN more = 1 .. n + 1 /\ more[n + 1] = row
      /\ \A i \in 1 .. n : more[i] = rows[i]
  BY AppendProperties, LenProperties
<1>2. OneMore(S, rows, row, I, J)
  <2>1. ASSUME NEW i \in 1 .. n PROVE i \in I <=> i \in J
    <3>1. i \in 1 .. n + 1 /\ more[i] = rows[i]
      BY <1>1
    <3> HIDE DEF more
    <3> QED BY <1>1, <3>1
  <2> QED BY <2>1 DEF OneMore, SamePlaces
<1>3. n + 1 \in J <=> row.run = r
  <2>1. n + 1 \in 1 .. n + 1
    BY <1>1
  <2> HIDE DEF more
  <2> QED BY <1>1, <2>1
<1>4. Of(rows, r) = Picked(rows, I) /\ Of(more, r) = Picked(more, J)
  BY DEF Of
<1> HIDE DEF I, J
<1>5. Picked(more, J) = IF n + 1 \in J THEN Append(Picked(rows, I), row)
                        ELSE Picked(rows, I)
  BY <1>2, PickedGrows
<1>6. Picked(rows, I) \in Seq(S)
  BY PickedIsSeq
<1> QED BY <1>3, <1>4, <1>5, <1>6

\* The rows of a run are rows of the file.
LEMMA OfNothingElse ==
    \A S : \A rows \in Seq(S) : \A r : Of(rows, r) \in Seq(S)
BY PickedIsSeq DEF Of

\* An empty file holds no row of any run.
LEMMA OfNothing == ASSUME NEW r PROVE Of(<< >>, r) = << >>
<1> DEFINE none == << >>
           I == {i \in DOMAIN none : none[i].run = r}
<1>1. none \in Seq({}) /\ none = << >>
  BY EmptySeq
<1>2. Of(none, r) = Picked(none, I)
  BY DEF Of
<1> HIDE DEF I, none
<1>3. Picked(none, I) = << >>
  BY <1>1, PickedIsSeq
<1> QED BY <1>2, <1>3 DEF none

\* The cycle of a row that comes is the last.
LEMMA IdsGrow ==
    ASSUME NEW S, NEW rows \in Seq(S), NEW row \in S
    PROVE  Ids(Append(rows, row)) = Append(Ids(rows), row.cycle)
<1> DEFINE more == Append(rows, row)
           n == Len(rows)
           T == {rows[i].cycle : i \in 1 .. n} \cup {row.cycle}
           short == Ids(rows)
           long == Ids(more)
<1>1. /\ n \in Nat /\ DOMAIN rows = 1 .. n
      /\ DOMAIN more = 1 .. n + 1 /\ more[n + 1] = row
      /\ \A i \in 1 .. n : more[i] = rows[i]
  BY AppendProperties, LenProperties
<1> HIDE DEF more
<1>2. short = [i \in 1 .. n |-> rows[i].cycle]
  BY <1>1 DEF Ids
<1>3. short \in Seq(T)
  <2>1. \A i \in 1 .. n : rows[i].cycle \in T
    OBVIOUS
  <2> HIDE DEF T
  <2> QED BY <1>1, <1>2, <2>1, IsASeq
<1>4. Len(short) = n
  <2>1. DOMAIN short = 1 .. n
    BY <1>2
  <2> HIDE DEF short, T
  <2> QED BY <1>1, <1>3, <2>1, LenProperties
<1>5. long = [i \in 1 .. n + 1 |-> more[i].cycle]
  BY <1>1 DEF Ids
<1>6. /\ long = [i \in 1 .. n + 1 |-> long[i]]
      /\ long[n + 1] = row.cycle /\ \A i \in 1 .. n : long[i] = short[i]
  <2>1. n + 1 \in 1 .. n + 1 /\ \A i \in 1 .. n : i \in 1 .. n + 1
    BY <1>1
  <2> HIDE DEF short, long
  <2> QED BY <1>1, <1>2, <1>5, <2>1
<1>7. row.cycle \in T
  OBVIOUS
<1> HIDE DEF T, short, long
<1>8. long = Append(short, row.cycle)
  <2>1. Grown(long, short, row.cycle)
    BY <1>4, <1>6 DEF Grown
  <2> QED BY <1>3, <1>7, <2>1, GrownSeq
<1> QED BY <1>8 DEF long, short, more

-----------------------------------------------------------------------------
(* Fees.                                                                   *)

\* The fees of the buys of one bar.
LEMMA BuyFeesOf ==
    /\ \A fills \in Seq(Fill) : BuyFees(fills) \in Nat
    /\ BuyFees(<< >>) = 0
    /\ \A f \in Fill : BuyFees(<<f>>) = BuyFee(f)
<1>1. ASSUME NEW fills \in Seq(Fill) PROVE BuyFees(fills) \in Nat
  <2> DEFINE fee == [i \in 1 .. Len(fills) |->
                       IF fills[i].side = "buy" THEN fills[i].fee ELSE 0]
  <2>1. /\ DOMAIN fills = 1 .. Len(fills) /\ Len(fills) \in Nat
        /\ \A i \in 1 .. Len(fills) : fills[i] \in Fill
    BY LenProperties, ElementOfSeq
  <2>2. \A i \in 1 .. Len(fills) :
           (IF fills[i].side = "buy" THEN fills[i].fee ELSE 0) \in Nat
    BY <2>1 DEF Fill
  <2>3. fee \in Seq(Nat)
    BY <2>1, <2>2, IsASeq
  <2>4. BuyFees(fills) = Total(fee)
    BY <2>1 DEF BuyFees
  <2> HIDE DEF fee
  <2> QED BY <2>3, <2>4, TotalGrows
<1>2. BuyFees(<< >>) = 0
  <2>1. [i \in DOMAIN << >> |-> IF << >>[i].side = "buy" THEN << >>[i].fee
                                ELSE 0] = << >>
    OBVIOUS
  <2> QED BY <2>1, TotalGrows DEF BuyFees
<1>3. ASSUME NEW f \in Fill PROVE BuyFees(<<f>>) = BuyFee(f)
  <2> DEFINE one == <<f>>
             none == << >>
             fee == [i \in DOMAIN one |->
                       IF one[i].side = "buy" THEN one[i].fee ELSE 0]
  <2>1. fee = [i \in 1 .. 1 |-> BuyFee(f)]
    <3>1. DOMAIN one = 1 .. 1 /\ \A i \in 1 .. 1 : one[i] = f
      OBVIOUS
    <3> HIDE DEF one
    <3> QED BY <3>1 DEF BuyFee
  <2>2. BuyFee(f) \in Nat
    BY DEF BuyFee, Fill
  <2>3. none \in Seq(Nat) /\ Len(none) = 0 /\ Total(none) = 0
    BY EmptySeq, TotalGrows
  <2>4. /\ fee = [i \in 1 .. Len(none) + 1 |-> fee[i]]
        /\ fee[Len(none) + 1] = BuyFee(f)
        /\ \A i \in 1 .. Len(none) : fee[i] = none[i]
    <3> HIDE DEF fee, none
    <3>1. Len(none) + 1 = 1 /\ ~ \E i \in 1 .. Len(none) : TRUE
      BY <2>3
    <3> QED BY <2>1, <3>1
  <2>5. BuyFees(<<f>>) = Total(fee)
    BY DEF BuyFees
  <2> HIDE DEF fee, none
  <2>6. fee = Append(none, BuyFee(f))
    <3>1. Grown(fee, none, BuyFee(f))
      BY <2>4 DEF Grown
    <3> QED BY <2>2, <2>3, <3>1, GrownSeq
  <2>7. Total(Append(none, BuyFee(f))) = Total(none) + BuyFee(f)
    BY <2>2, <2>3, TotalGrows
  <2> QED BY <2>2, <2>3, <2>5, <2>6, <2>7
<1> QED BY <1>1, <1>2, <1>3

\* The fees of a session grow by those of the row that comes.
LEMMA FeesPaidGrow ==
    /\ FeesPaid(<< >>) = 0
    /\ \A rows \in Seq(Transition) : FeesPaid(rows) \in Nat
    /\ \A rows \in Seq(Transition), row \in Transition :
          FeesPaid(Append(rows, row)) = FeesPaid(rows) + BuyFees(row.fills)
<1>1. FeesPaid(<< >>) = 0
  <2>1. [i \in DOMAIN << >> |-> BuyFees(<< >>[i].fills)] = << >>
    OBVIOUS
  <2> QED BY <2>1, TotalGrows DEF FeesPaid
<1> DEFINE fee(rows) == [i \in 1 .. Len(rows) |-> BuyFees(rows[i].fills)]
<1>2. ASSUME NEW rows \in Seq(Transition)
      PROVE  /\ fee(rows) \in Seq(Nat) /\ Len(fee(rows)) = Len(rows)
             /\ FeesPaid(rows) = Total(fee(rows)) /\ Len(rows) \in Nat
  <2>1. /\ DOMAIN rows = 1 .. Len(rows) /\ Len(rows) \in Nat
        /\ \A i \in 1 .. Len(rows) : rows[i] \in Transition
    BY LenProperties, ElementOfSeq
  <2>2. \A i \in 1 .. Len(rows) : BuyFees(rows[i].fills) \in Nat
    BY <2>1, BuyFeesOf DEF Transition
  <2>3. fee(rows) \in Seq(Nat)
    BY <2>1, <2>2, IsASeq
  <2>4. DOMAIN fee(rows) = 1 .. Len(rows)
    OBVIOUS
  <2>5. FeesPaid(rows) = Total(fee(rows))
    BY <2>1 DEF FeesPaid
  <2> HIDE DEF fee
  <2> QED BY <2>1, <2>3, <2>4, <2>5, LenProperties
<1>3. ASSUME NEW rows \in Seq(Transition) PROVE FeesPaid(rows) \in Nat
  <2> HIDE DEF fee
  <2> QED BY <1>2, TotalGrows
<1>4. ASSUME NEW rows \in Seq(Transition), NEW row \in Transition
      PROVE  FeesPaid(Append(rows, row)) = FeesPaid(rows) + BuyFees(row.fills)
  <2> DEFINE more == Append(rows, row)
             n == Len(rows)
             x == BuyFees(row.fills)
             short == fee(rows)
             long == fee(more)
  <2>1. /\ more \in Seq(Transition) /\ Len(more) = n + 1 /\ more[n + 1] = row
        /\ \A i \in 1 .. n : more[i] = rows[i]
    BY AppendProperties
  <2>2. x \in Nat
    BY BuyFeesOf DEF Transition
  <2> HIDE DEF more
  <2>3. /\ short \in Seq(Nat) /\ Len(short) = n /\ FeesPaid(rows) = Total(short)
        /\ n \in Nat /\ FeesPaid(more) = Total(long)
    <3> HIDE DEF fee
    <3> QED BY <1>2, <2>1
  <2>4. /\ long = [i \in 1 .. n + 1 |-> BuyFees(more[i].fills)]
        /\ short = [i \in 1 .. n |-> BuyFees(rows[i].fills)]
    BY <2>1
  <2> HIDE DEF short, long, x
  <2>5. /\ long = [i \in 1 .. n + 1 |-> long[i]] /\ long[n + 1] = x
        /\ \A i \in 1 .. n : long[i] = short[i]
    <3>1. n + 1 \in 1 .. n + 1 /\ \A i \in 1 .. n : i \in 1 .. n + 1
      BY <2>3
    <3> QED BY <2>1, <2>4, <3>1 DEF x
  <2>6. long = Append(short, x)
    <3>1. Grown(long, short, x)
      BY <2>3, <2>5 DEF Grown
    <3> QED BY <2>2, <2>3, <3>1, GrownSeq
  <2> QED BY <2>2, <2>3, <2>6, TotalGrows DEF more, x
<1> QED BY <1>1, <1>3, <1>4

-----------------------------------------------------------------------------
(* The books of a session.                                                 *)

\* The transitions that hold a fill.
Acting(rows) == {j \in DOMAIN rows : rows[j].fills # << >>}
Acts(fills) == IF fills # << >> THEN 1 ELSE 0

\* Whether the averages are exact, and in multiples of what.
Scale == CHOOSE scale : ExactAverages(scale)
Exactly == ExactAverages(Scale)

\* What the transitions of a session tell of its portfolio and its counts.
Told(rows, final, acted, total) ==
    /\ LeadTo(rows, final) /\ (Exactly => Balances(rows, final))
    /\ acted = Cardinality(Acting(rows)) /\ Len(rows) <= total

\* A session without a row is told by the initial portfolio.
LEMMA ToldNothing == Told(<< >>, Initial, 0, 0)
<1> DEFINE none == << >>
<1>1. none \in Seq(Transition) /\ DOMAIN none = {} /\ Len(none) = 0
      /\ FeesPaid(none) = 0
  BY EmptySeq, FeesPaidGrow
<1> HIDE DEF none
<1>2. LeadTo(none, Initial)
  BY <1>1 DEF LeadTo
<1>3. Balances(none, Initial)
  BY <1>1 DEF Balances, Initial
<1>4. Acting(none) = {} /\ Cardinality(Acting(none)) = 0
  BY <1>1, FS_EmptySet DEF Acting
<1> QED BY <1>1, <1>2, <1>3, <1>4 DEF Told, none

\* The row of the cycle that just ended.
Follows(row, start) ==
    /\ row \in Transition /\ row.start = start
    /\ Exactly => Worth(row.end) = Worth(start) - BuyFees(row.fills)

\* A row that follows from the books so far leads to the books after it.
LEMMA ToldGrows ==
    ASSUME NEW rows \in Seq(Transition), NEW start \in Book,
           NEW acted \in Nat, NEW total \in Nat,
           Told(rows, start, acted, total),
           NEW row, Follows(row, start)
    PROVE  Told(Append(rows, row), row.end, acted + Acts(row.fills), total + 1)
<1> DEFINE more == Append(rows, row)
           n == Len(rows)
<1>1. /\ n \in Nat /\ DOMAIN rows = 1 .. n /\ n <= total
      /\ DOMAIN more = 1 .. n + 1 /\ more[n + 1] = row /\ Len(more) = n + 1
      /\ \A i \in 1 .. n : more[i] = rows[i]
      /\ row \in Transition
  BY AppendProperties, LenProperties DEF Told, Follows
<1>2. FeesPaid(more) = FeesPaid(rows) + BuyFees(row.fills)
      /\ FeesPaid(rows) \in Nat /\ BuyFees(row.fills) \in Nat
  BY <1>1, FeesPaidGrow, BuyFeesOf DEF Transition
<1> HIDE DEF more
<1>3. LeadTo(more, row.end)
  <2> DEFINE end(i) == IF i = 0 THEN Initial ELSE rows[i].end
             endMore(i) == IF i = 0 THEN Initial ELSE more[i].end
  <2>1. /\ \A i \in 1 .. n : rows[i].start = end(i - 1)
        /\ end(n) = start
    BY <1>1 DEF Told, LeadTo
  <2>2. \A i \in 0 .. n : endMore(i) = end(i)
    BY <1>1
  <2>3. endMore(n + 1) = row.end
    BY <1>1
  <2>4. ASSUME NEW i \in 1 .. n + 1
        PROVE  more[i].start = endMore(i - 1)
    <3>1. CASE i \in 1 .. n
      <4>1. i - 1 \in 0 .. n /\ more[i] = rows[i]
        BY <1>1, <3>1
      <4> HIDE DEF end, endMore
      <4> QED BY <2>1, <2>2, <3>1, <4>1
    <3>2. CASE i = n + 1
      <4>1. i - 1 = n /\ n \in 0 .. n
        BY <1>1, <3>2
      <4> HIDE DEF end, endMore
      <4> QED BY <1>1, <2>1, <2>2, <3>2, <4>1 DEF Follows
    <3> QED BY <1>1, <3>1, <3>2
  <2> QED BY <1>1, <2>3, <2>4 DEF LeadTo
<1>4. ASSUME Exactly PROVE Balances(more, row.end)
  <2>1. start \in Book /\ row.end \in Book
    BY <1>1 DEF Transition
  <2>2. ASSUME NEW b \in Book
        PROVE  /\ b.cash + b.qty * b.avg \in Int /\ b.realized \in Int
               /\ Worth(b) \in Int
               /\ Worth(b) = (b.cash + b.qty * b.avg) - b.realized
    <3>1. b.cash \in Nat /\ b.qty \in Nat /\ b.avg \in Nat /\ b.realized \in Int
      BY DEF Book
    <3>2. b.qty * b.avg \in Nat
      BY <3>1, Products
    <3> QED BY <3>1, <3>2 DEF Worth
  <2>3. start.cash + start.qty * start.avg
          = InitialCash + start.realized - FeesPaid(rows)
    BY <1>4 DEF Told, Balances
  <2>4. Worth(row.end) = Worth(start) - BuyFees(row.fills)
    BY <1>4 DEF Follows
  <2> DEFINE a == start.cash + start.qty * start.avg
             e == row.end.cash + row.end.qty * row.end.avg
  <2>5. /\ a \in Int /\ e \in Int /\ start.realized \in Int
        /\ row.end.realized \in Int /\ Worth(start) = a - start.realized
        /\ Worth(row.end) = e - row.end.realized
    BY <2>1, <2>2
  <2>6. a = InitialCash + start.realized - FeesPaid(rows)
    BY <2>3
  <2> HIDE DEF a, e
  <2>7. e = InitialCash + row.end.realized - FeesPaid(more)
    <3>1. Worth(start) = InitialCash - FeesPaid(rows)
      BY <1>2, <2>5, <2>6
    <3>2. e = Worth(row.end) + row.end.realized
      BY <2>5
    <3>3. Worth(row.end) = InitialCash - FeesPaid(more)
      BY <1>2, <2>4, <3>1
    <3> QED BY <1>2, <2>5, <3>2, <3>3
  <2> QED BY <2>7 DEF Balances, e
<1>5. Cardinality(Acting(more)) = acted + Acts(row.fills)
  <2>1. IsFiniteSet(Acting(rows)) /\ Acting(rows) \subseteq 1 .. n
    <3>1. IsFiniteSet(1 .. n)
      BY <1>1, FS_Interval
    <3>2. Acting(rows) \in SUBSET (1 .. n)
      BY <1>1 DEF Acting
    <3> QED BY <3>1, <3>2, FS_Subset
  <2>2. Acting(more) = IF row.fills # << >> THEN Acting(rows) \cup {n + 1}
                       ELSE Acting(rows)
    <3>1. DOMAIN more = DOMAIN rows \cup {n + 1}
      BY <1>1
    <3> QED BY <1>1, <3>1 DEF Acting
  <2>3. n + 1 \notin Acting(rows)
    BY <1>1, <2>1
  <2>4. Cardinality(Acting(rows) \cup {n + 1}) = Cardinality(Acting(rows)) + 1
    BY <2>1, <2>3, FS_AddElement
  <2>5. acted = Cardinality(Acting(rows))
    BY DEF Told
  <2> QED BY <2>2, <2>4, <2>5 DEF Acts
<1>6. Len(more) <= total + 1
  BY <1>1
<1> QED BY <1>3, <1>4, <1>5, <1>6 DEF Told, more

-----------------------------------------------------------------------------
(* What a session has left so far.                                         *)

\* The rows that run r left in the files of the sessions.
SessionRows(r) == Of(disk["session"].transitions, r)
SessionCycles(r) == Of(disk["session"].cycles, r)

\* The rows on file are of runs that have been started.
SessionFilesInv ==
    /\ disk["session"].transitions \in Seq(Transition)
    /\ disk["session"].cycles \in Seq(CycleRow)
    /\ \A r \in Nat : r > runs => SessionRows(r) = << >>
                                  /\ SessionCycles(r) = << >>

\* A summary follows from the rows of its session, which is over.
Follow(s, transitions, cycles) ==
    /\ Told(Of(transitions, s.run), s.final, s.acted, s.total)
    /\ Ids(Of(transitions, s.run)) = Ids(Of(cycles, s.run))

\* Every summary on file follows, and is not of the session that runs.
SummariesInv ==
    LET files == disk["session"] IN
    \A i \in DOMAIN files.sessions :
       /\ files.sessions[i].run \in 0 .. runs
       /\ task.kind = "session" => files.sessions[i].run # runs
       /\ Follow(files.sessions[i], files.transitions, files.cycles)

\* What the cycle at hand makes of the books.
Accounts ==
    /\ out.start = books /\ out.fills \in Seq(Fill)
    /\ Exactly => Worth(out.end) = Worth(books) - BuyFees(out.fills)

\* The session that runs, cycle by cycle: its transitions lead to the books
\* at hand, and its cycle rows are one ahead while a cycle is being persisted.
SessionInv ==
    task.kind = "session" =>
       /\ task.mode = "paper"
       /\ step \in {"input", "cycle", "status", "health", "transition"} =>
             Told(SessionRows(runs), books, task.acted, task.done)
       /\ step = "returned" =>
             Told(SessionRows(runs), out.end, task.acted + Acts(out.fills),
                  task.done + 1)
       /\ step \in {"input", "cycle", "returned"} =>
             Ids(SessionRows(runs)) = Ids(SessionCycles(runs))
       /\ step \in {"status", "health", "transition"} =>
             Ids(SessionCycles(runs)) =
                Append(Ids(SessionRows(runs)), task.done + 1)
       /\ step \in {"cycle", "status", "health", "transition"} => Accounts

\* The average is a multiple of the scale of the bar.
Even(scale, k, b) ==
    /\ b.qty <= 2 * k
    /\ b.avg = 0 \/ (k > 0 /\ Divides(scale[k], b.avg))

\* The averages of a session are multiples of the scale of its bar.
ExactInv ==
    Exactly /\ task.kind = "session" =>
       /\ step = "input" => Even(Scale, taken, books)
       /\ InCycle => Even(Scale, taken, out.end)

\* A session writes to the directory of the sessions.
LEMMA SessionDir == task.kind = "session" => Dir = "session"
BY DEF Dir

\* The files of the sessions are files.
LEMMA SessionNames ==
    /\ "session" \in Dirs
    /\ {"transitions", "cycles", "sessions"} \subseteq RowFiles
    /\ RowFiles \subseteq FileNames
BY DEF Dirs, RowFiles, FileNames

\* The files of the sessions, left alone.
SameSessions ==
    /\ disk'["session"].transitions = disk["session"].transitions
    /\ disk'["session"].cycles = disk["session"].cycles
    /\ disk'["session"].sessions = disk["session"].sessions

\* Files left alone hold the same rows.
LEMMA SameRows ==
    ASSUME SameSessions
    PROVE  /\ \A r : SessionRows(r)' = SessionRows(r)
           /\ \A r : SessionCycles(r)' = SessionCycles(r)
BY DEF SameSessions, SessionRows, SessionCycles

\* Only the sessions write their files.
LEMMA OthersLeaveSessions ==
    ASSUME ShapeInv, [Next]_vars, task.kind # "session" PROVE SameSessions
<1>0. DiskShape /\ Dir \in Dirs
  BY DirIsOne DEF ShapeInv
<1>1. CASE disk' = disk
  BY <1>1 DEF SameSessions
<1>2. CASE disk' # disk
  <2>1. Dir # "session"
    <3>1. step # "off"
      BY <1>2, StepsOfDisk DEF Appends, PersistCycle, PersistSummary,
            PersistTransition, PersistSessionSummary, PersistParity,
            PersistHealth, WriteVerdict
    <3>2. task.kind \in {"replay", "dry"}
      BY <3>1 DEF ShapeInv, TaskShape
    <3> QED BY <3>2 DEF Dir
  <2>2. ASSUME NEW f \in FileNames, NEW content, NEW d \in Dirs, d # "session",
               Written(d, f, content), f \in RowFiles => IsFile(content)
        PROVE  SameSessions
    <3>1. \A g \in FileNames : disk'["session"][g] = disk["session"][g]
      BY <1>0, <2>2, SessionNames, WrittenFile
    <3>2. /\ disk'["session"]["transitions"] = disk["session"]["transitions"]
          /\ disk'["session"]["cycles"] = disk["session"]["cycles"]
          /\ disk'["session"]["sessions"] = disk["session"]["sessions"]
      BY <3>1, SessionNames
    <3> QED BY <3>2 DEF SameSessions
  <2>3. CASE Appends
    <3>1. PICK f \in RowFiles : \E row : Append1(f, row)
      BY <2>3 DEF Appends, PersistCycle, PersistSummary, PersistTransition,
                  PersistSessionSummary, PersistParity, RowFiles
    <3>2. PICK row : Append1(f, row)
      BY <3>1
    <3>3. \A g \in FileNames : disk'["session"][g] = disk["session"][g]
      BY <1>0, <2>1, <3>2, SessionNames, AppendedFile
    <3>4. /\ disk'["session"]["transitions"] = disk["session"]["transitions"]
          /\ disk'["session"]["cycles"] = disk["session"]["cycles"]
          /\ disk'["session"]["sessions"] = disk["session"]["sessions"]
      BY <3>3, SessionNames
    <3> QED BY <3>4 DEF SameSessions
  <2>4. CASE PersistHealth
    <3>1. Written(Dir, "health", Row)
      BY <2>4 DEF PersistHealth, Written
    <3>2. "health" \in FileNames /\ "health" \notin RowFiles
      BY DEF FileNames, RowFiles
    <3> QED BY <1>0, <2>1, <2>2, <3>1, <3>2
  <2>5. CASE WriteVerdict
    <3>1. \E v : Written("dry", "verdict", v)
      BY <2>5 DEF WriteVerdict, Written
    <3>2. /\ "verdict" \in FileNames /\ "verdict" \notin RowFiles
          /\ "dry" \in Dirs /\ "dry" # "session"
      BY DEF FileNames, RowFiles, Dirs
    <3> QED BY <2>2, <3>1, <3>2
  <2> QED BY <1>2, <2>3, <2>4, <2>5, StepsOfDisk
<1> QED BY <1>1, <1>2

\* A row of the session that runs comes to one of its files.
LEMMA SessionRowCame ==
    ASSUME ShapeInv, SessionFilesInv, task.kind = "session",
           NEW f \in {"transitions", "cycles"}, NEW row, row.run = runs,
           row \in IF f = "cycles" THEN CycleRow ELSE Transition,
           Append1(f, row), runs' = runs
    PROVE  /\ SessionFilesInv'
           /\ disk'["session"].sessions = disk["session"].sessions
           /\ \A r \in Nat : r # runs => /\ SessionRows(r)' = SessionRows(r)
                                         /\ SessionCycles(r)' = SessionCycles(r)
           /\ \A r : r = runs =>
                 /\ SessionRows(r)' = IF f = "transitions"
                                      THEN Append(SessionRows(r), row)
                                      ELSE SessionRows(r)
                 /\ SessionCycles(r)' = IF f = "cycles"
                                        THEN Append(SessionCycles(r), row)
                                        ELSE SessionCycles(r)
<1>1. /\ DiskShape /\ Dir = "session" /\ f \in RowFiles /\ f \in FileNames
  BY SessionDir, SessionNames DEF ShapeInv
<1>2. /\ disk'["session"][f] = Append(disk["session"][f], row)
      /\ \A g \in FileNames : g # f => disk'["session"][g] = disk["session"][g]
  BY <1>1, SessionNames, AppendedFile
<1>3. disk'["session"]["sessions"] = disk["session"]["sessions"]
  BY <1>2, SessionNames
<1>4. CASE f = "transitions"
  <2>1. /\ disk'["session"].transitions = Append(disk["session"].transitions, row)
        /\ disk'["session"].cycles = disk["session"].cycles
        /\ row \in Transition /\ disk["session"].transitions \in Seq(Transition)
    <3>1. disk'["session"]["cycles"] = disk["session"]["cycles"]
      BY <1>2, <1>4, SessionNames
    <3> QED BY <1>2, <1>4, <3>1 DEF SessionFilesInv
  <2>2. ASSUME NEW r
        PROVE  /\ SessionCycles(r)' = SessionCycles(r)
               /\ SessionRows(r)' = IF row.run = r
                                    THEN Append(SessionRows(r), row)
                                    ELSE SessionRows(r)
    <3>1. SessionCycles(r)' = SessionCycles(r)
      BY <2>1 DEF SessionCycles
    <3>2. SessionRows(r)' = Of(Append(disk["session"].transitions, row), r)
      BY <2>1 DEF SessionRows
    <3> DEFINE old == disk["session"].transitions
    <3>3. Of(Append(old, row), r) =
             IF row.run = r THEN Append(Of(old, r), row) ELSE Of(old, r)
      <4>1. row \in Transition /\ old \in Seq(Transition)
        BY <2>1
      <4> HIDE DEF old
      <4> QED BY <4>1, OfGrows, SMT
    <3> QED BY <3>1, <3>2, <3>3 DEF SessionRows
  <2>3. disk'["session"].transitions \in Seq(Transition)
    BY <2>1, AppendProperties
  <2>4. ASSUME NEW r \in Nat, r > runs'
        PROVE  SessionRows(r)' = << >> /\ SessionCycles(r)' = << >>
    <3>1. r # runs /\ SessionRows(r) = << >> /\ SessionCycles(r) = << >>
      BY <2>4 DEF SessionFilesInv, ShapeInv
    <3> QED BY <2>2, <3>1
  <2>5. SessionFilesInv'
    BY <2>1, <2>3, <2>4 DEF SessionFilesInv
  <2> QED BY <1>3, <1>4, <2>2, <2>5
<1>5. CASE f = "cycles"
  <2>1. /\ disk'["session"].cycles = Append(disk["session"].cycles, row)
        /\ disk'["session"].transitions = disk["session"].transitions
        /\ row \in CycleRow /\ disk["session"].cycles \in Seq(CycleRow)
    <3>1. disk'["session"]["transitions"] = disk["session"]["transitions"]
      BY <1>2, <1>5, SessionNames
    <3> QED BY <1>2, <1>5, <3>1 DEF SessionFilesInv
  <2>2. ASSUME NEW r
        PROVE  /\ SessionRows(r)' = SessionRows(r)
               /\ SessionCycles(r)' = IF row.run = r
                                      THEN Append(SessionCycles(r), row)
                                      ELSE SessionCycles(r)
    <3>1. SessionRows(r)' = SessionRows(r)
      BY <2>1 DEF SessionRows
    <3>2. SessionCycles(r)' = Of(Append(disk["session"].cycles, row), r)
      BY <2>1 DEF SessionCycles
    <3> DEFINE old == disk["session"].cycles
    <3>3. Of(Append(old, row), r) =
             IF row.run = r THEN Append(Of(old, r), row) ELSE Of(old, r)
      <4>1. row \in CycleRow /\ old \in Seq(CycleRow)
        BY <2>1
      <4> HIDE DEF old
      <4> QED BY <4>1, OfGrows, SMT
    <3> QED BY <3>1, <3>2, <3>3 DEF SessionCycles
  <2>3. disk'["session"].cycles \in Seq(CycleRow)
    BY <2>1, AppendProperties
  <2>4. ASSUME NEW r \in Nat, r > runs'
        PROVE  SessionRows(r)' = << >> /\ SessionCycles(r)' = << >>
    <3>1. r # runs /\ SessionRows(r) = << >> /\ SessionCycles(r) = << >>
      BY <2>4 DEF SessionFilesInv, ShapeInv
    <3> QED BY <2>2, <3>1
  <2>5. SessionFilesInv'
    BY <2>1, <2>3, <2>4 DEF SessionFilesInv
  <2> QED BY <1>3, <1>5, <2>2, <2>5
<1> QED BY <1>4, <1>5

\* The fills of a bar are fills.
LEMMA FillsTyped ==
    ASSUME NEW b, NEW start, NEW o, Trades(b, start, o)
    PROVE  o.fills \in Seq(Fill)
<1>1. << >> \in Seq(Fill) /\ \A f \in Fill : <<f>> \in Seq(Fill)
  BY EmptySeq
<1> QED BY <1>1 DEF Trades

\* A bar keeps the averages exact, and costs the fees of what it bought.
LEMMA BarKeepsExact ==
    ASSUME NEW scale, ExactAverages(scale), NEW b \in Bars, NEW start \in Book,
           NEW k \in 1 .. MaxCycles, Even(scale, k - 1, start),
           NEW o, Trades(b, start, o), o.end \in Book
    PROVE  /\ Worth(o.end) = Worth(start) - BuyFees(o.fills)
           /\ Even(scale, k, o.end)
<1> DEFINE base == IF k = 1 THEN scale[1] ELSE scale[k - 1]
           small == scale[k]
<1>1. /\ start.qty \in Nat /\ start.avg \in Nat /\ start.cash \in Nat
      /\ start.realized \in Int /\ o.end.qty \in Nat /\ o.end.avg \in Nat
  BY DEF Book
<1>2. base \in Nat \ {0} /\ small \in Nat \ {0}
  BY DEF ExactAverages
<1>3. start.qty # 0 => /\ k \in 2 .. MaxCycles /\ start.qty <= 2 * (k - 1)
  BY <1>1 DEF Even
<1>4. Divides(small, base)
  <2>1. CASE k = 1
    <3>1. 1 * small = small
      BY <1>2
    <3>2. Divides(small, 1 * small)
      BY <1>2, Multiples
    <3> QED BY <2>1, <3>1, <3>2
  <2>2. CASE k # 1
    <3>1. k \in 2 .. MaxCycles /\ 1 \in 1 .. 2 * k /\ base = scale[k - 1]
      BY <2>2
    <3>2. Divides(1 * scale[k], scale[k - 1])
      BY <3>1 DEF ExactAverages
    <3>3. 1 * scale[k] = scale[k]
      BY <1>2
    <3> QED BY <3>1, <3>2, <3>3
  <2> QED BY <2>1, <2>2
<1>5. Divides(base, b.price) /\ b.price \in Nat
  <2>1. b \in BarType
    BY BarsTyped
  <2>2. k = 1 \/ k - 1 \in 1 .. MaxCycles
    OBVIOUS
  <2>3. 1 \in 1 .. MaxCycles
    OBVIOUS
  <2>4. Divides(scale[1], b.price)
    BY <2>3 DEF ExactAverages
  <2>5. k # 1 => Divides(scale[k - 1], b.price)
    BY <2>2 DEF ExactAverages
  <2> QED BY <2>1, <2>4, <2>5 DEF BarType
<1>6. Divides(base, start.avg)
  <2>1. 0 * base = 0
    BY <1>2
  <2>2. Divides(base, 0)
    <3> HIDE DEF base
    <3>1. 0 \in Nat
      OBVIOUS
    <3>2. Divides(base, 0 * base)
      BY <1>2, <3>1, Multiples
    <3> QED BY <2>1, <3>2
  <2>3. start.avg = 0 \/ (k # 1 /\ Divides(scale[k - 1], start.avg))
    BY DEF Even
  <2> QED BY <2>2, <2>3
<1>7. CASE o.fills = << >> /\ SameMoney(start, o.end)
  <2>1. Divides(small, start.avg)
    BY <1>1, <1>2, <1>4, <1>6, MultipleOfMultiple
  <2>2. o.end.qty = start.qty /\ o.end.avg = start.avg
    BY <1>7 DEF SameMoney
  <2>3. start.qty <= 2 * k
    BY <1>1 DEF Even
  <2>4. Even(scale, k, o.end)
    BY <2>1, <2>2, <2>3 DEF Even
  <2>5. Worth(o.end) = Worth(start) /\ BuyFees(o.fills) = 0
    BY <1>7, BuyFeesOf DEF Worth, SameMoney
  <2>6. Worth(start) \in Int
    <3>1. start.qty * start.avg \in Nat
      BY <1>1, Products
    <3> QED BY <1>1, <3>1 DEF Worth
  <2> QED BY <2>4, <2>5, <2>6
<1>8. ASSUME NEW f \in Fill, o.fills = <<f>>, f.quantity \in 1 .. 2,
             f.price = b.price, SameMoney(ApplyFill(start, f), o.end)
      PROVE  /\ Worth(o.end) = Worth(start) - BuyFees(o.fills)
             /\ Even(scale, k, o.end)
  <2> DEFINE after == ApplyFill(start, f)
  <2>1. Exact(base, small, start, f)
    <3>1. start.qty # 0 => Divides((start.qty + f.quantity) * small, base)
      <4> SUFFICES ASSUME start.qty # 0
                   PROVE  Divides((start.qty + f.quantity) * small, base)
        OBVIOUS
      <4>1. k \in 2 .. MaxCycles /\ start.qty + f.quantity \in 1 .. 2 * k
        BY <1>1, <1>3, <1>8
      <4>2. base = scale[k - 1]
        BY <4>1
      <4> HIDE DEF base
      <4> QED BY <4>1, <4>2 DEF ExactAverages
    <3> HIDE DEF base, small
    <3> QED BY <1>4, <1>5, <1>6, <1>8, <3>1 DEF Exact
  <2> HIDE DEF base, small
  <2>2. /\ Worth(after) = Worth(start) - BuyFee(f)
        /\ after.qty <= start.qty + 2 /\ Divides(small, after.avg)
    BY <1>2, <1>8, <2>1, TradeKeepsWorth
  <2>3. Worth(o.end) = Worth(after) /\ o.end.qty = after.qty
        /\ o.end.avg = after.avg
    BY <1>8 DEF SameMoney, Worth
  <2> HIDE DEF after
  <2>4. BuyFees(o.fills) = BuyFee(f)
    BY <1>8, BuyFeesOf
  <2>6. o.end.qty <= 2 * k
    <3>1. start.qty <= 2 * (k - 1)
      BY <1>1 DEF Even
    <3> QED BY <1>1, <2>2, <2>3, <3>1
  <2>7. Even(scale, k, o.end)
    BY <2>2, <2>3, <2>6 DEF Even, small
  <2> QED BY <2>2, <2>3, <2>4, <2>7
<1> QED BY <1>7, <1>8 DEF Trades

-----------------------------------------------------------------------------
(* What a step does to the summaries on file.                              *)

\* The summaries follow from files that nobody touched.
LEMMA SessionsLeftAlone ==
    ASSUME SessionFilesInv, SummariesInv, SameSessions,
           runs \in Nat, runs' \in Nat, runs <= runs',
           task'.kind = "session" =>
              (task.kind = "session" /\ runs' = runs) \/ runs < runs'
    PROVE  SessionFilesInv' /\ SummariesInv'
<1>1. SessionFilesInv'
  BY SameRows DEF SessionFilesInv, SameSessions
<1>2. SummariesInv'
  BY DEF SummariesInv, SameSessions
<1> QED BY <1>1, <1>2

\* The summaries of sessions that are over follow from the rows of their runs,
\* whatever the session that runs appends.
LEMMA SummariesStay ==
    ASSUME SummariesInv, task.kind = "session", task' = task,
           runs \in Nat, runs' = runs,
           disk'["session"].sessions = disk["session"].sessions,
           \A r \in Nat : r # runs => /\ SessionRows(r)' = SessionRows(r)
                                      /\ SessionCycles(r)' = SessionCycles(r)
    PROVE  SummariesInv'
<1>1. ASSUME NEW i \in DOMAIN disk'["session"].sessions
      PROVE  LET s == disk'["session"].sessions[i]
             IN  /\ s.run \in 0 .. runs' /\ s.run # runs'
                 /\ Follow(s, disk'["session"].transitions,
                           disk'["session"].cycles)
  <2>1. PICK s : s = disk["session"].sessions[i]
    OBVIOUS
  <2>2. i \in DOMAIN disk["session"].sessions
        /\ disk'["session"].sessions[i] = s
    BY <1>1, <2>1
  <2>3. /\ s.run \in 0 .. runs /\ s.run # runs
        /\ Follow(s, disk["session"].transitions, disk["session"].cycles)
    BY <2>1, <2>2 DEF SummariesInv
  <2>4. /\ SessionRows(s.run)' = SessionRows(s.run)
        /\ SessionCycles(s.run)' = SessionCycles(s.run)
    BY <2>3
  <2>5. Follow(s, disk'["session"].transitions, disk'["session"].cycles)
    BY <2>3, <2>4 DEF Follow, SessionRows, SessionCycles
  <2> QED BY <2>2, <2>3, <2>5
<1> QED BY <1>1 DEF SummariesInv

-----------------------------------------------------------------------------
(* What a step does to the session that runs.                              *)

\* What is known of the files of the sessions and of the one that runs.
SessionsInv ==
    /\ SessionFilesInv /\ SummariesInv /\ SessionInv /\ ExactInv

\* A session that is killed leaves its rows, and no summary of them.
LEMMA SessionStops ==
    ASSUME ShapeInv, SessionFilesInv, SummariesInv, SameSessions,
           runs' = runs, task'.kind # "session"
    PROVE  SessionsInv'
<1>1. SessionFilesInv' /\ SummariesInv'
  BY SessionsLeftAlone DEF ShapeInv
<1> QED BY <1>1 DEF SessionsInv, SessionInv, ExactInv

\* A session starts without a row, whatever is on file.
LEMMA SessionStarts ==
    ASSUME ShapeInv, SessionFilesInv, SummariesInv, StartSession,
           taken \in Nat
    PROVE  SessionsInv'
<1>1. /\ runs \in Nat /\ runs' = runs + 1 /\ books' = Initial
      /\ step' = "input" /\ UNCHANGED <<taken, disk>>
      /\ task'.mode = "paper" /\ task'.done = 0 /\ task'.acted = 0
  BY Zenon DEF StartSession, Start, NoTask, ShapeInv
<1>2. SameSessions
  BY <1>1 DEF SameSessions
<1>3. SessionFilesInv' /\ SummariesInv'
  BY <1>1, <1>2, SessionsLeftAlone
<1>4. PICK r : r = runs + 1
  OBVIOUS
<1>5. SessionRows(r)' = << >> /\ SessionCycles(r)' = << >>
  <2>1. r \in Nat /\ r > runs
    BY <1>1, <1>4
  <2> QED BY <1>2, <2>1, SameRows DEF SessionFilesInv
<1>6. SessionInv'
  <2>1. runs' = r
    BY <1>1, <1>4
  <2>2. /\ Told(SessionRows(runs)', Initial, 0, 0)
        /\ Ids(SessionRows(runs)') = Ids(SessionCycles(runs)')
    BY <1>5, <2>1, ToldNothing DEF SessionRows, SessionCycles
  <2> QED BY <1>1, <2>2 DEF SessionInv, SessionRows, SessionCycles
<1>7. ExactInv'
  <2>1. Even(Scale, taken', books')
    BY <1>1 DEF Even, Initial
  <2> QED BY <1>1, <2>1 DEF ExactInv, InCycle
<1> QED BY <1>3, <1>6, <1>7 DEF SessionsInv

\* A bar is accounted for before anything is written of it.
LEMMA SessionTakesBar ==
    ASSUME ShapeInv, BooksInv, BoundsInv,
           SessionsInv, task.kind = "session",
           NEW b \in Bars, TakeBar(b)
    PROVE  SessionsInv'
<1>1. /\ step = "input" /\ taken' = taken + 1 /\ taken < MaxCycles
      /\ Run(b, books) /\ UNCHANGED <<runs, task, books, disk>>
      /\ task.mode = "paper" /\ runs \in Nat /\ task.done \in Nat
      /\ task.acted \in Nat /\ taken \in Nat
  BY DEF TakeBar, SessionsInv, SessionInv, ShapeInv, TaskShape, BoundsInv
<1>2. /\ out' = PaperOutcome(b, books)
      /\ step' = IF b.valid THEN "cycle" ELSE "returned"
  BY <1>1 DEF Run, Reports
<1>3. b \in BarType /\ books \in Book
  BY BarsTyped DEF BooksInv
<1>4. out'.start = books /\ out'.end \in Book
  BY <1>1, <1>3, RunBooks
<1>5. Trades(b, books, out') /\ (~ b.valid => out' = Refused(books))
  BY <1>2, <1>3, PaperTrades
<1>6. SameSessions
  BY <1>1 DEF SameSessions
<1>7. SessionFilesInv' /\ SummariesInv'
  BY <1>1, <1>6, SessionsLeftAlone DEF SessionsInv
<1>8. PICK o : o = out'
  OBVIOUS
<1>9. ASSUME Exactly
      PROVE  /\ Worth(o.end) = Worth(books) - BuyFees(o.fills)
             /\ Even(Scale, taken + 1, o.end)
  <2>1. taken + 1 \in 1 .. MaxCycles /\ (taken + 1) - 1 = taken
    BY <1>1
  <2>2. Even(Scale, (taken + 1) - 1, books)
    BY <1>1, <1>9, <2>1 DEF SessionsInv, ExactInv
  <2>3. ExactAverages(Scale)
    BY <1>9 DEF Exactly
  <2> QED BY <1>3, <1>4, <1>5, <1>8, <2>1, <2>2, <2>3, BarKeepsExact
<1>10. ExactInv'
  BY <1>1, <1>2, <1>8, <1>9 DEF ExactInv
<1>11. Accounts'
  BY <1>1, <1>4, <1>5, <1>8, <1>9, FillsTyped DEF Accounts
<1>12. /\ SessionRows(runs)' = SessionRows(runs)
       /\ SessionCycles(runs)' = SessionCycles(runs)
  BY <1>1 DEF SessionRows, SessionCycles
<1>13. /\ Told(SessionRows(runs), books, task.acted, task.done)
       /\ Ids(SessionRows(runs)) = Ids(SessionCycles(runs))
  BY <1>1 DEF SessionsInv, SessionInv
<1>14. step' = "returned" =>
          Told(SessionRows(runs), out'.end, task.acted + Acts(out'.fills),
               task.done + 1)
  <2> SUFFICES ASSUME step' = "returned"
               PROVE  Told(SessionRows(runs), out'.end,
                           task.acted + Acts(out'.fills), task.done + 1)
    OBVIOUS
  <2>1. out'.end = books /\ out'.fills = << >>
    BY <1>2, <1>5 DEF Refused
  <2>2. task.acted + Acts(out'.fills) = task.acted
    BY <1>1, <2>1 DEF Acts
  <2>3. Len(SessionRows(runs)) <= task.done + 1
    <3>1. SessionRows(runs) \in Seq(Transition)
      BY OfNothingElse DEF SessionRows, SessionsInv, SessionFilesInv
    <3>2. Len(SessionRows(runs)) \in Nat
      BY <3>1, LenProperties
    <3> QED BY <1>1, <1>13, <3>2 DEF Told
  <2> QED BY <1>13, <2>1, <2>2, <2>3 DEF Told
<1>15. SessionInv'
  BY <1>1, <1>2, <1>11, <1>12, <1>13, <1>14 DEF SessionInv
<1> QED BY <1>7, <1>10, <1>15 DEF SessionsInv

\* The cycle row runs ahead of the transition.
LEMMA SessionPersistsCycle ==
    ASSUME ShapeInv, SessionsInv, task.kind = "session",
           PersistCycle
    PROVE  SessionsInv'
<1>1. /\ step = "cycle" /\ step' = "status" /\ Append1("cycles", Row)
      /\ UNCHANGED <<runs, taken, task, books, out>> /\ Row.run = runs
      /\ Row.cycle = task.done + 1 /\ Row \in CycleRow /\ runs \in Nat
  BY DEF PersistCycle, Row, CycleRow, ShapeInv, TaskShape
<1>2. PICK row : row = Row
  OBVIOUS
<1>3. /\ SessionFilesInv'
      /\ disk'["session"].sessions = disk["session"].sessions
      /\ \A r \in Nat : r # runs => /\ SessionRows(r)' = SessionRows(r)
                                    /\ SessionCycles(r)' = SessionCycles(r)
      /\ \A r : r = runs =>
            /\ SessionRows(r)' = SessionRows(r)
            /\ SessionCycles(r)' = Append(SessionCycles(r), row)
  BY <1>1, <1>2, SessionRowCame DEF SessionsInv
<1>4. SummariesInv'
  BY <1>1, <1>3, SummariesStay DEF SessionsInv
<1>5. PICK r : r = runs
  OBVIOUS
<1>6. /\ SessionRows(runs)' = SessionRows(runs)
      /\ SessionCycles(runs)' = Append(SessionCycles(runs), row)
  <2>1. /\ SessionRows(r)' = SessionRows(r)
        /\ SessionCycles(r)' = Append(SessionCycles(r), row)
    BY <1>3, <1>5
  <2> QED BY <1>1, <1>5, <2>1 DEF SessionRows, SessionCycles
<1>7. Ids(SessionCycles(runs)') = Append(Ids(SessionRows(runs)), task.done + 1)
  <2>1. SessionCycles(runs) \in Seq(CycleRow)
    BY OfNothingElse DEF SessionCycles, SessionsInv, SessionFilesInv
  <2>2. row \in CycleRow /\ row.cycle = task.done + 1
    BY <1>1, <1>2
  <2>3. Ids(SessionCycles(runs)) = Ids(SessionRows(runs))
    BY <1>1 DEF SessionsInv, SessionInv
  <2>4. Ids(Append(SessionCycles(runs), row)) =
           Append(Ids(SessionCycles(runs)), row.cycle)
    <3> DEFINE old == SessionCycles(runs)
    <3>1. old \in Seq(CycleRow)
      BY <2>1
    <3> HIDE DEF old
    <3>2. Ids(Append(old, row)) = Append(Ids(old), row.cycle)
      BY <2>2, <3>1, IdsGrow, SMT
    <3> QED BY <3>2 DEF old
  <2> QED BY <1>6, <2>2, <2>3, <2>4
<1>8. SessionInv'
  <2>1. /\ task.mode = "paper" /\ Accounts
        /\ Told(SessionRows(runs), books, task.acted, task.done)
    BY <1>1 DEF SessionsInv, SessionInv
  <2>2. Accounts'
    BY <1>1, <2>1 DEF Accounts
  <2> QED BY <1>1, <1>6, <1>7, <2>1, <2>2 DEF SessionInv
<1>9. ExactInv'
  BY <1>1 DEF SessionsInv, ExactInv, InCycle
<1> QED BY <1>3, <1>4, <1>8, <1>9 DEF SessionsInv

\* The transition catches up with the cycle row, and leads to the new books.
LEMMA SessionPersistsTransition ==
    ASSUME ShapeInv, BooksInv, SessionsInv,
           task.kind = "session", PersistTransition
    PROVE  SessionsInv'
<1>1. PICK row : row = [run   |-> runs, cycle |-> task.done + 1,
                        start |-> out.start, end |-> out.end,
                        fills |-> out.fills]
  OBVIOUS
<1>2. /\ step = "transition" /\ step' = "returned"
      /\ Append1("transitions", row)
      /\ UNCHANGED <<runs, taken, task, books, out>>
      /\ runs \in Nat /\ task.done \in Nat /\ task.acted \in Nat
  BY <1>1 DEF PersistTransition, ShapeInv, TaskShape
<1>3. /\ Accounts /\ task.mode = "paper"
      /\ Told(SessionRows(runs), books, task.acted, task.done)
      /\ Ids(SessionCycles(runs)) =
            Append(Ids(SessionRows(runs)), task.done + 1)
  BY <1>2 DEF SessionsInv, SessionInv
<1>4. /\ row.run = runs /\ row.cycle = task.done + 1 /\ row.start = books
      /\ row.end = out.end /\ row.fills = out.fills /\ row \in Transition
  BY <1>1, <1>2, <1>3 DEF Accounts, Transition, BooksInv
<1>5. Follows(row, books) /\ books \in Book
  BY <1>3, <1>4 DEF Follows, Accounts, BooksInv
<1>6. /\ SessionFilesInv'
      /\ disk'["session"].sessions = disk["session"].sessions
      /\ \A r \in Nat : r # runs => /\ SessionRows(r)' = SessionRows(r)
                                    /\ SessionCycles(r)' = SessionCycles(r)
      /\ \A r : r = runs =>
            /\ SessionRows(r)' = Append(SessionRows(r), row)
            /\ SessionCycles(r)' = SessionCycles(r)
  BY <1>2, <1>4, SessionRowCame DEF SessionsInv
<1>7. SummariesInv'
  BY <1>2, <1>6, SummariesStay DEF SessionsInv
<1>8. PICK r : r = runs
  OBVIOUS
<1>9. PICK old : old = SessionRows(runs)
  OBVIOUS
<1>10. SessionRows(runs)' = Append(old, row)
       /\ SessionCycles(runs)' = SessionCycles(runs)
  <2>1. /\ SessionRows(r)' = Append(SessionRows(r), row)
        /\ SessionCycles(r)' = SessionCycles(r)
    BY <1>6, <1>8
  <2> QED BY <1>2, <1>8, <1>9, <2>1 DEF SessionRows, SessionCycles
<1>11. old \in Seq(Transition)
  BY <1>9, OfNothingElse DEF SessionRows, SessionsInv, SessionFilesInv
<1>12. Told(Append(old, row), out.end, task.acted + Acts(out.fills),
            task.done + 1)
  <2>1. Told(old, books, task.acted, task.done)
    BY <1>3, <1>9
  <2>2. Told(Append(old, row), row.end, task.acted + Acts(row.fills),
             task.done + 1)
    BY <1>2, <1>5, <1>11, <2>1, ToldGrows
  <2> QED BY <1>4, <2>2
<1>13. Ids(Append(old, row)) = Ids(SessionCycles(runs))
  <2>1. Ids(Append(old, row)) = Append(Ids(old), row.cycle)
    BY <1>4, <1>11, IdsGrow, SMT
  <2> QED BY <1>3, <1>4, <1>9, <2>1
<1>14. SessionInv'
  BY <1>2, <1>3, <1>10, <1>12, <1>13 DEF SessionInv
<1>15. ExactInv'
  BY <1>2 DEF SessionsInv, ExactInv, InCycle
<1> QED BY <1>6, <1>7, <1>14, <1>15 DEF SessionsInv

\* The status files say nothing of the books.
LEMMA SessionPersistsStatus ==
    ASSUME ShapeInv, SessionsInv, task.kind = "session",
           PersistSummary \/ PersistHealth
    PROVE  SessionsInv'
<1>1. /\ UNCHANGED <<runs, taken, task, books, out>> /\ runs \in Nat
      /\ step \in {"status", "health"} /\ step' \in {"health", "transition"}
      /\ DiskShape /\ Dir = "session"
  <2>1. task.mode = "paper"
    BY DEF SessionsInv, SessionInv
  <2> QED BY <2>1, SessionDir DEF PersistSummary, PersistHealth, ShapeInv
<1>2. SameSessions
  <2>1. /\ disk'["session"]["transitions"] = disk["session"]["transitions"]
        /\ disk'["session"]["cycles"] = disk["session"]["cycles"]
        /\ disk'["session"]["sessions"] = disk["session"]["sessions"]
    <3>1. CASE PersistSummary
      <4>1. /\ Append1("statuses", Row) /\ "statuses" \in RowFiles
            /\ "statuses" \notin {"transitions", "cycles", "sessions"}
        BY <3>1 DEF PersistSummary, RowFiles
      <4>2. \A g \in FileNames : g # "statuses" =>
               disk'["session"][g] = disk["session"][g]
        BY <1>1, <4>1, AppendedFile, SessionNames
      <4> QED BY <4>1, <4>2, SessionNames
    <3>2. CASE PersistHealth
      <4>1. /\ Written("session", "health", Row) /\ "health" \in FileNames
            /\ "health" \notin RowFiles
        BY <1>1, <3>2 DEF PersistHealth, Written, FileNames, RowFiles
      <4>2. \A g \in FileNames : g # "health" =>
               disk'["session"][g] = disk["session"][g]
        BY <1>1, <4>1, WrittenFile, SessionNames
      <4> QED BY <4>1, <4>2, SessionNames
    <3> QED BY <3>1, <3>2
  <2> QED BY <2>1 DEF SameSessions
<1>3. SessionFilesInv' /\ SummariesInv'
  BY <1>1, <1>2, SessionsLeftAlone DEF SessionsInv
<1>4. /\ SessionRows(runs)' = SessionRows(runs)
      /\ SessionCycles(runs)' = SessionCycles(runs)
  BY <1>1, <1>2 DEF SameSessions, SessionRows, SessionCycles
<1>5. SessionInv'
  <2>1. /\ task.mode = "paper" /\ Accounts
        /\ Told(SessionRows(runs), books, task.acted, task.done)
        /\ Ids(SessionCycles(runs)) =
              Append(Ids(SessionRows(runs)), task.done + 1)
    BY <1>1 DEF SessionsInv, SessionInv
  <2>2. Accounts'
    BY <1>1, <2>1 DEF Accounts
  <2> QED BY <1>1, <1>4, <2>1, <2>2 DEF SessionInv
<1>6. ExactInv'
  BY <1>1 DEF SessionsInv, ExactInv, InCycle
<1> QED BY <1>3, <1>5, <1>6 DEF SessionsInv

\* The next cycle starts from the books that the transitions lead to.
LEMMA SessionCarries ==
    ASSUME ShapeInv, SessionsInv, task.kind = "session",
           CarryPortfolio
    PROVE  SessionsInv'
<1>1. /\ step = "returned" /\ step' = "input" /\ books' = out.end
      /\ UNCHANGED <<runs, taken, disk>> /\ runs \in Nat
      /\ task'.kind = "session" /\ task'.mode = task.mode
      /\ task'.done = task.done + 1
      /\ task'.acted = task.acted + Acts(out.fills)
  BY DEF CarryPortfolio, Carry, ShapeInv, TaskShape, Acts
<1>2. SameSessions
  BY <1>1 DEF SameSessions
<1>3. SessionFilesInv' /\ SummariesInv'
  BY <1>1, <1>2, SessionsLeftAlone DEF SessionsInv
<1>4. /\ SessionRows(runs)' = SessionRows(runs)
      /\ SessionCycles(runs)' = SessionCycles(runs)
  BY <1>1 DEF SessionRows, SessionCycles
<1>5. SessionInv'
  <2>1. /\ task.mode = "paper"
        /\ Told(SessionRows(runs), out.end, task.acted + Acts(out.fills),
                task.done + 1)
        /\ Ids(SessionRows(runs)) = Ids(SessionCycles(runs))
    BY <1>1 DEF SessionsInv, SessionInv
  <2> QED BY <1>1, <1>4, <2>1 DEF SessionInv
<1>6. ExactInv'
  BY <1>1 DEF SessionsInv, ExactInv, InCycle
<1> QED BY <1>3, <1>5, <1>6 DEF SessionsInv

\* The summary that ends a session follows from what it left.
LEMMA SessionSums ==
    ASSUME ShapeInv, SessionsInv, PersistSessionSummary
    PROVE  SessionsInv'
<1>1. PICK row : row = [run |-> runs, total |-> task.done,
                        acted |-> task.acted, final |-> books]
  OBVIOUS
<1>2. /\ step = "input" /\ task.kind = "session" /\ Append1("sessions", row)
      /\ UNCHANGED <<runs, taken>> /\ runs \in Nat /\ Dir = "session"
      /\ task'.kind = "none" /\ DiskShape /\ "sessions" \in RowFiles
  BY <1>1, SessionDir, SessionNames
  DEF PersistSessionSummary, Stopped, NoTask, ShapeInv
<1>3. /\ disk'["session"]["sessions"] = Append(disk["session"]["sessions"], row)
      /\ disk'["session"]["transitions"] = disk["session"]["transitions"]
      /\ disk'["session"]["cycles"] = disk["session"]["cycles"]
  <2>1. /\ disk'["session"]["sessions"] =
              Append(disk["session"]["sessions"], row)
        /\ \A g \in FileNames : g # "sessions" =>
              disk'["session"][g] = disk["session"][g]
    BY <1>2, AppendedFile, SessionNames
  <2> QED BY <2>1, SessionNames
<1>4. SessionFilesInv'
  BY <1>2, <1>3 DEF SessionsInv, SessionFilesInv, SessionRows, SessionCycles
<1>5. Follow(row, disk["session"].transitions, disk["session"].cycles)
  <2>1. /\ Told(SessionRows(runs), books, task.acted, task.done)
        /\ Ids(SessionRows(runs)) = Ids(SessionCycles(runs))
    BY <1>2 DEF SessionsInv, SessionInv
  <2> QED BY <1>1, <2>1 DEF Follow, SessionRows, SessionCycles
<1>6. SummariesInv'
  <2>1. ASSUME NEW i \in DOMAIN disk'["session"].sessions
        PROVE  LET s == disk'["session"].sessions[i]
               IN  /\ s.run \in 0 .. runs'
                   /\ Follow(s, disk'["session"].transitions,
                             disk'["session"].cycles)
    <3>1. IsFile(disk["session"]["sessions"])
      BY <1>2, SessionNames DEF DiskShape
    <3>2. \/ /\ i \in DOMAIN disk["session"].sessions
             /\ disk'["session"].sessions[i] = disk["session"].sessions[i]
          \/ disk'["session"].sessions[i] = row
      BY <1>3, <2>1, <3>1, AppendedRow
    <3>3. row.run \in 0 .. runs
      BY <1>1, <1>2
    <3>4. CASE disk'["session"].sessions[i] = row
      BY <1>2, <1>3, <1>5, <3>3, <3>4
    <3>5. CASE /\ i \in DOMAIN disk["session"].sessions
               /\ disk'["session"].sessions[i] = disk["session"].sessions[i]
      BY <1>2, <1>3, <3>5 DEF SessionsInv, SummariesInv
    <3> QED BY <3>2, <3>4, <3>5
  <2> QED BY <1>2, <2>1 DEF SummariesInv
<1> QED
  BY <1>2, <1>4, <1>6 DEF SessionsInv, SessionInv, ExactInv

\* Nothing happens.
LEMMA SessionStutters ==
    ASSUME SessionsInv, UNCHANGED vars
    PROVE  SessionsInv'
BY DEF SessionsInv, SessionFilesInv, SummariesInv, SessionInv, ExactInv,
       SessionRows, SessionCycles, Accounts, InCycle, vars

\* The invariant of the sessions, step by step.
LEMMA SessionsStep ==
    ASSUME ShapeInv, BooksInv, BoundsInv,
           SessionsInv, [Next]_vars
    PROVE  SessionsInv'
<1>1. CASE UNCHANGED vars
  BY <1>1, SessionStutters
<1>2. CASE task.kind # "session" /\ ~ UNCHANGED vars
  <2>1. SameSessions
    BY <1>2, OthersLeaveSessions
  <2>2. CASE StartSession
    BY <2>2, SessionStarts DEF SessionsInv, BoundsInv
  <2>3. CASE ~ StartSession
    <3>1. task'.kind # "session"
      <4>1. CASE StartReplay \/ \E s \in Settings : StartDryRun(s)
        BY Zenon, <4>1 DEF StartReplay, StartDryRun, Start, NoTask
      <4>2. CASE Stopped
        BY <4>2 DEF Stopped, NoTask
      <4>3. CASE Carry
        BY <1>2, <4>3 DEF Carry, ShapeInv, TaskShape
      <4>4. CASE ReplayPaper
        BY <1>2, <4>4 DEF ReplayPaper, ShapeInv, TaskShape
      <4>5. CASE LaunchRaises \/ LaunchEnds \/ \E b \in Bars : RunnerRaises(b)
        <5>1. \/ Stopped
              \/ \E l : task' = [task EXCEPT !.launch = l]
          BY <4>5 DEF LaunchRaises, LaunchEnds, RunnerRaises
        <5> QED BY <1>2, <4>2, <5>1 DEF ShapeInv, TaskShape
      <4>6. CASE task' = task
        BY <1>2, <4>6
      <4>7. \/ StartReplay \/ (\E s \in Settings : StartDryRun(s))
            \/ Stopped \/ Carry \/ ReplayPaper \/ task' = task
            \/ LaunchRaises \/ LaunchEnds \/ \E b \in Bars : RunnerRaises(b)
        BY <1>2, <2>3 DEF Next, TakeBar, PersistCycle, PersistSummary,
           PersistHealth, PersistTransition, CarryPortfolio,
           PersistSessionSummary, PersistParity, EndReplay, WriteVerdict, Killed
      <4> QED BY <4>1, <4>2, <4>3, <4>4, <4>5, <4>6, <4>7
    <3>2. runs \in Nat /\ runs' \in Nat /\ runs <= runs'
      BY RunsGrow DEF ShapeInv
    <3>3. SessionFilesInv' /\ SummariesInv'
      BY <2>1, <3>1, <3>2, SessionsLeftAlone DEF SessionsInv
    <3> QED BY <3>1, <3>3 DEF SessionsInv, SessionInv, ExactInv
  <2> QED BY <2>2, <2>3
<1>3. CASE task.kind = "session" /\ ~ UNCHANGED vars
  <2>1. CASE \E b \in Bars : TakeBar(b)
    BY <1>3, <2>1, SessionTakesBar
  <2>2. CASE PersistCycle
    BY <1>3, <2>2, SessionPersistsCycle
  <2>3. CASE PersistSummary \/ PersistHealth
    BY <1>3, <2>3, SessionPersistsStatus
  <2>4. CASE PersistTransition
    BY <1>3, <2>4, SessionPersistsTransition
  <2>5. CASE CarryPortfolio
    BY <1>3, <2>5, SessionCarries
  <2>6. CASE PersistSessionSummary
    BY <2>6, SessionSums
  <2>7. CASE (\E b \in Bars : RunnerRaises(b)) \/ Killed
    <3>1. Stopped /\ runs' = runs /\ disk' = disk
      BY <1>3, <2>7 DEF RunnerRaises, Killed
    <3>2. task'.kind # "session" /\ SameSessions
      BY <3>1 DEF Stopped, NoTask, SameSessions
    <3> QED BY <3>1, <3>2, SessionStops DEF SessionsInv
  <2>8. ~ (StartSession \/ StartReplay \/ \E s \in Settings : StartDryRun(s))
    BY Zenon, <1>3 DEF StartSession, StartReplay, StartDryRun, Start
  <2>9. ~ (ReplayPaper \/ PersistParity \/ EndReplay \/ LaunchRaises
             \/ LaunchEnds \/ WriteVerdict)
    BY <1>3 DEF ReplayPaper, PersistParity, EndReplay, LaunchRaises,
                LaunchEnds, WriteVerdict, ShapeInv
  <2> QED
    BY <1>3, <2>1, <2>2, <2>3, <2>4, <2>5, <2>6, <2>7, <2>8, <2>9 DEF Next
<1> QED BY <1>1, <1>2, <1>3

\* The invariant of the sessions, before the first process.
LEMMA SessionsInit ==
    ASSUME Init PROVE SessionsInv
<1>1. /\ disk["session"] = Empty /\ runs = 0 /\ task.kind = "none"
  BY DEF Init, Dirs, NoTask
<1>2. /\ disk["session"].transitions = << >> /\ disk["session"].cycles = << >>
      /\ disk["session"].sessions = << >>
  BY <1>1 DEF Empty
<1>3. SessionFilesInv
  <2>1. << >> \in Seq(Transition) /\ << >> \in Seq(CycleRow)
    BY EmptySeq
  <2>2. \A r : SessionRows(r) = << >> /\ SessionCycles(r) = << >>
    BY <1>2, OfNothing DEF SessionRows, SessionCycles
  <2> QED BY <1>2, <2>1, <2>2 DEF SessionFilesInv
<1>4. SummariesInv
  BY <1>2 DEF SummariesInv
<1> QED BY <1>1, <1>3, <1>4 DEF SessionsInv, SessionInv, ExactInv

\* The inductive invariant.
SessionsIInv == ShapeInv /\ BooksInv /\ BoundsInv /\ SessionsInv

\* The invariant of the sessions is inductive.
LEMMA SessionsInductive ==
    /\ Init => SessionsIInv
    /\ SessionsIInv /\ [Next]_vars => SessionsIInv'
<1>1. Init => SessionsIInv
  BY ShapeInit, TypesInit, SessionsInit DEF SessionsIInv
<1>2. ASSUME SessionsIInv, [Next]_vars PROVE SessionsIInv'
  <2>1. ShapeInv' /\ BooksInv' /\ BoundsInv'
    BY <1>2, ShapeStep, BooksStep, BoundsStep DEF SessionsIInv
  <2>2. SessionsInv'
    BY <1>2, SessionsStep DEF SessionsIInv
  <2> QED BY <2>1, <2>2 DEF SessionsIInv
<1> QED BY <1>1, <1>2

\* What the invariant says of a summary on file.
LEMMA SummaryFollows ==
    ASSUME SessionsIInv, NEW i \in DOMAIN disk["session"].sessions
    PROVE  Follow(disk["session"].sessions[i], disk["session"].transitions,
                  disk["session"].cycles)
BY DEF SessionsIInv, SessionsInv, SummariesInv

\* The summary of a paper session follows from the transitions on file, on any
\* bars and however the sessions before it ended: they chain to the final
\* portfolio, and every cycle the runner did not refuse left its rows.
THEOREM SessionsExplained == Spec => []SessionIsExplained
<1>1. SessionsIInv => SessionIsExplained
  BY SummaryFollows DEF SessionIsExplained, Follow, Told, Acting
<1> QED BY <1>1, SessionsInductive, PTL DEF Spec

\* The books of a session balance, wherever the averages are exact.
THEOREM SessionsBalance ==
    (\E scale : ExactAverages(scale)) => (Spec => []BooksBalance)
<1> SUFFICES ASSUME \E scale : ExactAverages(scale)
             PROVE  Spec => []BooksBalance
  OBVIOUS
<1>1. Exactly
  BY Zenon DEF Exactly, Scale
<1>2. SessionsIInv => BooksBalance
  BY <1>1, SummaryFollows DEF BooksBalance, Follow, Told
<1> QED BY <1>2, SessionsInductive, PTL DEF Spec
=============================================================================
