------------------------------ MODULE CycleProofs ------------------------------
(***************************************************************************)
(* Proofs about what a ranking cycle computes (modules Ranking and         *)
(* GemSentinel) and about when cycles run (module Scheduler).              *)
(*                                                                         *)
(* The first part is about the operators: sorting with a comparison that   *)
(* is a strict total order leaves one list; the comparisons given to       *)
(* sort.Slice are such orders, because the ticker decides last; the first  *)
(* loop leaves, of each ticker, the first of its newest snapshots; better  *)
(* in every factor is scored higher; the scores of a run average the       *)
(* middle.  From these and an inductive invariant of Rank's loops          *)
(* (RankingInv) the properties of the runs follow.  The last part is the   *)
(* arithmetic of slots and an invariant of the scheduler (SchedulerInv).   *)
(*                                                                         *)
(* Induction is stated as a fact about a set of numbers, or of subsets     *)
(* (Induction, SetInduction), because no prover here can instantiate a     *)
(* theorem that takes an operator.                                         *)
(***************************************************************************)
EXTENDS GemSentinel, Scheduler, FiniteSetTheorems, TLAPS

\* Every set of numbers that is not empty has a least element.
LEMMA Least ==
    ASSUME NEW T, T \subseteq Nat, T # {}
    PROVE  \E x \in T : \A y \in T : x <= y
<1> DEFINE R == OpToRel(<, Nat)
<1>1. \E x \in T : \A y \in T : ~ (<<y, x>> \in R)
  <2>1. IsWellFoundedOn(R, Nat)
    BY NatLessThanWellFounded
  <2> HIDE DEF R
  <2> QED
    BY <2>1, WFMin
<1>2. \A a, b \in Nat : a < b => <<a, b>> \in R
  BY DEF OpToRel
<1> HIDE DEF R
<1>3. PICK x \in T : \A y \in T : ~ (<<y, x>> \in R)
  BY <1>1
<1>4. \A y \in T : ~ (y < x) /\ y \in Nat /\ x \in Nat
  BY <1>2, <1>3
<1>5. \A y \in T : x <= y
  BY <1>4
<1> QED
  BY <1>5

\* Induction over the numbers, as a fact about a set of them.
LEMMA Induction ==
    ASSUME NEW P, 0 \in P, \A n \in Nat : n \in P => n + 1 \in P
    PROVE  \A n \in Nat : n \in P
<1> SUFFICES ASSUME Nat \ P # {} PROVE FALSE
  OBVIOUS
<1>1. PICK x \in Nat \ P : \A y \in Nat \ P : x <= y
  <2> DEFINE T == Nat \ P
  <2>1. T \subseteq Nat /\ T # {}
    OBVIOUS
  <2> HIDE DEF T
  <2>2. \E x \in T : \A y \in T : x <= y
    BY <2>1, Least
  <2> QED
    BY <2>2 DEF T
<1>2. x # 0 /\ x - 1 \in Nat /\ ~(x <= x - 1)
  BY <1>1
<1>3. x - 1 \in P
  BY <1>1, <1>2
<1> QED
  BY <1>1, <1>2, <1>3
-----------------------------------------------------------------------------
(***************************************************************************)
(* Sorting.                                                                *)
(***************************************************************************)

\* R is a strict total order on S.
StrictOrder(S, R) ==
    /\ \A x \in S : <<x, x>> \notin R
    /\ \A x, y, z \in S : <<x, y>> \in R /\ <<y, z>> \in R => <<x, z>> \in R
    /\ \A x, y \in S : x # y => <<x, y>> \in R \/ <<y, x>> \in R

Ahead(S, R, x) == {y \in S : <<y, x>> \in R}

LEMMA SortedPlaces ==
    ASSUME NEW S, IsFiniteSet(S), NEW R, StrictOrder(S, R), NEW o \in Sortings(S, R)
    PROVE  /\ Cardinality(S) \in Nat
           /\ o \in [1 .. Cardinality(S) -> S]
           /\ \A x \in S : \E n \in 1 .. Cardinality(S) : o[n] = x
           /\ \A m, n \in 1 .. Cardinality(S) : m < n <=> <<o[m], o[n]>> \in R
           /\ \A n \in 1 .. Cardinality(S) :
                 Ahead(S, R, o[n]) = {o[m] : m \in 1 .. n - 1}
           /\ \A n \in 1 .. Cardinality(S) : Cardinality(Ahead(S, R, o[n])) = n - 1
<1> DEFINE N == Cardinality(S)
           P == 1 .. N
<1>1. N \in Nat
  BY FS_CardinalityType
<1>2. o \in [P -> S] /\ \A m, n \in P : m < n => o[m] # o[n] /\ <<o[n], o[m]>> \notin R
  BY DEF Sortings
<1>3. IsFiniteSet(P) /\ Cardinality(P) = N
  BY <1>1, FS_Interval
<1>4. o \in Injection(P, S)
  <2>1. \A m, n \in P : o[m] = o[n] => m = n
    <3> SUFFICES ASSUME NEW m \in P, NEW n \in P, o[m] = o[n], m # n PROVE FALSE
      OBVIOUS
    <3>1. m < n \/ n < m
      BY <1>1
    <3> QED
      BY <1>2, <3>1
  <2> QED
    BY <1>2, <2>1 DEF Injection, IsInjective
<1>5. o \in Surjection(P, S)
  BY <1>3, <1>4, FS_Injection
<1>6. \A x \in S : \E n \in P : o[n] = x
  BY <1>5 DEF Surjection
<1>7. ASSUME NEW m \in P, NEW n \in P PROVE m < n <=> <<o[m], o[n]>> \in R
  <2>1. CASE m < n
    <3>1. o[m] # o[n] /\ <<o[n], o[m]>> \notin R
      BY <1>2, <2>1
    <3> QED
      BY <1>2, <2>1, <3>1 DEF StrictOrder
  <2>2. CASE m = n
    BY <1>1, <1>2, <2>2 DEF StrictOrder
  <2>3. CASE n < m
    <3>1. <<o[m], o[n]>> \notin R /\ ~(m < n)
      BY <1>1, <1>2, <2>3
    <3> QED
      BY <3>1
  <2> QED
    BY <1>1, <2>1, <2>2, <2>3
<1>8. ASSUME NEW n \in P
      PROVE  /\ Ahead(S, R, o[n]) = {o[m] : m \in 1 .. n - 1}
             /\ Cardinality(Ahead(S, R, o[n])) = n - 1
  <2> DEFINE A == Ahead(S, R, o[n])
             B == 1 .. n - 1
  <2>1. B \subseteq P /\ \A m \in P : m \in B <=> m < n
    BY <1>1
  <2>2. A = {o[m] : m \in B}
    BY <1>2, <1>6, <1>7, <2>1 DEF Ahead
  <2>3. IsFiniteSet(A)
    BY FS_Subset DEF Ahead
  <2>4. IsFiniteSet(B) /\ Cardinality(B) = n - 1
    <3>1. n - 1 \in Int /\ n - 1 >= 0 /\ 1 \in Int
      BY <1>1
    <3>2. IsFiniteSet(B) /\ Cardinality(B) = IF 1 > n - 1 THEN 0 ELSE (n - 1) - 1 + 1
      BY <3>1, FS_Interval, Zenon
    <3> QED
      BY <3>1, <3>2
  <2> DEFINE f == [m \in B |-> o[m]]
  <2>5. f \in Surjection(B, A) /\ f \in Injection(B, A)
    <3>1. \A x, y \in P : o[x] = o[y] => x = y
      BY <1>4 DEF Injection, IsInjective
    <3>2. f \in [B -> A] /\ \A x \in B : f[x] = o[x]
      BY <2>2
    <3>3. \A x \in A : \E m \in B : f[m] = x
      BY <2>2
    <3> HIDE DEF f, A, B
    <3> QED
      BY <2>1, <3>1, <3>2, <3>3, Zenon DEF Surjection, Injection, IsInjective
  <2>6. Cardinality(A) = Cardinality(B)
    <3> HIDE DEF f, A, B
    <3> QED
      BY <2>4, <2>5, FS_Surjection
  <2> QED
    BY <2>2, <2>4, <2>6
<1> QED
  BY <1>1, <1>2, <1>6, <1>7, <1>8

LEMMA SortingsAreOne ==
    ASSUME NEW S, IsFiniteSet(S), NEW R, StrictOrder(S, R)
    PROVE  \E o : Sortings(S, R) = {o}
<1> DEFINE N == Cardinality(S)
           P == 1 .. N
           place == [x \in S |-> Cardinality(Ahead(S, R, x)) + 1]
<1>1. N \in Nat /\ IsFiniteSet(P) /\ Cardinality(P) = N
  BY FS_CardinalityType, FS_Interval
<1>2. \A o, q \in Sortings(S, R) : o = q
  <2> SUFFICES ASSUME NEW o \in Sortings(S, R), NEW q \in Sortings(S, R) PROVE o = q
    OBVIOUS
  <2>1. o \in [P -> S] /\ q \in [P -> S]
    BY SortedPlaces
  <2>2. ASSUME NEW n \in P PROVE o[n] = q[n]
    <3>1. PICK m \in P : q[m] = o[n]
      BY <2>1, SortedPlaces
    <3>2. Cardinality(Ahead(S, R, o[n])) = n - 1 /\ Cardinality(Ahead(S, R, q[m])) = m - 1
      BY SortedPlaces
    <3>3. m = n
      BY <1>1, <3>1, <3>2
    <3> QED
      BY <3>1, <3>3
  <2>3. o = [n \in P |-> o[n]] /\ q = [n \in P |-> q[n]]
    BY <2>1
  <2> QED
    BY <2>2, <2>3, Zenon
<1>3. ASSUME NEW x \in S
      PROVE  /\ IsFiniteSet(Ahead(S, R, x)) /\ x \notin Ahead(S, R, x)
             /\ Ahead(S, R, x) \subseteq S
             /\ place[x] \in P
  <2>1. Ahead(S, R, x) \subseteq S \ {x}
    BY DEF Ahead, StrictOrder
  <2>2. IsFiniteSet(S \ {x}) /\ Cardinality(S \ {x}) = N - 1
    BY FS_RemoveElement
  <2>3. IsFiniteSet(Ahead(S, R, x)) /\ Cardinality(Ahead(S, R, x)) <= N - 1
    BY <2>1, <2>2, FS_Subset
  <2>4. Cardinality(Ahead(S, R, x)) \in Nat
    BY <2>3, FS_CardinalityType
  <2> QED
    BY <1>1, <2>1, <2>3, <2>4
<1>4. ASSUME NEW x \in S, NEW y \in S, <<x, y>> \in R
      PROVE  place[x] < place[y]
  <2>1. Ahead(S, R, x) \subseteq Ahead(S, R, y) /\ x \in Ahead(S, R, y)
    BY <1>4 DEF Ahead, StrictOrder
  <2>2. Ahead(S, R, x) # Ahead(S, R, y)
    BY <1>3, <2>1
  <2>3. /\ Cardinality(Ahead(S, R, x)) <= Cardinality(Ahead(S, R, y))
        /\ Cardinality(Ahead(S, R, x)) # Cardinality(Ahead(S, R, y))
    BY <1>3, <2>1, <2>2, FS_Subset
  <2>4. Cardinality(Ahead(S, R, x)) \in Nat /\ Cardinality(Ahead(S, R, y)) \in Nat
    BY <1>3, FS_CardinalityType
  <2> QED
    BY <2>3, <2>4
<1>5. place \in Injection(S, P)
  <2>1. place \in [S -> P]
    BY <1>3
  <2>2. ASSUME NEW x \in S, NEW y \in S, place[x] = place[y] PROVE x = y
    <3>1. ~(place[x] < place[y]) /\ ~(place[y] < place[x])
      BY <1>1, <2>1, <2>2
    <3> QED
      BY <1>4, <3>1 DEF StrictOrder
  <2> HIDE DEF place, P
  <2> QED
    BY <2>1, <2>2, Zenon DEF Injection, IsInjective
<1>6. place \in Surjection(S, P)
  <2> HIDE DEF place, P
  <2> QED
    BY <1>1, <1>5, FS_Injection
<1> DEFINE o == [n \in P |-> CHOOSE x \in S : place[x] = n]
<1>7. ASSUME NEW n \in P PROVE o[n] \in S /\ place[o[n]] = n
  <2>1. \E x \in S : place[x] = n
    <3> HIDE DEF place, P
    <3> QED
      BY <1>6, Zenon DEF Surjection
  <2> HIDE DEF place
  <2> QED
    BY <2>1
<1>8. o \in Sortings(S, R)
  <2>1. o \in [P -> S]
    BY <1>7
  <2>2. ASSUME NEW m \in P, NEW n \in P, m < n
        PROVE  o[m] # o[n] /\ <<o[n], o[m]>> \notin R
    <3> HIDE DEF o, place
    <3>1. o[m] \in S /\ o[n] \in S /\ place[o[m]] = m /\ place[o[n]] = n
      BY <1>7
    <3>2. ~(place[o[n]] < place[o[m]]) /\ place[o[n]] # place[o[m]]
      BY <1>1, <2>2, <3>1
    <3> QED
      BY <1>4, <3>1, <3>2
  <2> HIDE DEF o
  <2> QED
    BY <2>1, <2>2 DEF Sortings
<1> HIDE DEF o
<1> QED
  BY <1>2, <1>8
-----------------------------------------------------------------------------
(***************************************************************************)
(* Fractions.                                                              *)
(***************************************************************************)
Fractions == Int \X (Nat \ {0})

LEMMA Scaled ==
    ASSUME NEW a \in Int, NEW b \in Int, NEW k \in Nat \ {0}
    PROVE  a < b <=> k * a < k * b
OBVIOUS

\* Less is transitive, also across Same.
LEMMA LessThrough ==
    ASSUME NEW x \in Fractions, NEW y \in Fractions, NEW z \in Fractions
    PROVE  /\ Less(x, y) /\ Less(y, z) => Less(x, z)
           /\ Same(x, y) /\ Less(y, z) => Less(x, z)
           /\ Less(x, y) /\ Same(y, z) => Less(x, z)
           /\ Same(x, y) /\ Same(y, z) => Same(x, z)
<1> DEFINE a == x[1]  b == x[2]
           c == y[1]  d == y[2]
           e == z[1]  g == z[2]
<1>1. /\ a \in Int /\ c \in Int /\ e \in Int
      /\ b \in Nat \ {0} /\ d \in Nat \ {0} /\ g \in Nat \ {0}
  BY DEF Fractions
<1>2. /\ Less(x, y) <=> a * d < c * b
      /\ Less(y, z) <=> c * g < e * d
      /\ Less(x, z) <=> a * g < e * b
      /\ Same(x, y) <=> a * d = c * b
      /\ Same(y, z) <=> c * g = e * d
      /\ Same(x, z) <=> a * g = e * b
  BY DEF Less, Same
<1> HIDE DEF a, b, c, d, e, g
<1>3. /\ a * d \in Int /\ c * b \in Int /\ c * g \in Int /\ e * d \in Int
      /\ a * g \in Int /\ e * b \in Int
  BY <1>1
<1>4. /\ g * (a * d) = d * (a * g)
      /\ b * (e * d) = d * (e * b)
      /\ g * (c * b) = b * (c * g)
  BY <1>1
<1>5. /\ a * d < c * b <=> g * (a * d) < g * (c * b)
      /\ c * g < e * d <=> b * (c * g) < b * (e * d)
      /\ a * g < e * b <=> d * (a * g) < d * (e * b)
      /\ a * g > e * b <=> d * (a * g) > d * (e * b)
  BY <1>1, <1>3, Scaled
<1> DEFINE gad == g * (a * d)  gcb == g * (c * b)  bed == b * (e * d)
<1>6. gad \in Int /\ gcb \in Int /\ bed \in Int
  BY <1>1, <1>3
<1>7. /\ a * d < c * b <=> gad < gcb
      /\ c * g < e * d <=> gcb < bed
      /\ a * g < e * b <=> gad < bed
      /\ a * g > e * b <=> gad > bed
  BY <1>4, <1>5
<1>8. /\ a * d = c * b => gad = gcb
      /\ c * g = e * d => gcb = bed
  BY <1>4
<1> HIDE DEF gad, gcb, bed
<1> QED
  BY <1>2, <1>3, <1>6, <1>7, <1>8

LEMMA LessOrSame ==
    ASSUME NEW x \in Fractions, NEW y \in Fractions
    PROVE  /\ Less(x, y) \/ Same(x, y) \/ Less(y, x)
           /\ ~(Less(x, y) /\ Same(x, y)) /\ ~(Less(x, y) /\ Less(y, x))
           /\ Same(x, y) <=> Same(y, x)
           /\ Same(x, x)
<1>1. x[1] * y[2] \in Int /\ y[1] * x[2] \in Int
  BY DEF Fractions
<1> QED
  BY <1>1 DEF Less, Same

\* What the sort compares orders the stocks by six fractions, one by one.
Comparable == [1 .. 6 -> Fractions]

LEMMA BeforeIsOrder ==
    ASSUME NEW x \in Comparable, NEW y \in Comparable, NEW z \in Comparable
    PROVE  /\ ~Before(x, x)
           /\ Before(x, y) /\ Before(y, z) => Before(x, z)
           /\ ~Same(x[6], y[6]) => Before(x, y) \/ Before(y, x)
<1>1. \A n \in 1 .. 6 : x[n] \in Fractions /\ y[n] \in Fractions /\ z[n] \in Fractions
  BY DEF Comparable
<1>2. ~Before(x, x)
  BY <1>1, LessOrSame DEF Before
<1>3. ASSUME Before(x, y), Before(y, z) PROVE Before(x, z)
  <2>1. PICK n \in 1 .. 6 : Less(y[n], x[n]) /\ \A m \in 1 .. n - 1 : Same(x[m], y[m])
    BY <1>3 DEF Before
  <2>2. PICK m \in 1 .. 6 : Less(z[m], y[m]) /\ \A k \in 1 .. m - 1 : Same(y[k], z[k])
    BY <1>3 DEF Before
  <2>3. CASE n < m
    <3>1. n \in 1 .. m - 1 /\ \A k \in 1 .. n - 1 : k \in 1 .. m - 1 /\ k \in 1 .. 6
      BY <2>3
    <3>2. Less(z[n], x[n])
      BY <1>1, <2>1, <2>2, <3>1, LessThrough, LessOrSame
    <3>3. \A k \in 1 .. n - 1 : Same(x[k], z[k])
      BY <1>1, <2>1, <2>2, <3>1, LessThrough
    <3> QED
      BY <3>2, <3>3 DEF Before
  <2>4. CASE m < n
    <3>1. m \in 1 .. n - 1 /\ \A k \in 1 .. m - 1 : k \in 1 .. n - 1 /\ k \in 1 .. 6
      BY <2>4
    <3>2. Less(z[m], x[m])
      BY <1>1, <2>1, <2>2, <3>1, LessThrough, LessOrSame
    <3>3. \A k \in 1 .. m - 1 : Same(x[k], z[k])
      BY <1>1, <2>1, <2>2, <3>1, LessThrough
    <3> QED
      BY <3>2, <3>3 DEF Before
  <2>5. CASE m = n
    <3>1. \A k \in 1 .. n - 1 : k \in 1 .. 6
      OBVIOUS
    <3>2. Less(z[n], x[n])
      BY <1>1, <2>1, <2>2, <2>5, LessThrough
    <3>3. \A k \in 1 .. n - 1 : Same(x[k], z[k])
      BY <1>1, <2>1, <2>2, <2>5, <3>1, LessThrough
    <3> QED
      BY <3>2, <3>3 DEF Before
  <2> QED
    BY <2>3, <2>4, <2>5
<1>4. ASSUME ~Same(x[6], y[6]) PROVE Before(x, y) \/ Before(y, x)
  <2> DEFINE D == {n \in 1 .. 6 : ~Same(x[n], y[n])}
  <2>1. D \subseteq Nat /\ 6 \in D
    BY <1>4
  <2>2. PICK n \in D : \A m \in D : n <= m
    <3> HIDE DEF D
    <3> QED
      BY <2>1, Least
  <2>3. \A m \in 1 .. n - 1 : m \in 1 .. 6 /\ Same(x[m], y[m]) /\ Same(y[m], x[m])
    <3> TAKE m \in 1 .. n - 1
    <3>1. m \in 1 .. 6 /\ ~(n <= m)
      BY <2>2
    <3> QED
      BY <1>1, <2>2, <3>1, LessOrSame
  <2>4. Less(x[n], y[n]) \/ Less(y[n], x[n])
    BY <1>1, <2>2, LessOrSame
  <2> QED
    BY <2>2, <2>3, <2>4 DEF Before
<1> QED
  BY <1>2, <1>3, <1>4
-----------------------------------------------------------------------------
(***************************************************************************)
(* Deduplication, by Rank and by the Gem Sentinel.                         *)
(***************************************************************************)

\* The places of the snapshots that win their ticker among the first n.
Winners(list, n) ==
    {j \in 1 .. n : \A k \in 1 .. n : list[k].ticker = list[j].ticker =>
        \/ list[k].published < list[j].published
        \/ list[k].published = list[j].published /\ k >= j}

Wins(list, n) == {list[j] : j \in Winners(list, n)}

Optional == Int \cup {Nil}

LEMMA SnapshotFields ==
    ASSUME NEW s \in Snapshot
    PROVE  /\ s.ticker \in Tickers \cup {NoTicker}
           /\ s.published \in Int /\ s.age \in Int /\ s.price \in Int
           /\ s.eps \in Optional /\ s.prevEPS \in Optional /\ s.bvps \in Optional
           /\ s.pe \in Optional /\ s.pb \in Optional /\ s.roe \in Optional
           /\ s.revenue \in Optional /\ s.prevRevenue \in Optional
           /\ s.wc \in Optional /\ s.ebit \in Optional /\ s.ta \in Optional
           /\ s.ebt \in Optional /\ s.cl \in Optional
BY DEF Snapshot, Optional

LEMMA SnapshotsOf ==
    ASSUME NEW list \in Seq(Snapshot)
    PROVE  /\ Len(list) \in Nat /\ DOMAIN list = 1 .. Len(list)
           /\ \A j \in 1 .. Len(list) : list[j] \in Snapshot /\ list[j].published \in Int
<1>1. \A j \in 1 .. Len(list) : list[j] \in Snapshot
  OBVIOUS
<1> QED
  BY <1>1, SnapshotFields

LEMMA OneWinner ==
    ASSUME NEW list \in Seq(Snapshot), NEW n \in 0 .. Len(list)
    PROVE  /\ \A j, k \in Winners(list, n) : list[j].ticker = list[k].ticker => j = k
           /\ \A s, t \in Wins(list, n) : s.ticker = t.ticker => s = t
<1>1. \A j \in 1 .. n : list[j].published \in Int
  <2>1. \A j \in 1 .. n : j \in 1 .. Len(list)
    OBVIOUS
  <2> QED
    BY <2>1, SnapshotsOf
<1>2. ASSUME NEW j \in Winners(list, n), NEW k \in Winners(list, n),
             list[j].ticker = list[k].ticker
      PROVE  j = k
  <2>1. j \in 1 .. n /\ k \in 1 .. n
    BY DEF Winners
  <2> QED
    BY <1>1, <1>2, <2>1 DEF Winners
<1> QED
  BY <1>2 DEF Wins

\* Every ticker has a winner, and the first of its newest snapshots is it.
LEMMA SomeWinner ==
    ASSUME NEW list \in Seq(Snapshot)
    PROVE  \A n \in 0 .. Len(list) : \A k \in 1 .. n : \E j \in Winners(list, n) :
              list[j].ticker = list[k].ticker
<1> DEFINE P == {n \in Nat : n <= Len(list) =>
                   \A k \in 1 .. n : \E j \in Winners(list, n) :
                      list[j].ticker = list[k].ticker}
<1>1. \A j \in 1 .. Len(list) : list[j].published \in Int
  BY SnapshotsOf
<1>2. 0 \in P
  OBVIOUS
<1>3. ASSUME NEW n \in Nat, n \in P PROVE n + 1 \in P
  <2> SUFFICES ASSUME n + 1 <= Len(list), NEW k \in 1 .. n + 1
               PROVE  \E j \in Winners(list, n + 1) : list[j].ticker = list[k].ticker
    OBVIOUS
  <2>1. Len(list) \in Nat /\ n <= Len(list) /\ n + 1 \in 1 .. Len(list)
    BY <1>3
  <2>2. \A m \in 1 .. n : m \in 1 .. Len(list) /\ m \in 1 .. n + 1 /\ m # n + 1
    BY <2>1
  <2>3. \A m \in 1 .. n + 1 : m \in 1 .. n \/ m = n + 1
    BY <2>1
  <2>4. \A m \in 1 .. n : \E j \in Winners(list, n) : list[j].ticker = list[m].ticker
    BY <1>3, <2>1
  <2>5. CASE \E j \in Winners(list, n) : list[j].ticker = list[k].ticker
    <3>1. PICK j \in Winners(list, n) : list[j].ticker = list[k].ticker
      BY <2>5
    <3>2. j \in 1 .. n
      BY DEF Winners
    <3>3. CASE list[n + 1].ticker = list[j].ticker /\ list[n + 1].published > list[j].published
      <4>1. \A m \in 1 .. n : list[m].ticker = list[n + 1].ticker =>
               list[m].published < list[n + 1].published
        BY <1>1, <2>1, <2>2, <3>2, <3>3 DEF Winners
      <4>2. n + 1 \in Winners(list, n + 1)
        BY <1>1, <2>1, <2>3, <4>1 DEF Winners
      <4> QED
        BY <3>1, <3>3, <4>2
    <3>4. CASE ~(list[n + 1].ticker = list[j].ticker
                   /\ list[n + 1].published > list[j].published)
      <4>1. j \in Winners(list, n + 1)
        BY <1>1, <2>1, <2>2, <2>3, <3>2, <3>4 DEF Winners
      <4> QED
        BY <3>1, <4>1
    <3> QED
      BY <3>3, <3>4
  <2>6. CASE ~ \E j \in Winners(list, n) : list[j].ticker = list[k].ticker
    <3>1. \A m \in 1 .. n : list[m].ticker # list[k].ticker
      BY <2>4, <2>6
    <3>2. k = n + 1
      BY <2>3, <3>1
    <3>3. n + 1 \in Winners(list, n + 1)
      BY <1>1, <2>1, <2>3, <3>1, <3>2 DEF Winners
    <3> QED
      BY <3>2, <3>3
  <2> QED
    BY <2>5, <2>6
<1>4. \A n \in Nat : n \in P
  <2> HIDE DEF P
  <2> QED
    BY <1>2, <1>3, Induction
<1> QED
  BY <1>4

\* One round of the loop goes from the winners of n snapshots to those of n + 1.
LEMMA SeenNext ==
    ASSUME NEW list \in Seq(Snapshot), NEW n \in Nat, n < Len(list)
    PROVE  Seen(Wins(list, n), list[n + 1]) = Wins(list, n + 1)
<1> DEFINE s == list[n + 1]
           W == Winners(list, n)
           V == Winners(list, n + 1)
           older == {t \in Wins(list, n) : t.ticker = s.ticker /\ s.published > t.published}
<1>1. /\ Len(list) \in Nat /\ n \in 0 .. Len(list) /\ n + 1 \in 1 .. n + 1
      /\ \A m \in 1 .. n + 1 : m \in 1 .. Len(list)
      /\ \A m \in 1 .. n : m \in 1 .. n + 1 /\ m # n + 1 /\ ~(m >= n + 1) /\ n + 1 >= m
      /\ \A m \in 1 .. n + 1 : m \in 1 .. n \/ m = n + 1
  OBVIOUS
<1>2. \A j \in 1 .. n + 1 : list[j].published \in Int
  BY <1>1, SnapshotsOf
<1>3. W \subseteq 1 .. n
  BY DEF Winners
<1>4. \A m \in 1 .. n : \E j \in W : list[j].ticker = list[m].ticker
  BY <1>1, SomeWinner
<1>5. \A j, k \in W : list[j].ticker = list[k].ticker => j = k
  BY <1>1, OneWinner
<1>6. CASE \A j \in W : list[j].ticker # s.ticker
  <2>1. \A m \in 1 .. n : list[m].ticker # s.ticker
    BY <1>4, <1>6
  <2>2. V = W \cup {n + 1}
    BY <1>1, <1>2, <2>1 DEF Winners
  <2>3. older = {} /\ \A t \in Wins(list, n) : t.ticker # s.ticker
    BY <1>6 DEF Wins
  <2> QED
    BY <2>2, <2>3 DEF Seen, Wins
<1>7. ASSUME NEW j \in W, list[j].ticker = s.ticker, s.published > list[j].published
      PROVE  Seen(Wins(list, n), s) = Wins(list, n + 1)
  <2>1. older = {list[j]}
    BY <1>5, <1>7 DEF Wins
  <2>2. \A m \in 1 .. n : list[m].ticker = s.ticker => list[m].published < s.published
    BY <1>1, <1>2, <1>3, <1>7 DEF Winners
  <2>3. n + 1 \in V /\ j \notin V
    BY <1>1, <1>2, <1>3, <1>7, <2>2 DEF Winners
  <2>4. \A m \in 1 .. n : m # j => (m \in V <=> m \in W)
    <3> TAKE m \in 1 .. n
    <3>1. CASE list[m].ticker = s.ticker
      <4>1. m \notin V
        BY <1>1, <1>2, <2>2, <3>1 DEF Winners
      <4>2. m # j => m \notin W
        BY <1>5, <1>7, <3>1
      <4> QED
        BY <4>1, <4>2
    <3>2. CASE list[m].ticker # s.ticker
      BY <1>1, <3>2 DEF Winners
    <3> QED
      BY <3>1, <3>2
  <2>5. V \subseteq 1 .. n + 1
    BY DEF Winners
  <2>6. V = (W \ {j}) \cup {n + 1}
    BY <1>1, <1>3, <2>3, <2>4, <2>5
  <2>7. \A m \in W \ {j} : list[m] # list[j]
    BY <1>5
  <2>8. {list[m] : m \in W \ {j}} = Wins(list, n) \ {list[j]}
    BY <2>7 DEF Wins
  <2>9. Wins(list, n + 1) = (Wins(list, n) \ {list[j]}) \cup {s}
    BY <2>6, <2>8 DEF Wins
  <2> QED
    BY <2>1, <2>9 DEF Seen
<1>8. ASSUME NEW j \in W, list[j].ticker = s.ticker, ~(s.published > list[j].published)
      PROVE  Seen(Wins(list, n), s) = Wins(list, n + 1)
  <2>1. older = {} /\ \E t \in Wins(list, n) : t.ticker = s.ticker
    BY <1>5, <1>8 DEF Wins
  <2>2. n + 1 \notin V
    BY <1>1, <1>2, <1>3, <1>8 DEF Winners
  <2>3. \A m \in 1 .. n : m \in V <=> m \in W
    <3> TAKE m \in 1 .. n
    <3>1. CASE m = j
      BY <1>1, <1>2, <1>8, <3>1 DEF Winners
    <3>2. CASE m # j /\ list[m].ticker = s.ticker
      <4>1. m \notin W
        BY <1>5, <1>8, <3>2
      <4>2. m \notin V
        BY <1>1, <4>1 DEF Winners
      <4> QED
        BY <4>1, <4>2
    <3>3. CASE list[m].ticker # s.ticker
      BY <1>1, <3>3 DEF Winners
    <3> QED
      BY <3>1, <3>2, <3>3
  <2>4. V \subseteq 1 .. n + 1
    BY DEF Winners
  <2>5. V = W
    BY <1>1, <1>3, <2>2, <2>3, <2>4
  <2> QED
    BY <2>1, <2>5 DEF Seen, Wins
<1> QED
  BY <1>6, <1>7, <1>8

\* The loop ends with the winners of the whole list.
LEMMA NewestAreWinners ==
    ASSUME NEW list \in Seq(Snapshot)
    PROVE  Newest(list) = Wins(list, Len(list))
<1> DEFINE round(f, n) == IF n = 0 THEN {} ELSE Seen(f[n - 1], list[n])
           loop(f) == f = [n \in 0 .. Len(list) |-> round(f, n)]
           g == [n \in 0 .. Len(list) |-> Wins(list, n)]
           h == CHOOSE f : loop(f)
<1>1. Len(list) \in Nat /\ Len(list) \in 0 .. Len(list) /\ 0 \in 0 .. Len(list)
  BY SnapshotsOf
<1>2. loop(g)
  <2>1. ASSUME NEW n \in 0 .. Len(list) PROVE g[n] = round(g, n)
    <3>1. CASE n = 0
      <4>1. Winners(list, 0) = {}
        BY DEF Winners
      <4> QED
        BY <3>1, <4>1 DEF Wins
    <3>2. CASE n # 0
      <4>1. n - 1 \in Nat /\ n - 1 < Len(list) /\ n - 1 \in 0 .. Len(list) /\ (n - 1) + 1 = n
        BY <3>2
      <4>2. g[n - 1] = Wins(list, n - 1) /\ g[n] = Wins(list, n)
        BY <4>1
      <4>3. Seen(Wins(list, n - 1), list[(n - 1) + 1]) = Wins(list, (n - 1) + 1)
        BY <4>1, SeenNext
      <4> QED
        BY <3>2, <4>1, <4>2, <4>3
    <3> QED
      BY <3>1, <3>2
  <2> QED
    BY <2>1
<1>3. loop(h)
  <2> HIDE DEF g, loop
  <2> QED
    BY <1>2
<1>4. ASSUME NEW n \in 0 .. Len(list) PROVE h[n] = g[n]
  <2> DEFINE P == {m \in Nat : m <= Len(list) => h[m] = g[m]}
  <2>1. \A m \in 0 .. Len(list) : h[m] = round(h, m)
    <3> HIDE DEF h, g
    <3> QED
      BY <1>3
  <2>2. \A m \in 0 .. Len(list) : g[m] = round(g, m)
    <3> HIDE DEF h, g
    <3> QED
      BY <1>2
  <2> HIDE DEF g, h
  <2>3. 0 \in P
    BY <1>1, <2>1, <2>2
  <2>4. ASSUME NEW m \in Nat, m \in P PROVE m + 1 \in P
    <3> SUFFICES ASSUME m + 1 <= Len(list) PROVE h[m + 1] = g[m + 1]
      OBVIOUS
    <3>1. m + 1 \in 0 .. Len(list) /\ m + 1 # 0 /\ (m + 1) - 1 = m /\ h[m] = g[m]
      BY <1>1, <2>4
    <3> QED
      BY <2>1, <2>2, <3>1
  <2>5. \A m \in Nat : m \in P
    <3> HIDE DEF P
    <3> QED
      BY <2>3, <2>4, Induction
  <2> QED
    BY <2>5
<1>5. Newest(list) = h[Len(list)]
  BY DEF Newest
<1> HIDE DEF h
<1> QED
  BY <1>1, <1>4, <1>5

\* There are finitely many winners, and no two of one ticker.
LEMMA WinsFinite ==
    ASSUME NEW list \in Seq(Snapshot), NEW n \in 0 .. Len(list)
    PROVE  IsFiniteSet(Wins(list, n)) /\ Wins(list, n) \subseteq {list[j] : j \in DOMAIN list}
                                      /\ Wins(list, n) \subseteq Snapshot
<1> DEFINE all == {list[j] : j \in DOMAIN list}
<1>1. /\ Len(list) \in Nat /\ DOMAIN list = 1 .. Len(list)
      /\ list = [j \in 1 .. Len(list) |-> list[j]]
      /\ \A j \in DOMAIN list : list[j] \in Snapshot
  BY SnapshotsOf
<1>2. list \in Surjection(1 .. Len(list), all)
  BY <1>1 DEF Surjection
<1>3. IsFiniteSet(1 .. Len(list))
  BY <1>1, FS_Interval
<1>4. IsFiniteSet(all)
  <2> HIDE DEF all
  <2> QED
    BY <1>2, <1>3, FS_Surjection
<1>5. Wins(list, n) \subseteq all
  BY <1>1 DEF Wins, Winners
<1> QED
  BY <1>1, <1>4, <1>5, FS_Subset
-----------------------------------------------------------------------------
(***************************************************************************)
(* Scores, and the order they put the stocks in.                           *)
(***************************************************************************)
LEMMA EligibleFields ==
    ASSUME NEW s \in Snapshot, Eligible(s)
    PROVE  /\ s.ticker \in Tickers
           /\ s.price \in Int
           /\ s.eps \in Nat \ {0} /\ s.bvps \in Nat \ {0} /\ s.pe \in Nat \ {0}
           /\ s.prevEPS \in Nat \ {0} /\ s.eps - s.prevEPS \in Nat \ {0}
           /\ EPSGrowth(s) = <<s.eps - s.prevEPS, s.prevEPS>>
<1>1. s.eps \in Int /\ s.bvps \in Int /\ s.pe \in Int
  BY SnapshotFields DEF Eligible, Optional
<1>2. s.prevEPS # Nil /\ ~(s.prevEPS <= 0)
  BY DEF Eligible, EPSGrowth, Growth
<1>3. s.prevEPS \in Int
  BY <1>2, SnapshotFields DEF Optional
<1>4. EPSGrowth(s) = <<s.eps - s.prevEPS, s.prevEPS>>
  BY <1>2 DEF EPSGrowth, Growth, Eligible
<1>5. s.ticker \in Tickers /\ s.price \in Int
  BY SnapshotFields DEF Eligible
<1>6. s.eps > 0 /\ s.bvps > 0 /\ s.pe > 0 /\ s.eps > s.prevEPS
  BY DEF Eligible
<1> QED
  BY <1>1, <1>2, <1>3, <1>4, <1>5, <1>6

\* What the scoring works on: eligible snapshots, one for each ticker.
Field(stocks) ==
    /\ IsFiniteSet(stocks) /\ stocks \subseteq Snapshot
    /\ \A s \in stocks : Eligible(s)
    /\ \A s, t \in stocks : s.ticker = t.ticker => s = t

LEMMA FactorIsFraction ==
    ASSUME NEW s \in Snapshot, Eligible(s), NEW k \in Factors, Has(k, s)
    PROVE  Factor(k, s) \in Fractions
<1>1. s.price * s.price \in Int /\ s.eps * s.bvps \in Nat \ {0} /\ s.pe * s.prevEPS \in Int
  BY EligibleFields
<1>2. MarginOfSafety(s) \in Fractions /\ PEG(s) \in Fractions /\ EPSGrowth(s) \in Fractions
  BY <1>1, EligibleFields DEF MarginOfSafety, PEG, Fractions
<1>3. RevenueGrowth(s) # Nil => RevenueGrowth(s) \in Fractions
  <2> SUFFICES ASSUME RevenueGrowth(s) # Nil PROVE RevenueGrowth(s) \in Fractions
    OBVIOUS
  <2>1. /\ s.revenue # Nil /\ s.prevRevenue # Nil /\ ~(s.prevRevenue <= 0)
        /\ RevenueGrowth(s) = <<s.revenue - s.prevRevenue, s.prevRevenue>>
    BY DEF RevenueGrowth, Growth
  <2>2. s.revenue \in Int /\ s.prevRevenue \in Int
    BY <2>1, SnapshotFields DEF Optional
  <2> QED
    BY <2>1, <2>2 DEF Fractions
<1>4. ASSUME NEW x \in Optional, Plain(x) # Nil PROVE Plain(x) \in Fractions
  <2>1. x \in Int /\ Plain(x) = <<x, 1>>
    BY <1>4 DEF Plain, Optional
  <2> QED
    BY <2>1 DEF Fractions
<1>5. /\ Factor("mos", s) = MarginOfSafety(s) /\ Factor("pe", s) = Plain(s.pe)
      /\ Factor("pb", s) = Plain(s.pb) /\ Factor("eps", s) = EPSGrowth(s)
      /\ Factor("roe", s) = Plain(s.roe) /\ Factor("peg", s) = PEG(s)
      /\ Factor("rev", s) = RevenueGrowth(s)
  BY DEF Factor
<1> QED
  BY <1>2, <1>3, <1>4, <1>5, SnapshotFields DEF Factors, Has

\* The parts of PercentileScore.
Present(k, stocks) == {t \in stocks : Has(k, t)}
Below(k, s, stocks) == {t \in Present(k, stocks) : Less(Factor(k, t), Factor(k, s))}
Level(k, s, stocks) == {t \in Present(k, stocks) : Same(Factor(k, t), Factor(k, s))}
Points(k, s, stocks) ==
    ((2 * Cardinality(Below(k, s, stocks)) + Cardinality(Level(k, s, stocks)) - 1) * Unit)
       \div (2 * (Cardinality(Present(k, stocks)) - 1))

LEMMA PercentileIs ==
    ASSUME NEW k, NEW s, NEW stocks
    PROVE  Percentile(k, s, stocks) =
              IF ~Has(k, s) \/ Cardinality(Present(k, stocks)) = 1 THEN Unit \div 2
              ELSE IF k \in LowerIsBetter THEN Unit - Points(k, s, stocks)
                                          ELSE Points(k, s, stocks)
BY DEF Percentile, Points, Present, Below, Level

LEMMA Counts ==
    ASSUME NEW stocks, IsFiniteSet(stocks), NEW k, NEW s \in stocks
    PROVE  /\ IsFiniteSet(Present(k, stocks)) /\ Cardinality(Present(k, stocks)) \in Nat
           /\ IsFiniteSet(Below(k, s, stocks)) /\ Cardinality(Below(k, s, stocks)) \in Nat
           /\ IsFiniteSet(Level(k, s, stocks)) /\ Cardinality(Level(k, s, stocks)) \in Nat
           /\ Cardinality(Present(k, stocks)) <= Cardinality(stocks)
           /\ Has(k, s) => Cardinality(Present(k, stocks)) # 0
<1>1. /\ Present(k, stocks) \in SUBSET stocks
      /\ Below(k, s, stocks) \in SUBSET stocks /\ Level(k, s, stocks) \in SUBSET stocks
  BY DEF Present, Below, Level
<1>2. /\ IsFiniteSet(Present(k, stocks)) /\ IsFiniteSet(Below(k, s, stocks))
      /\ IsFiniteSet(Level(k, s, stocks))
      /\ Cardinality(Present(k, stocks)) <= Cardinality(stocks)
  BY <1>1, FS_Subset
<1>3. Has(k, s) => Present(k, stocks) # {}
  BY DEF Present
<1> QED
  BY <1>2, <1>3, FS_CardinalityType, FS_EmptySet

LEMMA PercentileInt ==
    ASSUME NEW stocks, IsFiniteSet(stocks), NEW s \in stocks, NEW k
    PROVE  Percentile(k, s, stocks) \in Int
<1>1. Unit \in Nat \ {0} /\ Unit \div 2 \in Int
  BY RankingAssumption
<1>2. ASSUME Has(k, s), Cardinality(Present(k, stocks)) # 1
      PROVE  Points(k, s, stocks) \in Int
  <2> DEFINE p == (2 * Cardinality(Below(k, s, stocks))
                     + Cardinality(Level(k, s, stocks)) - 1) * Unit
             d == 2 * (Cardinality(Present(k, stocks)) - 1)
  <2>1. p \in Int /\ d \in Nat /\ d > 0
    BY <1>1, <1>2, Counts
  <2> HIDE DEF p, d
  <2>2. p \div d \in Int
    BY <2>1
  <2> QED
    BY <2>2 DEF p, d, Points
<1>3. Has(k, s) /\ Cardinality(Present(k, stocks)) # 1 => Unit - Points(k, s, stocks) \in Int
  BY <1>1, <1>2
<1> QED
  BY <1>1, <1>2, <1>3, PercentileIs

LEMMA ScoresInt ==
    ASSUME NEW stocks, IsFiniteSet(stocks), NEW s \in stocks
    PROVE  GrahamScore(s, stocks) \in Int /\ LynchScore(s, stocks) \in Int
              /\ GLScore(s, stocks) \in Int
<1>1. GrahamScore(s, stocks) \in Int
  BY PercentileInt DEF GrahamScore
<1>2. LynchScore(s, stocks) \in Int
  BY PercentileInt DEF LynchScore
<1> QED
  BY <1>1, <1>2 DEF GLScore

RankedAhead(stocks) == {p \in stocks \X stocks : Before(Keys(stocks)[p[1]], Keys(stocks)[p[2]])}

LEMMA KeysComparable ==
    ASSUME NEW stocks, Field(stocks), NEW s \in stocks
    PROVE  /\ Keys(stocks)[s] \in Comparable
           /\ Keys(stocks)[s][1] = <<GLScore(s, stocks), 1>>
           /\ Keys(stocks)[s][6] = <<-s.ticker, 1>>
           /\ s.ticker \in Nat
<1> DEFINE key == <<<<GLScore(s, stocks), 1>>, <<GrahamScore(s, stocks), 1>>,
                    <<LynchScore(s, stocks), 1>>, MarginOfSafety(s), EPSGrowth(s),
                    <<-s.ticker, 1>>>>
<1>1. s \in Snapshot /\ Eligible(s) /\ IsFiniteSet(stocks)
  BY DEF Field
<1>2. Keys(stocks)[s] = key
  BY DEF Keys
<1>3. s.ticker \in Nat
  BY <1>1, EligibleFields, RankingAssumption
<1>4. s.price * s.price \in Int /\ s.eps * s.bvps \in Nat \ {0}
  BY <1>1, EligibleFields
<1>5. MarginOfSafety(s) \in Fractions /\ EPSGrowth(s) \in Fractions
  BY <1>1, <1>4, EligibleFields DEF MarginOfSafety, Fractions
<1>6. /\ <<GLScore(s, stocks), 1>> \in Fractions /\ <<GrahamScore(s, stocks), 1>> \in Fractions
      /\ <<LynchScore(s, stocks), 1>> \in Fractions /\ <<-s.ticker, 1>> \in Fractions
  BY <1>1, <1>3, ScoresInt DEF Fractions
<1>7. key \in Comparable
  <2>1. \A n \in 1 .. 6 : n = 1 \/ n = 2 \/ n = 3 \/ n = 4 \/ n = 5 \/ n = 6
    OBVIOUS
  <2> QED
    BY <1>5, <1>6, <2>1 DEF Comparable
<1> QED
  BY <1>2, <1>3, <1>7

\* The comparison given to sort.Slice tells any two stocks apart and has no
\* circles, whatever is tied: the ticker, the last key, decides.
LEMMA StocksInOrder ==
    ASSUME NEW stocks, Field(stocks)
    PROVE  StrictOrder(stocks, RankedAhead(stocks))
<1> DEFINE key(s) == Keys(stocks)[s]
<1>1. \A x, y \in stocks : <<x, y>> \in RankedAhead(stocks) <=> Before(key(x), key(y))
  BY DEF RankedAhead
<1>2. ASSUME NEW x \in stocks, NEW y \in stocks, x # y PROVE ~Same(key(x)[6], key(y)[6])
  <2>1. x.ticker # y.ticker
    BY <1>2 DEF Field
  <2>2. key(x)[6] = <<-x.ticker, 1>> /\ key(y)[6] = <<-y.ticker, 1>>
    BY KeysComparable
  <2>3. x.ticker \in Nat /\ y.ticker \in Nat
    BY KeysComparable
  <2> HIDE DEF key
  <2> QED
    BY <2>1, <2>2, <2>3 DEF Same
<1>3. \A x \in stocks : key(x) \in Comparable
  BY KeysComparable
<1> HIDE DEF key
<1> QED
  BY <1>1, <1>2, <1>3, BeforeIsOrder DEF StrictOrder
-----------------------------------------------------------------------------
(***************************************************************************)
(* Rank, loop by loop.                                                     *)
(***************************************************************************)
LEMMA KeptAreWinners ==
    ASSUME snaps \in Seq(Snapshot)
    PROVE  /\ Kept = {s \in Wins(snaps, Len(snaps)) : Eligible(s)}
           /\ Field(Kept)
           /\ Kept \subseteq Given
<1>1. Len(snaps) \in Nat /\ DOMAIN snaps = 1 .. Len(snaps) /\ Len(snaps) \in 0 .. Len(snaps)
  BY SnapshotsOf
<1>2. Kept = {s \in Wins(snaps, Len(snaps)) : Eligible(s)}
  BY <1>1 DEF Kept, Wins, Winners
<1>3. IsFiniteSet(Wins(snaps, Len(snaps))) /\ Wins(snaps, Len(snaps)) \subseteq Given
      /\ Wins(snaps, Len(snaps)) \subseteq Snapshot
  BY <1>1, WinsFinite DEF Given
<1>4. IsFiniteSet(Kept)
  BY <1>2, <1>3, FS_Subset
<1>5. Field(Kept)
  BY <1>1, <1>2, <1>3, <1>4, OneWinner DEF Field
<1> QED
  BY <1>2, <1>3, <1>5

\* What the cut leaves of an order.
LEMMA TopOf ==
    ASSUME NEW stocks, Field(stocks), NEW o \in Orders(stocks)
    PROVE  /\ Cardinality(stocks) \in Nat
           /\ Len(Top(o)) = IF Cardinality(stocks) > TopN THEN TopN ELSE Cardinality(stocks)
           /\ DOMAIN Top(o) = 1 .. Len(Top(o))
           /\ Len(Top(o)) \in Nat /\ Len(Top(o)) <= Cardinality(stocks)
           /\ \A n \in 1 .. Len(Top(o)) : n \in 1 .. Cardinality(stocks) /\ Top(o)[n] = o[n]
<1> DEFINE N == Cardinality(stocks)
           cut == IF N > TopN THEN TopN ELSE N
<1>1. o \in [1 .. N -> stocks] /\ N \in Nat
  BY FS_CardinalityType DEF Orders, Sortings, Field
<1> HIDE DEF N
<1>2. o \in Seq(stocks) /\ Len(o) = N
  BY <1>1
<1>3. cut \in Nat /\ cut <= N
  BY <1>1, RankingAssumption
<1>4. Top(o) = SubSeq(o, 1, cut)
  BY <1>2 DEF Top
<1>5. Top(o) = [n \in 1 .. cut |-> o[n]]
  BY <1>2, <1>3, <1>4
<1>6. Len(Top(o)) = cut /\ DOMAIN Top(o) = 1 .. cut
  BY <1>3, <1>5
<1>7. \A n \in 1 .. cut : n \in 1 .. N /\ Top(o)[n] = o[n]
  BY <1>1, <1>3, <1>5
<1> QED
  BY <1>1, <1>3, <1>6, <1>7 DEF N

\* The inductive invariant: the first loop has the winners of what it has seen,
\* the second has the eligible ones among those that it has visited.
RankingInv ==
    /\ snaps \in Seq(Snapshot)
    /\ pc \in {"dedup", "filter", "done"}
    /\ i \in 0 .. Len(snaps)
    /\ pc = "dedup" => best = Wins(snaps, i) /\ mids = {} /\ out = <<>>
    /\ pc = "filter" => /\ best \subseteq Wins(snaps, Len(snaps))
                        /\ mids \cup {s \in best : Eligible(s)} = Kept
                        /\ out = <<>>
    /\ pc = "done" => best = {} /\ mids = Kept /\ \E o \in Orders(mids) : out = Top(o)

LEMMA RankingInit == Init => RankingInv
<1> SUFFICES ASSUME Init PROVE RankingInv
  OBVIOUS
<1>1. snaps \in Seq(Snapshot)
  BY RankingAssumption DEF Init
<1>2. Wins(snaps, 0) = {}
  BY DEF Wins, Winners
<1> QED
  BY <1>1, <1>2, SnapshotsOf DEF Init, RankingInv

LEMMA RankingStep == RankingInv /\ [Next]_vars => RankingInv'
<1> SUFFICES ASSUME RankingInv, [Next]_vars PROVE RankingInv'
  OBVIOUS
<1>1. snaps \in Seq(Snapshot) /\ snaps' = snaps /\ Len(snaps) \in Nat
  BY SnapshotsOf DEF RankingInv, Next, vars, Dedup, EndDedup, Filter, ScoreAndSort
<1>2. CASE Dedup
  <2>1. pc = "dedup" /\ best = Wins(snaps, i) /\ i + 1 \in 0 .. Len(snaps)
        /\ i \in Nat /\ i < Len(snaps)
    BY <1>1, <1>2 DEF Dedup, RankingInv
  <2>2. best' = Wins(snaps, i + 1)
    BY <1>1, <1>2, <2>1, SeenNext DEF Dedup
  <2> QED
    BY <1>1, <1>2, <2>1, <2>2 DEF Dedup, RankingInv
<1>3. CASE EndDedup
  <2>1. best = Wins(snaps, Len(snaps)) /\ mids = {} /\ out = <<>>
    BY <1>3 DEF EndDedup, RankingInv
  <2>2. mids \cup {s \in best : Eligible(s)} = Kept /\ Kept' = Kept
    BY <1>1, <2>1, KeptAreWinners DEF Kept
  <2> QED
    BY <1>1, <1>3, <2>1, <2>2 DEF EndDedup, RankingInv
<1>4. CASE Filter
  <2>1. PICK s \in best : /\ best' = best \ {s}
                          /\ mids' = IF Eligible(s) THEN mids \cup {s} ELSE mids
    BY <1>4 DEF Filter
  <2>2. /\ best \subseteq Wins(snaps, Len(snaps)) /\ out = <<>>
        /\ mids \cup {t \in best : Eligible(t)} = Kept
    BY <1>4 DEF Filter, RankingInv
  <2>3. mids' \cup {t \in best' : Eligible(t)} = Kept
    BY <2>1, <2>2
  <2>4. Kept' = Kept
    BY <1>1 DEF Kept
  <2> QED
    BY <1>1, <1>4, <2>1, <2>2, <2>3, <2>4 DEF Filter, RankingInv
<1>5. CASE ScoreAndSort
  <2>1. best = {} /\ mids = Kept
    BY <1>5 DEF ScoreAndSort, RankingInv
  <2>2. Kept' = Kept
    BY <1>1 DEF Kept
  <2>3. \E o \in Orders(mids) : out' = Top(o)
    BY <1>5 DEF ScoreAndSort
  <2>4. mids' = mids /\ best' = best /\ i' = i /\ pc' = "done"
    BY <1>5 DEF ScoreAndSort
  <2> QED
    BY <1>1, <2>1, <2>2, <2>3, <2>4 DEF RankingInv
<1>6. CASE UNCHANGED vars
  <2>1. Kept' = Kept
    BY <1>1 DEF Kept
  <2> QED
    BY <1>6, <2>1 DEF vars, RankingInv
<1> QED
  BY <1>2, <1>3, <1>4, <1>5, <1>6 DEF Next

LEMMA RankingAlways == Spec => []RankingInv
BY RankingInit, RankingStep, PTL DEF Spec

\* Type correctness: no loop keeps two snapshots of one ticker, the result is
\* no longer than the top and made of eligible stocks (ranking.go:46-192).
THEOREM RankingTypeCorrect == Spec => []TypeOK
<1>1. RankingInv => TypeOK
  <2> SUFFICES ASSUME RankingInv PROVE TypeOK
    OBVIOUS
  <2>1. snaps \in Seq(Snapshot) /\ i \in 0 .. Len(snaps) /\ Len(snaps) \in Nat
        /\ Len(snaps) \in 0 .. Len(snaps)
    BY SnapshotsOf DEF RankingInv
  <2>2. \A n \in 0 .. Len(snaps) :
           /\ Wins(snaps, n) \subseteq Given
           /\ \A s, t \in Wins(snaps, n) : s.ticker = t.ticker => s = t
    BY <2>1, WinsFinite, OneWinner DEF Given
  <2>3. /\ Kept \subseteq Wins(snaps, Len(snaps)) /\ Field(Kept)
    BY <2>1, KeptAreWinners
  <2>4. \E n \in 0 .. Len(snaps) : best \cup mids \subseteq Wins(snaps, n)
    BY <2>1, <2>3 DEF RankingInv
  <2>5. /\ best \subseteq Given /\ mids \subseteq Given
        /\ \A s, t \in best \cup mids : s.ticker = t.ticker => s = t
    BY <2>2, <2>4
  <2>6. Len(out) <= TopN /\ \A n \in DOMAIN out : out[n] \in mids
    <3>1. CASE pc = "done"
      <4>1. PICK o \in Orders(mids) : out = Top(o)
        BY <3>1 DEF RankingInv
      <4>2. Field(mids)
        BY <2>3, <3>1 DEF RankingInv
      <4>3. o \in [1 .. Cardinality(mids) -> mids]
        BY DEF Orders, Sortings
      <4>4. /\ Len(out) = IF Cardinality(mids) > TopN THEN TopN ELSE Cardinality(mids)
            /\ DOMAIN out = 1 .. Len(out) /\ Cardinality(mids) \in Nat
            /\ \A n \in 1 .. Len(out) : n \in 1 .. Cardinality(mids) /\ out[n] = o[n]
        BY <4>1, <4>2, TopOf
      <4> QED
        BY <4>3, <4>4, RankingAssumption
    <3>2. CASE pc # "done"
      <4>1. out = <<>>
        BY <3>2 DEF RankingInv
      <4> QED
        BY <4>1, RankingAssumption
    <3> QED
      BY <3>1, <3>2
  <2> QED
    BY <2>1, <2>5, <2>6 DEF TypeOK, RankingInv
<1> QED
  BY <1>1, RankingAlways, PTL

\* The ranking of a list is one ranking, whatever order the maps are visited in
\* and however the sort treats equals (ranking.go:46-192).
THEOREM RankingIsTheSame == Spec => []RankingIsDefinite
<1>1. RankingInv => RankingIsDefinite
  <2> SUFFICES ASSUME RankingInv, pc = "done"
               PROVE  LET keys == Keys(Kept) IN
                  /\ Len(out) = IF Cardinality(Kept) > TopN THEN TopN ELSE Cardinality(Kept)
                  /\ \A n \in DOMAIN out :
                        /\ out[n] \in Kept
                        /\ Cardinality({s \in Kept : Before(keys[s], keys[out[n]])}) = n - 1
    BY DEF RankingIsDefinite
  <2>1. Field(Kept) /\ IsFiniteSet(Kept)
    BY KeptAreWinners DEF RankingInv, Field
  <2>2. PICK o \in Orders(Kept) : out = Top(o)
    BY DEF RankingInv
  <2>3. o \in Sortings(Kept, RankedAhead(Kept))
    BY DEF Orders, RankedAhead
  <2>4. /\ o \in [1 .. Cardinality(Kept) -> Kept]
        /\ \A n \in 1 .. Cardinality(Kept) :
              Cardinality(Ahead(Kept, RankedAhead(Kept), o[n])) = n - 1
    BY <2>1, <2>3, StocksInOrder, SortedPlaces
  <2>5. ASSUME NEW n \in 1 .. Cardinality(Kept)
        PROVE  Ahead(Kept, RankedAhead(Kept), o[n])
                  = {s \in Kept : Before(Keys(Kept)[s], Keys(Kept)[o[n]])}
    BY <2>4 DEF Ahead, RankedAhead
  <2>6. /\ Len(out) = IF Cardinality(Kept) > TopN THEN TopN ELSE Cardinality(Kept)
        /\ DOMAIN out = 1 .. Len(out)
        /\ \A n \in 1 .. Len(out) : n \in 1 .. Cardinality(Kept) /\ out[n] = o[n]
    BY <2>1, <2>2, TopOf
  <2>7. ASSUME NEW n \in DOMAIN out
        PROVE  /\ out[n] \in Kept
               /\ Cardinality({s \in Kept : Before(Keys(Kept)[s], Keys(Kept)[out[n]])}) = n - 1
    <3>1. n \in 1 .. Cardinality(Kept) /\ out[n] = o[n]
      BY <2>6
    <3> QED
      BY <2>4, <2>5, <3>1
  <2> QED
    BY <2>6, <2>7
<1> QED
  BY <1>1, RankingAlways, PTL
-----------------------------------------------------------------------------
(***************************************************************************)
(* Better in every factor is scored higher.                                *)
(***************************************************************************)

\* No more stocks are scored than there are tickers.
LEMMA FieldSize ==
    ASSUME NEW stocks, Field(stocks)
    PROVE  Cardinality(stocks) <= Cardinality(Tickers)
<1> DEFINE f == [s \in stocks |-> s.ticker]
<1>1. \A s \in stocks : s.ticker \in Tickers
  BY EligibleFields DEF Field
<1>2. f \in Injection(stocks, Tickers)
  BY <1>1 DEF Field, Injection, IsInjective
<1>3. IsFiniteSet(Tickers)
  BY RankingAssumption
<1> HIDE DEF f
<1> QED
  BY <1>2, <1>3, FS_Injection

\* Unit is a multiple of every divisor that occurs, so no points are rounded.
LEMMA PointsAreExact ==
    ASSUME NEW stocks, Field(stocks), NEW k \in Factors,
           Cardinality(Present(k, stocks)) \notin {0, 1}
    PROVE  \E q \in Nat \ {0} :
              /\ Unit = 2 * ((Cardinality(Present(k, stocks)) - 1) * q)
              /\ \A s \in stocks :
                    Points(k, s, stocks)
                      = (2 * Cardinality(Below(k, s, stocks))
                           + Cardinality(Level(k, s, stocks)) - 1) * q
<1> DEFINE n == Cardinality(Present(k, stocks))
           d == 2 * (n - 1)
           q == Unit \div d
<1>1. n \in Nat /\ n <= Cardinality(stocks) /\ n # 0 /\ n # 1
  <2>1. Present(k, stocks) \in SUBSET stocks
    BY DEF Present
  <2>2. IsFiniteSet(Present(k, stocks)) /\ n <= Cardinality(stocks)
    BY <2>1, FS_Subset DEF Field
  <2> QED
    BY <2>2, FS_CardinalityType
<1>2. Cardinality(stocks) <= Cardinality(Tickers) /\ Cardinality(Tickers) \in Nat
      /\ Cardinality(stocks) \in Nat
  BY FieldSize, RankingAssumption, FS_CardinalityType DEF Field
<1>3. Unit \in Nat \ {0}
  BY RankingAssumption
<1>4. n - 1 \in 1 .. Cardinality(Tickers)
  BY <1>1, <1>2
<1>5. Unit % d = 0
  BY <1>4, RankingAssumption
<1>6. d \in Nat /\ d > 0
  BY <1>4
<1> HIDE DEF d
<1>7. Unit = d * q /\ q \in Int
  BY <1>3, <1>5, <1>6
<1> HIDE DEF q
<1>8. q \in Nat \ {0}
  BY <1>3, <1>6, <1>7
<1>9. ASSUME NEW s \in stocks
      PROVE  Points(k, s, stocks)
               = (2 * Cardinality(Below(k, s, stocks)) + Cardinality(Level(k, s, stocks)) - 1) * q
  <2> DEFINE y == 2 * Cardinality(Below(k, s, stocks)) + Cardinality(Level(k, s, stocks)) - 1
  <2>1. y \in Int
    BY Counts DEF Field
  <2>2. Points(k, s, stocks) = (y * Unit) \div d
    BY DEF Points, d
  <2> HIDE DEF y
  <2>3. y * Unit = d * (y * q) /\ y * q \in Int
    BY <1>6, <1>7, <1>8, <2>1
  <2>4. \A z \in Int : (d * z) \div d = z
    BY <1>6
  <2>5. Points(k, s, stocks) = y * q
    BY <2>2, <2>3, <2>4
  <2> QED
    BY <2>5 DEF y
<1>10. Unit = 2 * ((n - 1) * q)
  BY <1>1, <1>7, <1>8 DEF d
<1> QED
  BY <1>8, <1>9, <1>10

\* Two stocks that have the factor: the greater value has more points, by two
\* ranks at least, and equal values have equal points.
LEMMA PointsGrow ==
    ASSUME NEW stocks, Field(stocks), NEW a \in stocks, NEW b \in stocks,
           NEW k \in Factors, Has(k, a), Has(k, b)
    PROVE  /\ Points(k, a, stocks) \in Int \/ Cardinality(Present(k, stocks)) = 1
           /\ Less(Factor(k, b), Factor(k, a)) =>
                 /\ Cardinality(Present(k, stocks)) # 1
                 /\ Points(k, b, stocks) < Points(k, a, stocks)
           /\ Same(Factor(k, b), Factor(k, a)) =>
                 Points(k, b, stocks) = Points(k, a, stocks)
<1> DEFINE all == Present(k, stocks)
           n == Cardinality(all)
           la == Cardinality(Below(k, a, stocks))  ea == Cardinality(Level(k, a, stocks))
           lb == Cardinality(Below(k, b, stocks))  eb == Cardinality(Level(k, b, stocks))
<1>1. /\ IsFiniteSet(stocks)
      /\ a \in all /\ b \in all /\ all \subseteq stocks
      /\ \A t \in all : Factor(k, t) \in Fractions
  BY FactorIsFraction DEF Present, Field
<1>2. /\ n \in Nat /\ la \in Nat /\ ea \in Nat /\ lb \in Nat /\ eb \in Nat /\ n # 0
      /\ n <= Cardinality(stocks)
      /\ IsFiniteSet(Below(k, a, stocks)) /\ IsFiniteSet(Below(k, b, stocks))
      /\ IsFiniteSet(Level(k, a, stocks)) /\ IsFiniteSet(Level(k, b, stocks))
  BY <1>1, Counts
<1>3. /\ a \in Level(k, a, stocks) /\ b \in Level(k, b, stocks)
  BY <1>1, LessOrSame DEF Level
<1>4. ea # 0 /\ eb # 0
  BY <1>2, <1>3, FS_EmptySet
<1>7. ASSUME n # 1
      PROVE  \E q \in Nat \ {0} :
                /\ Points(k, a, stocks) = (2 * la + ea - 1) * q
                /\ Points(k, b, stocks) = (2 * lb + eb - 1) * q
  BY <1>2, <1>7, PointsAreExact
<1>8. ASSUME Less(Factor(k, b), Factor(k, a))
      PROVE  n # 1 /\ lb + eb <= la
  <2>1. a # b
    BY <1>1, <1>8, LessOrSame
  <2>2. n # 1
    <3> SUFFICES ASSUME n = 1 PROVE FALSE
      OBVIOUS
    <3>1. IsFiniteSet(all)
      BY <1>1, Counts
    <3>2. \E x : all = {x}
      BY <3>1, FS_Singleton
    <3> QED
      BY <1>1, <2>1, <3>2
  <2> DEFINE B == Below(k, b, stocks)
             E == Level(k, b, stocks)
  <2>3. B \cap E = {} /\ B \cup E \subseteq Below(k, a, stocks)
    BY <1>1, <1>8, LessThrough, LessOrSame DEF Below, Level
  <2>4. Cardinality(B \cup E) = lb + eb
    <3>1. Cardinality(B \cup E) = Cardinality(B) + Cardinality(E) - Cardinality(B \cap E)
      BY <1>2, FS_Union
    <3>2. Cardinality(B \cap E) = 0
      BY <2>3, FS_EmptySet
    <3> QED
      BY <1>2, <3>1, <3>2
  <2>5. Cardinality(B \cup E) <= la
    BY <1>2, <2>3, FS_Subset
  <2> QED
    BY <2>2, <2>4, <2>5
<1>9. ASSUME Same(Factor(k, b), Factor(k, a))
      PROVE  Points(k, b, stocks) = Points(k, a, stocks)
  <2>1. Below(k, b, stocks) = Below(k, a, stocks) /\ Level(k, b, stocks) = Level(k, a, stocks)
    BY <1>1, <1>9, LessThrough, LessOrSame DEF Below, Level
  <2> QED
    BY <2>1 DEF Points
<1>10. ASSUME Less(Factor(k, b), Factor(k, a))
       PROVE  Points(k, b, stocks) < Points(k, a, stocks)
  <2>1. PICK q \in Nat \ {0} : /\ Points(k, a, stocks) = (2 * la + ea - 1) * q
                               /\ Points(k, b, stocks) = (2 * lb + eb - 1) * q
    BY <1>7, <1>8, <1>10
  <2>2. lb + eb <= la
    BY <1>8, <1>10
  <2> HIDE DEF la, lb, ea, eb
  <2> DEFINE x == 2 * la + ea - 1
             y == 2 * lb + eb - 1
  <2>3. x \in Int /\ y \in Int /\ y < x
    BY <1>2, <1>4, <2>2
  <2> HIDE DEF x, y
  <2>4. q * y < q * x /\ x * q = q * x /\ y * q = q * y
    BY <2>3, Scaled
  <2> QED
    BY <2>1, <2>4 DEF x, y
<1>11. n # 1 => Points(k, a, stocks) \in Int
  <2> SUFFICES ASSUME n # 1 PROVE Points(k, a, stocks) \in Int
    OBVIOUS
  <2>1. PICK q \in Nat \ {0} : Points(k, a, stocks) = (2 * la + ea - 1) * q
    BY <1>7
  <2> QED
    BY <1>2, <2>1
<1> QED
  BY <1>8, <1>9, <1>10, <1>11

\* At least as good in a factor is worth at least as much, better is worth more.
LEMMA PercentileFollows ==
    ASSUME NEW stocks, Field(stocks), NEW a \in stocks, NEW b \in stocks,
           NEW k \in Factors, Has(k, a), Has(k, b)
    PROVE  /\ AtLeast(k, a, b) => Percentile(k, b, stocks) <= Percentile(k, a, stocks)
           /\ ~AtLeast(k, b, a) => Percentile(k, b, stocks) < Percentile(k, a, stocks)
<1> DEFINE x == Factor(k, a)
           y == Factor(k, b)
           one == Cardinality(Present(k, stocks)) = 1
<1>1. Less(x, y) \/ Same(y, x) \/ Less(y, x)
  <2>1. x \in Fractions /\ y \in Fractions
    BY FactorIsFraction DEF Field
  <2> QED
    BY <2>1, LessOrSame
<1>2. Percentile(k, a, stocks) \in Int /\ Percentile(k, b, stocks) \in Int
  BY PercentileInt DEF Field
<1>3. ASSUME one PROVE Percentile(k, a, stocks) = Percentile(k, b, stocks)
  BY <1>3, PercentileIs
<1>4. ASSUME ~one
      PROVE  /\ k \in LowerIsBetter =>
                   /\ Percentile(k, a, stocks) = Unit - Points(k, a, stocks)
                   /\ Percentile(k, b, stocks) = Unit - Points(k, b, stocks)
             /\ k \notin LowerIsBetter =>
                   /\ Percentile(k, a, stocks) = Points(k, a, stocks)
                   /\ Percentile(k, b, stocks) = Points(k, b, stocks)
  BY <1>4, PercentileIs
<1>5. ~one => Points(k, a, stocks) \in Int /\ Points(k, b, stocks) \in Int
  BY PointsGrow
<1>6. /\ Less(y, x) => ~one /\ Points(k, b, stocks) < Points(k, a, stocks)
      /\ Less(x, y) => ~one /\ Points(k, a, stocks) < Points(k, b, stocks)
      /\ Same(y, x) => Points(k, b, stocks) = Points(k, a, stocks)
  BY PointsGrow
<1>7. /\ AtLeast(k, a, b) <=> IF k \in LowerIsBetter THEN ~Less(y, x) ELSE ~Less(x, y)
      /\ ~AtLeast(k, b, a) <=> IF k \in LowerIsBetter THEN Less(x, y) ELSE Less(y, x)
  BY DEF AtLeast
<1>8. Unit \in Int
  BY RankingAssumption
<1> DEFINE pa == Points(k, a, stocks)  pb == Points(k, b, stocks)
<1> HIDE DEF x, y, one, pa, pb
<1>9. CASE k \in LowerIsBetter
  BY <1>1, <1>2, <1>3, <1>4, <1>5, <1>6, <1>7, <1>8, <1>9
<1>10. CASE k \notin LowerIsBetter
  BY <1>1, <1>2, <1>3, <1>4, <1>5, <1>6, <1>7, <1>8, <1>10
<1> QED
  BY <1>9, <1>10

\* A stock that dominates another has the higher combined score.
LEMMA DominatorScoresHigher ==
    ASSUME NEW stocks, Field(stocks), NEW a \in stocks, NEW b \in stocks, Dominates(a, b)
    PROVE  GLScore(b, stocks) < GLScore(a, stocks)
<1> DEFINE A == [k \in Factors |-> Percentile(k, a, stocks)]
           B == [k \in Factors |-> Percentile(k, b, stocks)]
<1>1. \A k \in Factors : A[k] \in Int /\ B[k] \in Int
  BY PercentileInt DEF Field
<1>2. \A k \in Factors : B[k] <= A[k]
  BY PercentileFollows DEF Dominates
<1>3. \E k \in Factors : B[k] < A[k]
  BY PercentileFollows DEF Dominates
<1>4. /\ GrahamScore(a, stocks) = 40 * A["mos"] + 20 * A["pe"] + 15 * A["pb"] + 15 * A["eps"] + 10 * A["roe"]
      /\ GrahamScore(b, stocks) = 40 * B["mos"] + 20 * B["pe"] + 15 * B["pb"] + 15 * B["eps"] + 10 * B["roe"]
      /\ LynchScore(a, stocks) = 50 * A["peg"] + 25 * A["eps"] + 15 * A["rev"] + 10 * A["roe"]
      /\ LynchScore(b, stocks) = 50 * B["peg"] + 25 * B["eps"] + 15 * B["rev"] + 10 * B["roe"]
  BY DEF GrahamScore, LynchScore, Factors
<1> HIDE DEF A, B
<1>5. A["mos"] + A["pe"] + A["pb"] + A["eps"] + A["roe"] + A["peg"] + A["rev"]
      > B["mos"] + B["pe"] + B["pb"] + B["eps"] + B["roe"] + B["peg"] + B["rev"]
  BY <1>1, <1>2, <1>3 DEF Factors
<1> QED
  BY <1>1, <1>2, <1>4, <1>5 DEF GLScore, Factors

\* A stock at least as good in every factor and better in one is ranked above
\* the other, or the other is not ranked (ranking.go:96-192, scoring.go).
THEOREM BetterIsRankedHigher == Spec => []BetterRanksHigher
<1>1. RankingInv => BetterRanksHigher
  <2> SUFFICES ASSUME RankingInv, pc = "done", NEW a \in mids, NEW b \in mids,
                      Dominates(a, b), NEW n \in DOMAIN out, out[n] = b
               PROVE  \E m \in 1 .. n - 1 : out[m] = a
    BY DEF BetterRanksHigher
  <2>1. Field(mids) /\ IsFiniteSet(mids)
    BY KeptAreWinners DEF RankingInv, Field
  <2>2. PICK o \in Orders(mids) : out = Top(o)
    BY DEF RankingInv
  <2>3. o \in Sortings(mids, RankedAhead(mids))
    BY DEF Orders, RankedAhead
  <2>4. <<a, b>> \in RankedAhead(mids)
    <3>1. GLScore(b, mids) < GLScore(a, mids)
          /\ GLScore(a, mids) \in Int /\ GLScore(b, mids) \in Int
      BY <2>1, DominatorScoresHigher, ScoresInt
    <3>2. Keys(mids)[a][1] = <<GLScore(a, mids), 1>> /\ Keys(mids)[b][1] = <<GLScore(b, mids), 1>>
      BY <2>1, KeysComparable
    <3>3. Less(Keys(mids)[b][1], Keys(mids)[a][1])
      BY <3>1, <3>2 DEF Less
    <3> QED
      BY <3>3 DEF Before, RankedAhead
  <2>5. /\ Cardinality(mids) \in Nat /\ DOMAIN out = 1 .. Len(out)
        /\ Len(out) \in Nat /\ Len(out) <= Cardinality(mids)
        /\ \A j \in 1 .. Len(out) : j \in 1 .. Cardinality(mids) /\ out[j] = o[j]
    BY <2>1, <2>2, TopOf
  <2>6. PICK m \in 1 .. Cardinality(mids) : o[m] = a
    BY <2>1, <2>3, StocksInOrder, SortedPlaces
  <2>7. m < n
    BY <2>1, <2>3, <2>4, <2>5, <2>6, StocksInOrder, SortedPlaces
  <2>8. m \in 1 .. n - 1 /\ m \in 1 .. Len(out)
    BY <2>5, <2>7
  <2> QED
    BY <2>5, <2>6, <2>8
<1> QED
  BY <1>1, RankingAlways, PTL
-----------------------------------------------------------------------------
(***************************************************************************)
(* The Gem Sentinel.                                                       *)
(***************************************************************************)
LEMMA OverIsFraction ==
    ASSUME NEW x \in Optional, NEW y \in Optional
    PROVE  Value(x) \in Int /\ Value(y) \in Int /\ Over(x, y) \in Fractions
<1>1. Value(x) \in Int /\ Value(y) \in Int
  BY DEF Value, Optional
<1>2. CASE Value(y) <= 0
  BY <1>1, <1>2 DEF Over, Fractions
<1>3. CASE ~(Value(y) <= 0)
  BY <1>1, <1>3 DEF Over, Fractions
<1> QED
  BY <1>1, <1>2, <1>3

LEMMA RoundIsInt ==
    ASSUME NEW x \in Fractions
    PROVE  Round(x) \in Int
<1> DEFINE a == x[1]
           b == x[2]
<1>1. a \in Int /\ b \in Nat /\ b > 0
  BY DEF Fractions
<1>2. Round(x) = IF a >= 0 THEN (2 * a + b) \div (2 * b) ELSE -((-2 * a + b) \div (2 * b))
  BY DEF Round
<1> HIDE DEF a, b
<1>3. /\ 2 * a + b \in Int /\ -2 * a + b \in Int /\ 2 * b \in Nat /\ 2 * b > 0
  BY <1>1
<1>4. \A p \in Int, q \in Nat : q > 0 => p \div q \in Int
  OBVIOUS
<1>5. (2 * a + b) \div (2 * b) \in Int /\ (-2 * a + b) \div (2 * b) \in Int
  BY <1>3, <1>4
<1> QED
  BY <1>2, <1>5

LEMMA SpringateIsInt ==
    ASSUME NEW s \in Snapshot
    PROVE  Springate(s) \in Int
<1> DEFINE x == 10300 * Value(s.wc) + 30700 * Value(s.ebit) + 4000 * Value(s.revenue)
           y == 6600 * Value(s.ebt)
           a == Over(x, s.ta)
           b == Over(y, s.cl)
<1>1. x \in Optional /\ y \in Optional
  <2>1. Value(s.wc) \in Int /\ Value(s.ebit) \in Int /\ Value(s.revenue) \in Int
        /\ Value(s.ebt) \in Int
    BY SnapshotFields, OverIsFraction
  <2> QED
    BY <2>1 DEF Optional
<1>2. a \in Fractions /\ b \in Fractions
  BY <1>1, SnapshotFields, OverIsFraction
<1>3. Springate(s) = Round(Plus(a, b))
  BY DEF Springate
<1> HIDE DEF a, b
<1>4. a[1] \in Int /\ b[1] \in Int /\ a[2] \in Nat \ {0} /\ b[2] \in Nat \ {0}
  BY <1>2 DEF Fractions
<1>5. a[1] * b[2] \in Int /\ b[1] * a[2] \in Int /\ a[2] * b[2] \in Nat \ {0}
  BY <1>4
<1>6. Plus(a, b) \in Fractions
  BY <1>5 DEF Plus, Fractions
<1> QED
  BY <1>3, <1>6, RoundIsInt

WorsePairs(rows) == {p \in rows \X rows : Worse(p[1], p[2])}

\* The rows of the Gem Sentinel, one for each ticker, and the comparison given
\* to its sort.Slice: scores first, then tickers.
LEMMA ScannedInOrder ==
    ASSUME NEW list \in Seq(Snapshot)
    PROVE  /\ IsFiniteSet(Scanned(list))
           /\ \A r \in Scanned(list) : r.score \in Int /\ r.ticker \in Nat
           /\ StrictOrder(Scanned(list), WorsePairs(Scanned(list)))
<1> DEFINE W == {t \in Newest(list) : t.ticker # NoTicker}
           rows == Scanned(list)
           f == [s \in W |-> Row(s)]
<1>1. /\ IsFiniteSet(Newest(list)) /\ Newest(list) \subseteq Snapshot
      /\ \A s, t \in Newest(list) : s.ticker = t.ticker => s = t
  <2>1. Len(list) \in 0 .. Len(list) /\ Newest(list) = Wins(list, Len(list))
    BY NewestAreWinners, SnapshotsOf
  <2> QED
    BY <2>1, WinsFinite, OneWinner
<1>2. IsFiniteSet(W)
  BY <1>1, FS_Subset
<1>3. f \in Surjection(W, rows)
  BY DEF Surjection, Scanned
<1>4. IsFiniteSet(rows)
  <2> HIDE DEF f, W, rows
  <2> QED
    BY <1>2, <1>3, FS_Surjection
<1>5. ASSUME NEW s \in W
      PROVE  /\ Row(s).score \in Int /\ Row(s).ticker \in Nat
             /\ Row(s).ticker = s.ticker
  <2>1. s.ticker \in Tickers /\ Springate(s) \in Int
    BY <1>1, SnapshotFields, SpringateIsInt
  <2>2. Row(s).ticker = s.ticker /\ Row(s).score = Springate(s)
    BY DEF Row
  <2> QED
    BY <2>1, <2>2, RankingAssumption
<1>6. \A r \in rows : r.score \in Int /\ r.ticker \in Nat
  BY <1>5 DEF Scanned
<1>7. \A q, r \in rows : q.ticker = r.ticker => q = r
  BY <1>1, <1>5 DEF Scanned
<1>8. \A q, r \in rows : <<q, r>> \in WorsePairs(rows) <=>
        \/ q.score < r.score
        \/ q.score = r.score /\ q.ticker < r.ticker
  BY DEF WorsePairs, Worse
<1> HIDE DEF rows
<1>9. StrictOrder(rows, WorsePairs(rows))
  BY <1>6, <1>7, <1>8 DEF StrictOrder
<1> QED
  BY <1>4, <1>6, <1>9 DEF rows

\* From the same snapshots there is one watchlist, whatever order the map is
\* visited in and however the sort treats equals (ranking.go:196-248).
THEOREM WatchlistIsTheSame == Spec => []WatchlistIsDefinite
<1>1. RankingInv => WatchlistIsDefinite
  <2> SUFFICES ASSUME RankingInv PROVE Cardinality(Watchlists(snaps)) = 1
    BY DEF WatchlistIsDefinite
  <2>1. snaps \in Seq(Snapshot)
    BY DEF RankingInv
  <2>2. PICK o : Sorted(Scanned(snaps)) = {o}
    BY <2>1, ScannedInOrder, SortingsAreOne DEF Sorted, WorsePairs
  <2>3. Watchlists(snaps) = {Cut(o)}
    BY <2>2 DEF Watchlists
  <2> QED
    BY <2>3, FS_Singleton
<1> QED
  BY <1>1, RankingAlways, PTL

\* Of the N rows in o, the first k score below the cutoff.
Splits(o, N, cutoff, k) ==
    /\ N \in Nat /\ k \in 0 .. N
    /\ o = [j \in 1 .. N |-> o[j]]
    /\ \A j \in 1 .. N : o[j].score < cutoff <=> j <= k

\* A list in the order of the scores is filtered by taking a prefix of it.
LEMMA FilterTakesPrefix ==
    ASSUME NEW o, NEW N, NEW cutoff, NEW k, Splits(o, N, cutoff, k)
    PROVE  ScoredBelow(cutoff, o) = [j \in 1 .. k |-> o[j]]
<1> DEFINE rows == {o[j] : j \in 1 .. N}
<1>0. /\ N \in Nat /\ k \in 0 .. N /\ o \in [1 .. N -> rows]
      /\ \A j \in 1 .. N : o[j].score < cutoff <=> j <= k
  BY DEF Splits
<1> HIDE DEF rows
<1> DEFINE round(f, n) == IF n = 0 THEN <<>>
                          ELSE IF o[n].score < cutoff THEN Append(f[n - 1], o[n]) ELSE f[n - 1]
           loop(f) == f = [n \in 0 .. Len(o) |-> round(f, n)]
           first(n) == [j \in 1 .. n |-> o[j]]
           least(n) == IF n <= k THEN n ELSE k
           g == [n \in 0 .. Len(o) |-> first(least(n))]
           h == CHOOSE f : loop(f)
<1>1. Len(o) = N /\ o \in Seq(rows) /\ N \in 0 .. N /\ 0 \in 0 .. N
  BY <1>0
<1>2. \A n \in 0 .. N : g[n] = first(least(n))
  BY <1>0, <1>1
<1>3. ASSUME NEW n \in 0 .. N PROVE g[n] = round(g, n)
  <2>1. CASE n = 0
    <3>1. g[n] = <<>>
      BY <1>2, <2>1
    <3> QED
      BY <2>1, <3>1
  <2>2. CASE n # 0 /\ n <= k
    <3>1. n - 1 \in 0 .. N /\ n - 1 <= k /\ n \in 1 .. N
      BY <1>0, <2>2
    <3>2. g[n] = first(n) /\ g[n - 1] = first(n - 1) /\ o[n].score < cutoff
      BY <1>0, <1>2, <2>2, <3>1
    <3>3. first(n) = Append(first(n - 1), o[n])
      <4>1. first(n - 1) \in Seq(rows) /\ Len(first(n - 1)) = n - 1 /\ o[n] \in rows
        BY <1>0, <3>1
      <4>2. Append(first(n - 1), o[n])
              = [j \in 1 .. n |-> IF j = n THEN o[n] ELSE first(n - 1)[j]]
        BY <3>1, <4>1
      <4> QED
        BY <3>1, <4>2
    <3> QED
      BY <2>2, <3>2, <3>3
  <2>3. CASE n # 0 /\ ~(n <= k)
    <3>1. n - 1 \in 0 .. N /\ n \in 1 .. N /\ ~(o[n].score < cutoff) /\ least(n - 1) = k
          /\ least(n) = k
      BY <1>0, <2>3
    <3>2. g[n] = first(k) /\ g[n - 1] = first(k)
      <4> HIDE DEF g, first, least
      <4> QED
        BY <1>2, <3>1
    <3> QED
      BY <2>3, <3>1, <3>2
  <2> QED
    BY <2>1, <2>2, <2>3
<1>4. loop(g)
  BY <1>1, <1>3
<1>5. loop(h)
  <2> HIDE DEF g, loop
  <2> QED
    BY <1>4
<1>6. \A n \in 0 .. N : h[n] = round(h, n)
  <2> HIDE DEF h, g
  <2> QED
    BY <1>1, <1>5
<1>7. ASSUME NEW n \in 0 .. N PROVE h[n] = g[n]
  <2> DEFINE P == {m \in Nat : m <= N => h[m] = g[m]}
  <2> HIDE DEF g, h
  <2>1. 0 \in P
    BY <1>1, <1>3, <1>6
  <2>2. ASSUME NEW m \in Nat, m \in P PROVE m + 1 \in P
    <3> SUFFICES ASSUME m + 1 <= N PROVE h[m + 1] = g[m + 1]
      OBVIOUS
    <3>1. m + 1 \in 0 .. N /\ m + 1 # 0 /\ (m + 1) - 1 = m /\ h[m] = g[m]
      BY <1>0, <2>2
    <3> QED
      BY <1>3, <1>6, <3>1
  <2>3. \A m \in Nat : m \in P
    <3> HIDE DEF P
    <3> QED
      BY <2>1, <2>2, Induction
  <2> QED
    BY <2>3
<1>8. ScoredBelow(cutoff, o) = h[N]
  BY <1>1 DEF ScoredBelow
<1> HIDE DEF h, g
<1>9. ScoredBelow(cutoff, o) = first(least(N))
  BY <1>1, <1>2, <1>7, <1>8
<1> QED
  BY <1>0, <1>9

\* The cut leaves a prefix of the sorted rows: of the k in distress, or of all N
\* if there are none, as many as the list may have.
Leaves(N, k) == LET m == IF k = 0 THEN N ELSE k
                IN IF m > SentinelTop THEN SentinelTop ELSE m

LEMMA CutTakesPrefix ==
    ASSUME NEW o, NEW N, NEW k, Splits(o, N, CutoffDistress, k)
    PROVE  Cut(o) = [j \in 1 .. Leaves(N, k) |-> o[j]]
<1> DEFINE m == IF k = 0 THEN N ELSE k
           c == IF m > SentinelTop THEN SentinelTop ELSE m
           first(n) == [j \in 1 .. n |-> o[j]]
           rows == {o[j] : j \in 1 .. N}
           distressed == ScoredBelow(CutoffDistress, o)
           list == IF distressed = <<>> THEN o ELSE distressed
<1>0. N \in Nat /\ k \in 0 .. N /\ o \in [1 .. N -> rows]
  BY DEF Splits
<1> HIDE DEF rows
<1>1. SentinelTop \in Nat \ {0}
  BY SentinelAssumption
<1>2. distressed = first(k)
  BY FilterTakesPrefix
<1>3. list = first(m)
  <2>1. CASE k = 0
    <3>1. distressed = <<>>
      BY <1>2, <2>1
    <3>2. o = first(N)
      BY <1>0
    <3> QED
      BY <2>1, <3>1, <3>2
  <2>2. CASE k # 0
    <3>1. Len(distressed) = k
      BY <1>0, <1>2
    <3>2. distressed # <<>>
      BY <2>2, <3>1
    <3> QED
      BY <1>2, <2>2, <3>2
  <2> QED
    BY <2>1, <2>2
<1>4. m \in 0 .. N /\ c \in 0 .. m
  BY <1>0, <1>1
<1>5. Cut(o) = TopOfList(list)
  BY DEF Cut
<1> HIDE DEF list, m, c
<1>6. first(m) \in Seq(rows) /\ Len(first(m)) = m
  BY <1>0, <1>4
<1>7. TopOfList(first(m)) = SubSeq(first(m), 1, c)
  BY <1>6 DEF TopOfList, c
<1>8. SubSeq(first(m), 1, c) = [j \in 1 .. c |-> first(m)[j]]
  BY <1>4, <1>6
<1>9. [j \in 1 .. c |-> first(m)[j]] = first(c)
  BY <1>0, <1>4
<1> QED
  BY <1>3, <1>5, <1>7, <1>8, <1>9 DEF m, c, Leaves

LEMMA ZoneIsHealthy ==
    ASSUME NEW x \in Int
    PROVE  Zone(x) = "HEALTHY" <=> ~(x < CutoffDistress)
BY DEF Zone, CutoffDistress, CutoffCritical

\* For any number of stocks and places the list is the worst first; a healthy
\* stock is on it only when nobody is in distress; and a stock is left out only
\* for worse ones that fill the list, or because it is healthy and others are
\* not (ranking.go:224-246).
THEOREM TheDistressedAreShown == Spec => []DistressIsShown
<1>1. RankingInv => DistressIsShown
  <2> SUFFICES ASSUME RankingInv, NEW list \in Watchlists(snaps)
               PROVE  LET shown == {list[n] : n \in DOMAIN list}
                          rows == Scanned(snaps)
                      IN /\ shown \subseteq rows
                         /\ \A i1, i2 \in DOMAIN list :
                               i1 < i2 => list[i1].score <= list[i2].score
                         /\ \A t \in shown : Zone(t.score) = "HEALTHY" =>
                               \A r \in rows : Zone(r.score) = "HEALTHY"
                         /\ \A r \in rows \ shown :
                               \/ /\ Len(list) = SentinelTop
                                  /\ \A t \in shown : t.score <= r.score
                               \/ /\ Zone(r.score) = "HEALTHY"
                                  /\ \E t \in shown : Zone(t.score) # "HEALTHY"
    BY DEF DistressIsShown
  <2> DEFINE rows == Scanned(snaps)
             N == Cardinality(rows)
             shown == {list[n] : n \in DOMAIN list}
  <2>1. /\ IsFiniteSet(rows) /\ StrictOrder(rows, WorsePairs(rows))
        /\ \A r \in rows : r.score \in Int
    BY ScannedInOrder DEF RankingInv
  <2>2. PICK o \in Sortings(rows, WorsePairs(rows)) : list = Cut(o)
    BY DEF Watchlists, Sorted, WorsePairs
  <2>3. /\ N \in Nat /\ o \in [1 .. N -> rows]
        /\ \A r \in rows : \E p \in 1 .. N : o[p] = r
        /\ \A p, q \in 1 .. N : p < q <=> <<o[p], o[q]>> \in WorsePairs(rows)
    BY <2>1, SortedPlaces
  <2>4. \A p, q \in 1 .. N : p < q => o[p].score <= o[q].score
    <3>1. \A q, r \in rows : <<q, r>> \in WorsePairs(rows) => q.score <= r.score
      BY <2>1 DEF WorsePairs, Worse
    <3> HIDE DEF rows, N
    <3> QED
      BY <2>3, <3>1
  <2> HIDE DEF rows, N
  <2>5. CutoffDistress \in Int
    BY DEF CutoffDistress
  <2>6. \E k \in 0 .. N : \A j \in 1 .. N : o[j].score < CutoffDistress <=> j <= k
    <3> DEFINE H == {j \in 1 .. N : ~(o[j].score < CutoffDistress)}
    <3>1. CASE H = {}
      <4>1. N \in 0 .. N /\ \A j \in 1 .. N : o[j].score < CutoffDistress <=> j <= N
        BY <2>3, <3>1
      <4> QED
        BY <4>1
    <3>2. CASE H # {}
      <4>1. H \subseteq Nat
        OBVIOUS
      <4>2. PICK p \in H : \A j \in H : p <= j
        <5> HIDE DEF H
        <5> QED
          BY <3>2, <4>1, Least
      <4>3. p - 1 \in 0 .. N
        BY <2>3
      <4>4. ASSUME NEW j \in 1 .. N
            PROVE  o[j].score < CutoffDistress <=> j <= p - 1
        <5>1. o[j].score \in Int /\ o[p].score \in Int /\ p \in 1 .. N
          BY <2>1, <2>3
        <5>2. p < j => ~(o[j].score < CutoffDistress)
          BY <2>4, <2>5, <5>1, <4>2
        <5>3. j < p => o[j].score < CutoffDistress
          BY <4>2, <5>1
        <5>4. j = p => ~(o[j].score < CutoffDistress)
          BY <4>2
        <5> QED
          BY <5>1, <5>2, <5>3, <5>4
      <4> QED
        BY <4>3, <4>4
    <3> QED
      BY <3>1, <3>2
  <2>7. PICK k \in 0 .. N : \A j \in 1 .. N : o[j].score < CutoffDistress <=> j <= k
    BY <2>6
  <2> DEFINE m == IF k = 0 THEN N ELSE k
             c == Leaves(N, k)
  <2>8. list = [j \in 1 .. c |-> o[j]]
    <3>1. Splits(o, N, CutoffDistress, k)
      BY <2>3, <2>7 DEF Splits
    <3> QED
      BY <2>2, <3>1, CutTakesPrefix
  <2>9. SentinelTop \in Nat \ {0}
    BY SentinelAssumption
  <2>10. c \in 0 .. N /\ c <= m /\ (c < SentinelTop => c = m) /\ c <= SentinelTop /\ (N # 0 => c # 0)
    BY <2>3, <2>9 DEF Leaves
  <2> HIDE DEF c
  <2>11. Len(list) = c /\ shown = {o[j] : j \in 1 .. c} /\ \A j \in 1 .. c : j \in 1 .. N
    <3>1. c \in Nat /\ \A j \in 1 .. c : j \in 1 .. N
      BY <2>3, <2>10
    <3>2. DOMAIN list = 1 .. c /\ \A j \in 1 .. c : list[j] = o[j]
      BY <2>8
    <3> QED
      BY <2>8, <3>1, <3>2
  <2>12. shown \subseteq rows
    BY <2>3, <2>11
  <2>13. \A i1, i2 \in DOMAIN list : i1 < i2 => list[i1].score <= list[i2].score
    <3>1. DOMAIN list = 1 .. c /\ \A n \in 1 .. c : list[n] = o[n] /\ n \in 1 .. N
      BY <2>8, <2>11
    <3> QED
      BY <2>4, <3>1
  <2>14. \A n \in 1 .. N : Zone(o[n].score) = "HEALTHY" <=> n > k
    <3> TAKE n \in 1 .. N
    <3>1. o[n].score \in Int
      BY <2>1, <2>3
    <3>2. Zone(o[n].score) = "HEALTHY" <=> ~(o[n].score < CutoffDistress)
      BY <3>1, ZoneIsHealthy
    <3> QED
      BY <2>7, <3>2
  <2>15. ASSUME NEW t \in shown, Zone(t.score) = "HEALTHY", NEW r \in rows
         PROVE  Zone(r.score) = "HEALTHY"
    <3>1. PICK n \in 1 .. c : o[n] = t
      BY <2>11
    <3>2. n \in 1 .. N /\ n > k
      BY <2>11, <2>14, <2>15, <3>1
    <3>3. k = 0
      BY <2>3, <2>10, <3>2
    <3>4. PICK p \in 1 .. N : o[p] = r
      BY <2>3
    <3>5. p > k
      BY <3>3
    <3> QED
      BY <2>14, <3>4, <3>5
  <2>16. ASSUME NEW r \in rows \ shown
         PROVE  \/ Len(list) = SentinelTop /\ \A t \in shown : t.score <= r.score
                \/ Zone(r.score) = "HEALTHY" /\ \E t \in shown : Zone(t.score) # "HEALTHY"
    <3>1. PICK p \in 1 .. N : o[p] = r
      BY <2>3
    <3>2. p > c
      BY <2>10, <2>11, <3>1
    <3>3. CASE c = SentinelTop
      <4>1. ASSUME NEW t \in shown PROVE t.score <= r.score
        <5>1. PICK n \in 1 .. c : o[n] = t
          BY <2>11
        <5>2. n \in 1 .. N /\ n < p
          BY <2>10, <2>11, <3>2
        <5> QED
          BY <2>4, <3>1, <5>1, <5>2
      <4> QED
        BY <2>11, <3>3, <4>1
    <3>4. CASE c # SentinelTop
      <4>1. c = m /\ k # 0 /\ c = k
        BY <2>9, <2>10, <3>2, <3>4
      <4>2. 1 \in 1 .. c /\ 1 \in 1 .. N /\ ~(1 > k)
        BY <2>11, <4>1
      <4>3. o[1] \in shown /\ Zone(o[1].score) # "HEALTHY"
        BY <2>11, <2>14, <4>2
      <4>4. p > k
        BY <3>2, <4>1
      <4>5. Zone(r.score) = "HEALTHY"
        BY <2>14, <3>1, <4>4
      <4> QED
        BY <4>3, <4>5
    <3> QED
      BY <3>3, <3>4
  <2> QED
    BY <2>12, <2>13, <2>15, <2>16 DEF rows
<1> QED
  BY <1>1, RankingAlways, PTL
-----------------------------------------------------------------------------
(***************************************************************************)
(* Sums over sets.  The sum of the community modules takes the elements in *)
(* the order of CHOOSE; Additive says what a sum is without an order.      *)
(***************************************************************************)

\* Induction over the subsets of a finite set, as a fact about a set of them.
LEMMA SetInduction ==
    ASSUME NEW S, IsFiniteSet(S), NEW P, {} \in P,
           \A s \in SUBSET S : s # {} /\ (\A x \in s : s \ {x} \in P) => s \in P
    PROVE  \A s \in SUBSET S : s \in P
<1> DEFINE Q == {n \in Nat : \A s \in SUBSET S : Cardinality(s) = n => s \in P}
<1>1. \A s \in SUBSET S : IsFiniteSet(s) /\ Cardinality(s) \in Nat
  BY FS_Subset, FS_CardinalityType
<1>2. 0 \in Q
  <2>1. \A s \in SUBSET S : Cardinality(s) = 0 => s = {}
    BY <1>1, FS_EmptySet
  <2> QED
    BY <2>1
<1>3. ASSUME NEW n \in Nat, n \in Q PROVE n + 1 \in Q
  <2> SUFFICES ASSUME NEW s \in SUBSET S, Cardinality(s) = n + 1 PROVE s \in P
    OBVIOUS
  <2>1. s # {}
    BY FS_EmptySet
  <2>2. ASSUME NEW x \in s PROVE Cardinality(s \ {x}) = n /\ s \ {x} \in SUBSET S
    <3>1. IsFiniteSet(s)
      BY <1>1
    <3>2. Cardinality(s \ {x}) = Cardinality(s) - 1
      BY <3>1, FS_RemoveElement
    <3> QED
      BY <3>2
  <2> QED
    BY <1>3, <2>1, <2>2
<1>4. \A n \in Nat : n \in Q
  <2> HIDE DEF Q
  <2> QED
    BY <1>2, <1>3, Induction
<1> QED
  BY <1>1, <1>4

\* a[s] is the sum of w[x] over the x in s, for every subset s of S.
Additive(w, S, a) ==
    /\ a \in [SUBSET S -> Int]
    /\ a[{}] = 0
    /\ \A x \in S : w[x] \in Int
    /\ \A s \in SUBSET S : \A x \in s : a[s] = w[x] + a[s \ {x}]

LEMMA SumExists ==
    ASSUME NEW S, IsFiniteSet(S), NEW w, \A x \in S : w[x] \in Int
    PROVE  \E a : Additive(w, S, a)
<1> DEFINE P == {s \in SUBSET S : \E a : Additive(w, s, a)}
<1>1. {} \in P
  <2> DEFINE a == [s \in SUBSET {} |-> 0]
  <2>1. Additive(w, {}, a)
    BY DEF Additive
  <2> QED
    BY <2>1
<1>2. ASSUME NEW s \in SUBSET S, NEW x \in s, s \ {x} \in P PROVE s \in P
  <2> DEFINE r == s \ {x}
  <2>1. PICK b : Additive(w, r, b)
    BY <1>2
  <2> DEFINE a == [t \in SUBSET s |-> IF x \in t THEN w[x] + b[t \ {x}] ELSE b[t]]
  <2>2. \A t \in SUBSET s : /\ t \ {x} \in SUBSET r /\ b[t \ {x}] \in Int
                            /\ x \notin t => t \in SUBSET r /\ b[t] \in Int
    BY <2>1 DEF Additive
  <2>3. w[x] \in Int /\ \A y \in s : w[y] \in Int
    OBVIOUS
  <2>4. a \in [SUBSET s -> Int]
    <3>1. \A t \in SUBSET s : (IF x \in t THEN w[x] + b[t \ {x}] ELSE b[t]) \in Int
      BY <2>2, <2>3
    <3> QED
      BY <3>1
  <2>5. a[{}] = 0
    BY <2>1 DEF Additive
  <2>6. ASSUME NEW t \in SUBSET s, NEW y \in t PROVE a[t] = w[y] + a[t \ {y}]
    <3>0. t \ {y} \in SUBSET s
      OBVIOUS
    <3>1. CASE y = x
      <4>1. a[t] = w[x] + b[t \ {x}] /\ a[t \ {x}] = b[t \ {x}]
        BY <2>2, <3>0, <3>1
      <4> QED
        BY <3>1, <4>1
    <3>2. CASE y # x /\ x \in t
      <4>1. a[t] = w[x] + b[t \ {x}] /\ a[t \ {y}] = w[x] + b[(t \ {y}) \ {x}]
        BY <3>0, <3>2
      <4>2. b[t \ {x}] = w[y] + b[(t \ {x}) \ {y}]
        BY <2>1, <2>2, <3>2 DEF Additive
      <4>3. (t \ {x}) \ {y} = (t \ {y}) \ {x}
        OBVIOUS
      <4>4. b[(t \ {x}) \ {y}] \in Int /\ w[x] \in Int /\ w[y] \in Int
        BY <2>2, <2>3, <3>0, <4>3
      <4> DEFINE p == b[(t \ {x}) \ {y}]
      <4>5. a[t] = w[x] + (w[y] + p) /\ a[t \ {y}] = w[x] + p
        BY <4>1, <4>2, <4>3
      <4> HIDE DEF a, p
      <4> QED
        BY <4>4, <4>5 DEF p
    <3>3. CASE x \notin t
      <4>1. a[t] = b[t] /\ a[t \ {y}] = b[t \ {y}] /\ t \in SUBSET r
        BY <2>2, <3>0, <3>3
      <4>2. b[t] = w[y] + b[t \ {y}]
        BY <2>1, <4>1 DEF Additive
      <4> HIDE DEF a
      <4> QED
        BY <4>1, <4>2
    <3> QED
      BY <3>1, <3>2, <3>3
  <2> HIDE DEF a
  <2>7. Additive(w, s, a)
    BY <2>3, <2>4, <2>5, <2>6 DEF Additive
  <2> QED
    BY <2>7
<1>3. S \in P
  <2> HIDE DEF P
  <2>0. S \in SUBSET S
    OBVIOUS
  <2>1. \A s \in SUBSET S : s # {} /\ (\A x \in s : s \ {x} \in P) => s \in P
    BY <1>2
  <2>2. \A s \in SUBSET S : s \in P
    BY <1>1, <2>1, SetInduction
  <2> QED
    BY <2>0, <2>2
<1> QED
  BY <1>3

LEMMA OneSum ==
    ASSUME NEW S, IsFiniteSet(S), NEW u, NEW v, \A x \in S : u[x] = v[x],
           NEW a, Additive(u, S, a), NEW b, Additive(v, S, b)
    PROVE  \A s \in SUBSET S : a[s] = b[s]
<1> DEFINE P == {s \in SUBSET S : a[s] = b[s]}
<1>1. {} \in P
  BY DEF Additive
<1>2. ASSUME NEW s \in SUBSET S, NEW x \in s, s \ {x} \in P PROVE s \in P
  BY <1>2 DEF Additive
<1>3. \A s \in SUBSET S : s \in P
  <2> HIDE DEF P
  <2> QED
    BY <1>1, <1>2, SetInduction
<1> QED
  BY <1>3

PlusOver(S, u, v) == [x \in S |-> u[x] + v[x]]
TimesOver(S, k, u) == [x \in S |-> k * u[x]]
Part(T, a) == [s \in SUBSET T |-> a[s]]

LEMMA PlusAt ==
    ASSUME NEW S, NEW u, NEW v, NEW x \in S
    PROVE  PlusOver(S, u, v)[x] = u[x] + v[x]
BY DEF PlusOver

LEMMA TimesAt ==
    ASSUME NEW S, NEW k, NEW u, NEW x \in S
    PROVE  TimesOver(S, k, u)[x] = k * u[x]
BY DEF TimesOver

LEMMA SumOfSums ==
    ASSUME NEW S, NEW u, NEW a, Additive(u, S, a), NEW v, NEW b, Additive(v, S, b)
    PROVE  Additive(PlusOver(S, u, v), S, PlusOver(SUBSET S, a, b))
<1> DEFINE w == [x \in S |-> u[x] + v[x]]
           c == [s \in SUBSET S |-> a[s] + b[s]]
<1>1. c \in [SUBSET S -> Int] /\ c[{}] = 0 /\ \A x \in S : w[x] \in Int
  BY DEF Additive
<1>2. ASSUME NEW s \in SUBSET S, NEW x \in s PROVE c[s] = w[x] + c[s \ {x}]
  <2>1. s \ {x} \in SUBSET S /\ x \in S
    OBVIOUS
  <2>2. a[s] = u[x] + a[s \ {x}] /\ b[s] = v[x] + b[s \ {x}]
    BY DEF Additive
  <2>3. a[s \ {x}] \in Int /\ b[s \ {x}] \in Int /\ u[x] \in Int /\ v[x] \in Int
    BY <2>1 DEF Additive
  <2>4. c[s] = a[s] + b[s] /\ c[s \ {x}] = a[s \ {x}] + b[s \ {x}] /\ w[x] = u[x] + v[x]
    BY <2>1
  <2> HIDE DEF c, w
  <2> QED
    BY <2>2, <2>3, <2>4
<1> HIDE DEF c, w
<1>3. Additive(w, S, c)
  BY <1>1, <1>2 DEF Additive
<1> QED
  BY <1>3 DEF c, w, PlusOver

LEMMA ScaledSum ==
    ASSUME NEW S, NEW u, NEW a, Additive(u, S, a), NEW k \in Int
    PROVE  Additive(TimesOver(S, k, u), S, TimesOver(SUBSET S, k, a))
<1> DEFINE w == [x \in S |-> k * u[x]]
           c == [s \in SUBSET S |-> k * a[s]]
<1>1. c \in [SUBSET S -> Int] /\ c[{}] = 0 /\ \A x \in S : w[x] \in Int
  BY DEF Additive
<1>2. ASSUME NEW s \in SUBSET S, NEW x \in s PROVE c[s] = w[x] + c[s \ {x}]
  <2>1. s \ {x} \in SUBSET S /\ x \in S
    OBVIOUS
  <2>2. a[s] = u[x] + a[s \ {x}]
    BY DEF Additive
  <2>3. a[s \ {x}] \in Int /\ u[x] \in Int
    BY <2>1 DEF Additive
  <2>4. c[s] = k * a[s] /\ c[s \ {x}] = k * a[s \ {x}] /\ w[x] = k * u[x]
    BY <2>1
  <2>5. k * (u[x] + a[s \ {x}]) = k * u[x] + k * a[s \ {x}]
    BY <2>3
  <2> HIDE DEF c, w
  <2> QED
    BY <2>2, <2>4, <2>5
<1> HIDE DEF c, w
<1>3. Additive(w, S, c)
  BY <1>1, <1>2 DEF Additive
<1> QED
  BY <1>3 DEF c, w, TimesOver

\* The sum of ones is a count.
Ones(S, P) == [x \in S |-> IF x \in P THEN 1 ELSE 0]
Count(S, P) == [s \in SUBSET S |-> Cardinality(s \cap P)]

LEMMA SumOfOnes ==
    ASSUME NEW S, IsFiniteSet(S), NEW P
    PROVE  Additive(Ones(S, P), S, Count(S, P))
<1> DEFINE w == Ones(S, P)
           c == Count(S, P)
<1>1. \A s \in SUBSET S : /\ c[s] = Cardinality(s \cap P)
                          /\ IsFiniteSet(s \cap P) /\ Cardinality(s \cap P) \in Nat
  <2> TAKE s \in SUBSET S
  <2>1. s \cap P \in SUBSET S
    OBVIOUS
  <2>2. IsFiniteSet(s \cap P)
    BY <2>1, FS_Subset
  <2> QED
    BY <2>2, FS_CardinalityType DEF Count
<1>2. \A x \in S : w[x] = IF x \in P THEN 1 ELSE 0
  BY DEF Ones
<1>3. c \in [SUBSET S -> Int]
  <2>1. \A s \in SUBSET S : Cardinality(s \cap P) \in Int
    BY <1>1
  <2> QED
    BY <2>1 DEF Count
<1>4. c[{}] = 0
  <2>1. {} \cap P = {} /\ {} \in SUBSET S
    OBVIOUS
  <2> QED
    BY <1>1, <2>1, FS_EmptySet
<1>5. ASSUME NEW s \in SUBSET S, NEW x \in s PROVE c[s] = w[x] + c[s \ {x}]
  <2>1. (s \ {x}) \cap P = (s \cap P) \ {x} /\ s \ {x} \in SUBSET S
    OBVIOUS
  <2>2. Cardinality((s \cap P) \ {x})
          = IF x \in s \cap P THEN Cardinality(s \cap P) - 1 ELSE Cardinality(s \cap P)
    BY <1>1, FS_RemoveElement
  <2>3. c[s \ {x}] = Cardinality((s \cap P) \ {x}) /\ c[s] = Cardinality(s \cap P)
        /\ c[s] \in Nat
    BY <1>1, <2>1
  <2>4. w[x] = IF x \in s \cap P THEN 1 ELSE 0
    BY <1>2
  <2> HIDE DEF c, w
  <2> QED
    BY <2>2, <2>3, <2>4
<1> HIDE DEF c, w
<1>6. Additive(w, S, c)
  BY <1>2, <1>3, <1>4, <1>5 DEF Additive
<1> QED
  BY <1>6 DEF c, w

\* A sum over S is one over each part of S.
LEMMA PartialSum ==
    ASSUME NEW S, NEW u, NEW a, Additive(u, S, a), NEW T \in SUBSET S
    PROVE  Additive(u, T, Part(T, a))
<1> DEFINE c == [s \in SUBSET T |-> a[s]]
<1>1. \A s \in SUBSET T : c[s] = a[s] /\ s \in SUBSET S
  OBVIOUS
<1>2. c \in [SUBSET T -> Int] /\ c[{}] = 0
  BY DEF Additive
<1>3. \A s \in SUBSET T : \A x \in s : s \ {x} \in SUBSET T
  OBVIOUS
<1> HIDE DEF c
<1>4. Additive(u, T, c)
  BY <1>1, <1>2, <1>3 DEF Additive
<1> QED
  BY <1>4 DEF c, Part
-----------------------------------------------------------------------------
(***************************************************************************)
(* What the scores of a run add up to.                                     *)
(***************************************************************************)

\* Twice the rank that a stock has among A by a factor, less one.
Ranks(k, A) ==
    [s \in A |-> 2 * Cardinality({t \in A : Less(Factor(k, t), Factor(k, s))})
                   + Cardinality({t \in A : Same(Factor(k, t), Factor(k, s))})]

\* Whoever is added to A has a rank below those above him and shares one with
\* his equals, so that the ranks always add up to a square.
LEMMA RanksAddUp ==
    ASSUME NEW S, IsFiniteSet(S), NEW k, \A s \in S : Factor(k, s) \in Fractions
    PROVE  \E a : Additive(Ranks(k, S), S, a) /\ a[S] = Cardinality(S) * Cardinality(S)
<1> DEFINE P == {A \in SUBSET S : \E a : /\ Additive(Ranks(k, A), A, a)
                                          /\ a[A] = Cardinality(A) * Cardinality(A)}
           lower(A, s) == {t \in A : Less(Factor(k, t), Factor(k, s))}
           equal(A, s) == {t \in A : Same(Factor(k, t), Factor(k, s))}
<1>1. {} \in P
  <2> DEFINE a == [s \in SUBSET {} |-> 0]
  <2>1. Additive(Ranks(k, {}), {}, a)
    BY DEF Additive
  <2>2. a[{}] = 0 /\ Cardinality({}) = 0
    BY FS_EmptySet
  <2> HIDE DEF a
  <2> QED
    BY <2>1, <2>2
<1>2. ASSUME NEW A \in SUBSET S, NEW x \in A, A \ {x} \in P PROVE A \in P
  <2> DEFINE B == A \ {x}
             n == Cardinality(B)
             over == {s \in B : Less(Factor(k, x), Factor(k, s))}
             same == {s \in B : Same(Factor(k, x), Factor(k, s))}
             under == {s \in B : Less(Factor(k, s), Factor(k, x))}
  <2>1. PICK b : Additive(Ranks(k, B), B, b) /\ b[B] = n * n
    BY <1>2
  <2>2. /\ IsFiniteSet(A) /\ IsFiniteSet(B) /\ B \in SUBSET A /\ B \in SUBSET S /\ A = B \cup {x}
        /\ x \notin B
    <3>1. IsFiniteSet(A)
      BY FS_Subset
    <3> QED
      BY <3>1, FS_RemoveElement
  <2>3. n \in Nat /\ Cardinality(A) = n + 1
    <3>1. Cardinality(B \cup {x}) = n + 1
      BY <2>2, FS_AddElement
    <3> QED
      BY <2>2, <3>1, FS_CardinalityType
  <2>4. /\ IsFiniteSet(over) /\ IsFiniteSet(same) /\ IsFiniteSet(under)
        /\ Cardinality(over) \in Nat /\ Cardinality(same) \in Nat /\ Cardinality(under) \in Nat
    <3>1. over \in SUBSET B /\ same \in SUBSET B /\ under \in SUBSET B
      OBVIOUS
    <3>2. IsFiniteSet(over) /\ IsFiniteSet(same) /\ IsFiniteSet(under)
      BY <2>2, <3>1, FS_Subset
    <3> QED
      BY <3>2, FS_CardinalityType
  <2>5. n = Cardinality(over) + Cardinality(same) + Cardinality(under)
    <3>1. \A s \in B : Factor(k, s) \in Fractions /\ Factor(k, x) \in Fractions
      OBVIOUS
    <3>2. B = (over \cup same) \cup under
      BY <3>1, LessOrSame
    <3>3. over \cap same = {} /\ (over \cup same) \cap under = {}
      BY <3>1, LessOrSame
    <3> HIDE DEF over, same, under
    <3>4. Cardinality(over \cup same) = Cardinality(over) + Cardinality(same)
          /\ IsFiniteSet(over \cup same)
      <4>1. Cardinality(over \cup same)
              = Cardinality(over) + Cardinality(same) - Cardinality(over \cap same)
            /\ IsFiniteSet(over \cup same)
        BY <2>4, FS_Union
      <4> QED
        BY <2>4, <3>3, <4>1, FS_EmptySet
    <3>5. Cardinality((over \cup same) \cup under)
            = Cardinality(over \cup same) + Cardinality(under)
      <4>1. Cardinality((over \cup same) \cup under)
              = Cardinality(over \cup same) + Cardinality(under)
                  - Cardinality((over \cup same) \cap under)
        BY <2>4, <3>4, FS_Union
      <4>2. Cardinality((over \cup same) \cap under) = 0
        BY <3>3, FS_EmptySet
      <4> QED
        BY <2>4, <3>4, <4>1, <4>2
    <3> QED
      BY <3>2, <3>4, <3>5
  <2>6. ASSUME NEW s \in A
        PROVE  /\ IsFiniteSet(lower(B, s)) /\ Cardinality(lower(B, s)) \in Nat
               /\ IsFiniteSet(equal(B, s)) /\ Cardinality(equal(B, s)) \in Nat
               /\ Cardinality(lower(A, s)) = Cardinality(lower(B, s))
                     + IF Less(Factor(k, x), Factor(k, s)) THEN 1 ELSE 0
               /\ Cardinality(equal(A, s)) = Cardinality(equal(B, s))
                     + IF Same(Factor(k, x), Factor(k, s)) THEN 1 ELSE 0
    <3>1. lower(B, s) \in SUBSET B /\ equal(B, s) \in SUBSET B
      OBVIOUS
    <3>2. IsFiniteSet(lower(B, s)) /\ IsFiniteSet(equal(B, s))
      BY <2>2, <3>1, FS_Subset
    <3>3. Cardinality(lower(B, s)) \in Nat /\ Cardinality(equal(B, s)) \in Nat
      BY <3>2, FS_CardinalityType
    <3>4. lower(A, s) = IF Less(Factor(k, x), Factor(k, s))
                        THEN lower(B, s) \cup {x} ELSE lower(B, s)
      BY <2>2
    <3>5. equal(A, s) = IF Same(Factor(k, x), Factor(k, s))
                        THEN equal(B, s) \cup {x} ELSE equal(B, s)
      BY <2>2
    <3>6. x \notin lower(B, s) /\ x \notin equal(B, s)
      OBVIOUS
    <3> HIDE DEF lower, equal
    <3>7. Cardinality(lower(B, s) \cup {x}) = Cardinality(lower(B, s)) + 1
          /\ Cardinality(equal(B, s) \cup {x}) = Cardinality(equal(B, s)) + 1
      BY <3>2, <3>6, FS_AddElement
    <3> QED
      BY <3>2, <3>3, <3>4, <3>5, <3>7
  <2> DEFINE w == Ranks(k, A)
             v == Ranks(k, B)
  <2>7. /\ \A s \in A : w[s] = 2 * Cardinality(lower(A, s)) + Cardinality(equal(A, s))
        /\ \A s \in B : v[s] = 2 * Cardinality(lower(B, s)) + Cardinality(equal(B, s))
    BY DEF Ranks
  <2>8. \A s \in A : w[s] \in Int
    <3> HIDE DEF lower, equal, w, v
    <3> QED
      BY <2>6, <2>7
  <2>9. PICK a : Additive(w, A, a)
    BY <2>2, <2>8, SumExists
  <2>10. w[x] = 2 * Cardinality(under) + Cardinality(same) + 1
    <3>1. lower(B, x) = under
      OBVIOUS
    <3>2. equal(B, x) = same
      BY LessOrSame
    <3>3. ~Less(Factor(k, x), Factor(k, x)) /\ Same(Factor(k, x), Factor(k, x))
      BY LessOrSame
    <3> HIDE DEF lower, equal, under, same, w
    <3> QED
      BY <2>4, <2>6, <2>7, <3>1, <3>2, <3>3
  <2>11. a[B] = b[B] + 2 * Cardinality(over) + Cardinality(same)
    <3> DEFINE ones == Ones(B, over)
               twos == TimesOver(B, 2, ones)
               z == PlusOver(B, PlusOver(B, v, twos), Ones(B, same))
               d == PlusOver(SUBSET B, PlusOver(SUBSET B, b, TimesOver(SUBSET B, 2, Count(B, over))),
                             Count(B, same))
               c == Part(B, a)
    <3> HIDE DEF over, same, lower, equal, under, w, v
    <3>1. Additive(w, B, c)
      BY <2>2, <2>9, PartialSum
    <3>2. Additive(z, B, d)
      <4>1. Additive(Ones(B, over), B, Count(B, over)) /\ Additive(Ones(B, same), B, Count(B, same))
        BY <2>2, SumOfOnes
      <4>2. Additive(twos, B, TimesOver(SUBSET B, 2, Count(B, over)))
        BY <4>1, ScaledSum
      <4>3. Additive(PlusOver(B, v, twos), B,
                     PlusOver(SUBSET B, b, TimesOver(SUBSET B, 2, Count(B, over))))
        BY <2>1, <4>2, SumOfSums DEF v
      <4> QED
        BY <4>1, <4>3, SumOfSums
    <3>3. ASSUME NEW s \in B PROVE w[s] = z[s]
      <4>1. z[s] = (v[s] + 2 * Ones(B, over)[s]) + Ones(B, same)[s]
        BY DEF PlusOver, TimesOver
      <4>2. /\ Ones(B, over)[s] = IF Less(Factor(k, x), Factor(k, s)) THEN 1 ELSE 0
            /\ Ones(B, same)[s] = IF Same(Factor(k, x), Factor(k, s)) THEN 1 ELSE 0
        BY DEF Ones, over, same
      <4>3. s \in A
        OBVIOUS
      <4> HIDE DEF z, B
      <4> QED
        BY <2>6, <2>7, <4>1, <4>2, <4>3
    <3>4. c[B] = d[B]
      <4> HIDE DEF c, d, z, B
      <4> QED
        BY <2>2, <3>1, <3>2, <3>3, OneSum
    <3>5. c[B] = a[B] /\ d[B] = (b[B] + 2 * Count(B, over)[B]) + Count(B, same)[B]
      BY DEF Part, PlusOver, TimesOver
    <3>6. Count(B, over)[B] = Cardinality(over) /\ Count(B, same)[B] = Cardinality(same)
      <4>1. B \cap over = over /\ B \cap same = same
        BY DEF over, same
      <4> QED
        BY <4>1 DEF Count
    <3> QED
      BY <3>4, <3>5, <3>6
  <2>12. a[A] = w[x] + a[B]
    BY <2>2, <2>9 DEF Additive
  <2>13. a[A] = Cardinality(A) * Cardinality(A)
    <3> HIDE DEF w, n, over, same, under
    <3>1. a[A] = n * n + 2 * n + 1
      BY <2>1, <2>3, <2>4, <2>5, <2>10, <2>11, <2>12
    <3>2. (n + 1) * (n + 1) = n * n + 2 * n + 1
      BY <2>3
    <3> QED
      BY <2>3, <3>1, <3>2
  <2> QED
    BY <2>9, <2>13
<1>3. S \in P
  <2> HIDE DEF P
  <2>0. S \in SUBSET S
    OBVIOUS
  <2>1. \A s \in SUBSET S : s # {} /\ (\A x \in s : s \ {x} \in P) => s \in P
    BY <1>2
  <2>2. \A s \in SUBSET S : s \in P
    BY <1>1, <2>1, SetInduction
  <2> QED
    BY <2>0, <2>2
<1> QED
  BY <1>3

LEMMA SameSum ==
    ASSUME NEW S, NEW u, NEW a, Additive(u, S, a), NEW v, \A x \in S : v[x] = u[x]
    PROVE  Additive(v, S, a)
<1>1. \A s \in SUBSET S : \A x \in s : x \in S
  OBVIOUS
<1> QED
  BY <1>1 DEF Additive

\* Elements outside T may count as zero.
Beyond(T, u, S) == [x \in S |-> IF x \in T THEN u[x] ELSE 0]
Within(T, a, S) == [s \in SUBSET S |-> a[s \cap T]]

LEMMA ExtendedSum ==
    ASSUME NEW S, NEW T \in SUBSET S, NEW u, NEW a, Additive(u, T, a)
    PROVE  Additive(Beyond(T, u, S), S, Within(T, a, S))
<1> DEFINE w == Beyond(T, u, S)
           c == Within(T, a, S)
<1>1. /\ \A s \in SUBSET S : s \cap T \in SUBSET T /\ c[s] = a[s \cap T] /\ a[s \cap T] \in Int
      /\ \A x \in S : w[x] = IF x \in T THEN u[x] ELSE 0
  BY DEF Beyond, Within, Additive
<1>2. c \in [SUBSET S -> Int]
  <2>1. \A s \in SUBSET S : a[s \cap T] \in Int
    BY <1>1
  <2> QED
    BY <2>1 DEF Within
<1>3. c[{}] = 0
  <2>1. {} \cap T = {} /\ {} \in SUBSET S
    OBVIOUS
  <2> QED
    BY <1>1, <2>1 DEF Additive
<1>4. \A x \in S : w[x] \in Int
  BY <1>1 DEF Additive
<1>5. ASSUME NEW s \in SUBSET S, NEW x \in s PROVE c[s] = w[x] + c[s \ {x}]
  <2>1. s \ {x} \in SUBSET S /\ x \in S /\ (s \ {x}) \cap T = (s \cap T) \ {x}
    OBVIOUS
  <2>2. CASE x \in T
    <3>1. a[s \cap T] = u[x] + a[(s \cap T) \ {x}]
      BY <1>1, <2>2 DEF Additive
    <3> HIDE DEF c, w
    <3> QED
      BY <1>1, <2>1, <2>2, <3>1
  <2>3. CASE x \notin T
    <3>1. (s \cap T) \ {x} = s \cap T
      BY <2>3
    <3>2. w[x] = 0 /\ c[s \ {x}] = c[s] /\ c[s] \in Int
      BY <1>1, <2>1, <2>3, <3>1
    <3> HIDE DEF c, w
    <3> QED
      BY <3>2
  <2> QED
    BY <2>2, <2>3
<1> HIDE DEF c, w
<1>6. Additive(w, S, c)
  BY <1>2, <1>3, <1>4, <1>5 DEF Additive
<1> QED
  BY <1>6 DEF c, w

\* The percentile scores by one factor average half of Unit: the ranks of those
\* that have it are shared out among them, the others have the middle.
LEMMA PercentilesAverage ==
    ASSUME NEW stocks, Field(stocks), NEW k \in Factors
    PROVE  \E a : /\ Additive([s \in stocks |-> Percentile(k, s, stocks)], stocks, a)
                  /\ a[stocks] = Cardinality(stocks) * (Unit \div 2)
<1> DEFINE all == Present(k, stocks)
           rest == stocks \ all
           m == Cardinality(all)
           n == Cardinality(stocks)
           h == Unit \div 2
           w == [s \in stocks |-> Percentile(k, s, stocks)]
<1>1. /\ IsFiniteSet(stocks) /\ all \in SUBSET stocks /\ rest \in SUBSET stocks
      /\ \A s \in all : Factor(k, s) \in Fractions
      /\ \A s \in stocks : s \in all <=> Has(k, s)
  BY FactorIsFraction DEF Present, Field
<1>2. IsFiniteSet(all) /\ m \in Nat /\ n \in Nat /\ IsFiniteSet(rest) /\ Cardinality(rest) = n - m
  <2>1. IsFiniteSet(all) /\ stocks \cap all = all
    BY <1>1, FS_Subset
  <2>2. IsFiniteSet(rest) /\ Cardinality(rest) = n - Cardinality(stocks \cap all)
    BY <1>1, FS_Difference
  <2> QED
    BY <1>1, <2>1, <2>2, FS_CardinalityType
<1>3. h \in Int
  BY RankingAssumption
<1>4. CASE m \in {0, 1}
  <2>1. \A s \in stocks : w[s] = h
    <3>1. \A s \in stocks : Has(k, s) => m = 1
      BY <1>1, <1>2, <1>4, FS_EmptySet
    <3> QED
      BY <3>1, PercentileIs
  <2> DEFINE u == TimesOver(stocks, h, Ones(stocks, stocks))
             a == TimesOver(SUBSET stocks, h, Count(stocks, stocks))
  <2>2. Additive(u, stocks, a)
    <3> HIDE DEF h
    <3> QED
      BY <1>1, <1>3, SumOfOnes, ScaledSum
  <2>3. \A s \in stocks : w[s] = u[s]
    <3>1. \A s \in stocks : u[s] = h * 1
      BY DEF TimesOver, Ones
    <3> HIDE DEF u, w, h
    <3> QED
      BY <1>3, <2>1, <3>1
  <2>4. Additive(w, stocks, a)
    <3> HIDE DEF u, w, a
    <3> QED
      BY <2>2, <2>3, SameSum
  <2>5. a[stocks] = n * h
    <3>1. stocks \cap stocks = stocks
      OBVIOUS
    <3>2. a[stocks] = h * n
      BY <3>1 DEF TimesOver, Count
    <3> HIDE DEF a, h, n
    <3> QED
      BY <1>2, <1>3, <3>2
  <2> QED
    BY <2>4, <2>5
<1>5. CASE m \notin {0, 1}
  <2>1. PICK q \in Nat \ {0} :
           /\ Unit = 2 * ((m - 1) * q)
           /\ \A s \in stocks :
                 Points(k, s, stocks)
                   = (2 * Cardinality(Below(k, s, stocks))
                        + Cardinality(Level(k, s, stocks)) - 1) * q
    BY <1>5, PointsAreExact
  <2>2. h = (m - 1) * q /\ Unit = 2 * h /\ Unit \in Int
    <3> DEFINE p == (m - 1) * q
    <3>1. p \in Int /\ Unit = 2 * p
      BY <1>2, <2>1
    <3> HIDE DEF p
    <3>2. h = p
      BY <3>1
    <3> QED
      BY <3>1, <3>2 DEF p
  <2>3. PICK b : Additive(Ranks(k, all), all, b) /\ b[all] = m * m
    BY <1>1, <1>2, RanksAddUp
  <2> DEFINE ranks == Beyond(all, Ranks(k, all), stocks)
             less == TimesOver(stocks, -1, Ones(stocks, all))
             points == TimesOver(stocks, q, PlusOver(stocks, ranks, less))
             middle == TimesOver(stocks, h, Ones(stocks, rest))
             whole == TimesOver(stocks, Unit, Ones(stocks, all))
             sumless == TimesOver(SUBSET stocks, -1, Count(stocks, all))
             sumpoints == TimesOver(SUBSET stocks, q,
                                    PlusOver(SUBSET stocks, Within(all, b, stocks), sumless))
             summiddle == TimesOver(SUBSET stocks, h, Count(stocks, rest))
             sumwhole == TimesOver(SUBSET stocks, Unit, Count(stocks, all))
  <2>4. /\ Additive(Ones(stocks, all), stocks, Count(stocks, all))
        /\ Additive(Ones(stocks, rest), stocks, Count(stocks, rest))
    <3> HIDE DEF all, rest
    <3> QED
      BY <1>1, SumOfOnes
  <2>5. Additive(points, stocks, sumpoints)
    <3> HIDE DEF all, rest
    <3>1. Additive(ranks, stocks, Within(all, b, stocks))
      BY <1>1, <2>3, ExtendedSum
    <3>2. Additive(less, stocks, sumless)
      BY <2>4, ScaledSum
    <3>3. Additive(PlusOver(stocks, ranks, less), stocks,
                   PlusOver(SUBSET stocks, Within(all, b, stocks), sumless))
      <4> HIDE DEF ranks, less, sumless
      <4> QED
        BY <3>1, <3>2, SumOfSums
    <3> HIDE DEF ranks, less, sumless
    <3> QED
      BY <3>3, ScaledSum
  <2>6. Additive(middle, stocks, summiddle) /\ Additive(whole, stocks, sumwhole)
    <3> HIDE DEF all, rest, h
    <3> QED
      BY <1>3, <2>2, <2>4, ScaledSum
  <2>7. ASSUME NEW s \in all
        PROVE  /\ points[s] = Points(k, s, stocks) /\ points[s] \in Int
               /\ middle[s] = 0 /\ whole[s] = Unit
    <3>1. s \in stocks /\ s \notin rest
      BY <1>1
    <3>2. ranks[s] = 2 * Cardinality(Below(k, s, stocks)) + Cardinality(Level(k, s, stocks))
      BY <3>1 DEF Beyond, Ranks, Below, Level
    <3>3. Ones(stocks, all)[s] = 1 /\ Ones(stocks, rest)[s] = 0
      BY <3>1 DEF Ones
    <3>4. ranks[s] \in Int
      BY <1>1, <3>1, <3>2, Counts
    <3>5. /\ points[s] = q * (ranks[s] + (-1) * Ones(stocks, all)[s])
          /\ middle[s] = h * Ones(stocks, rest)[s]
          /\ whole[s] = Unit * Ones(stocks, all)[s]
      <4> HIDE DEF ranks, h, all, rest, m
      <4> QED
        BY <3>1, PlusAt, TimesAt
    <3>6. Points(k, s, stocks) = (ranks[s] - 1) * q
      <4> HIDE DEF ranks, all, m
      <4> DEFINE b1 == Cardinality(Below(k, s, stocks))
                 l1 == Cardinality(Level(k, s, stocks))
      <4>1. Points(k, s, stocks) = (2 * b1 + l1 - 1) * q
        BY <2>1, <3>1, Zenon
      <4>2. ranks[s] = 2 * b1 + l1 /\ b1 \in Nat /\ l1 \in Nat
        BY <1>1, <3>1, <3>2, Counts
      <4> HIDE DEF b1, l1
      <4>3. ranks[s] - 1 = 2 * b1 + l1 - 1
        BY <4>2
      <4> QED
        BY <4>1, <4>3, Zenon
    <3> HIDE DEF ranks, points, middle, whole, h, all, rest, m
    <3>7. middle[s] = 0 /\ whole[s] = Unit
      BY <1>3, <2>2, <3>3, <3>5
    <3>8. points[s] = q * (ranks[s] - 1)
      BY <3>3, <3>4, <3>5
    <3> QED
      BY <3>4, <3>6, <3>7, <3>8
  <2>8. ASSUME NEW s \in rest
        PROVE  points[s] = 0 /\ middle[s] = h /\ whole[s] = 0
    <3>1. s \in stocks /\ s \notin all
      BY <1>1
    <3>2. ranks[s] = 0 /\ Ones(stocks, all)[s] = 0 /\ Ones(stocks, rest)[s] = 1
      BY <3>1 DEF Beyond, Ones
    <3>3. /\ points[s] = q * (ranks[s] + (-1) * Ones(stocks, all)[s])
          /\ middle[s] = h * Ones(stocks, rest)[s]
          /\ whole[s] = Unit * Ones(stocks, all)[s]
      <4> HIDE DEF ranks, h, all, rest, m
      <4> QED
        BY <3>1, PlusAt, TimesAt
    <3> HIDE DEF ranks, points, middle, whole, h, all, rest, m
    <3> QED
      BY <1>3, <2>2, <3>2, <3>3
  <2>9. /\ sumpoints[stocks] = h * m
        /\ summiddle[stocks] = h * (n - m)
        /\ sumwhole[stocks] = 2 * (h * m)
    <3>1. stocks \cap all = all /\ stocks \cap rest = rest
      BY <1>1
    <3>2. /\ sumpoints[stocks] = q * (b[all] + (-1) * m)
          /\ summiddle[stocks] = h * Cardinality(rest)
          /\ sumwhole[stocks] = Unit * m
      <4> HIDE DEF all, rest, h
      <4>1. stocks \in SUBSET stocks
        OBVIOUS
      <4>2. /\ Within(all, b, stocks)[stocks] = b[all]
            /\ Count(stocks, all)[stocks] = Cardinality(all)
            /\ Count(stocks, rest)[stocks] = Cardinality(rest)
        BY <3>1, <4>1 DEF Within, Count
      <4>3. /\ sumpoints[stocks] = q * (Within(all, b, stocks)[stocks]
                                        + (-1) * Count(stocks, all)[stocks])
            /\ summiddle[stocks] = h * Count(stocks, rest)[stocks]
            /\ sumwhole[stocks] = Unit * Count(stocks, all)[stocks]
        BY <4>1, PlusAt, TimesAt
      <4> QED
        BY <4>2, <4>3
    <3> HIDE DEF sumpoints, summiddle, sumwhole, h, m, n, all, rest
    <3>3. q * (m * m + (-1) * m) = ((m - 1) * q) * m
      BY <1>2
    <3>4. Unit * m = 2 * (h * m)
      BY <1>2, <1>3, <2>2
    <3> QED
      BY <1>2, <2>2, <2>3, <3>2, <3>3, <3>4
  <2>10. h * m + h * (n - m) = n * h /\ h * m \in Int /\ h * (n - m) \in Int /\ n * h \in Int
    <3> HIDE DEF h, m, n
    <3> QED
      BY <1>2, <1>3
  <2> HIDE DEF ranks, less, points, middle, whole, sumless, sumpoints, summiddle, sumwhole
  <2>11. CASE k \notin LowerIsBetter
    <3> DEFINE u == PlusOver(stocks, points, middle)
               a == PlusOver(SUBSET stocks, sumpoints, summiddle)
    <3>1. Additive(u, stocks, a)
      BY <2>5, <2>6, SumOfSums
    <3>2. ASSUME NEW s \in stocks PROVE w[s] = u[s]
      <4>1. u[s] = points[s] + middle[s] /\ w[s] = Percentile(k, s, stocks)
        BY DEF PlusOver
      <4>2. CASE s \in all
        <5>1. w[s] = Points(k, s, stocks)
          BY <1>1, <1>5, <2>11, <4>1, <4>2, PercentileIs
        <5> HIDE DEF u, w
        <5> QED
          BY <2>7, <4>1, <4>2, <5>1
      <4>3. CASE s \in rest
        <5>1. w[s] = h
          BY <1>1, <4>1, <4>3, PercentileIs
        <5> HIDE DEF u, w, h
        <5> QED
          BY <1>3, <2>8, <4>1, <4>3, <5>1
      <4> QED
        BY <4>2, <4>3
    <3>3. Additive(w, stocks, a)
      <4> HIDE DEF u, w, a
      <4> QED
        BY <3>1, <3>2, SameSum
    <3>4. a[stocks] = n * h
      <4>1. a[stocks] = sumpoints[stocks] + summiddle[stocks]
        BY DEF PlusOver
      <4> HIDE DEF a, h, m, n
      <4> QED
        BY <2>9, <2>10, <4>1
    <3> QED
      BY <3>3, <3>4
  <2>12. CASE k \in LowerIsBetter
    <3> DEFINE u == PlusOver(stocks, PlusOver(stocks, TimesOver(stocks, -1, points), whole), middle)
               a == PlusOver(SUBSET stocks,
                      PlusOver(SUBSET stocks, TimesOver(SUBSET stocks, -1, sumpoints), sumwhole),
                      summiddle)
    <3>1. Additive(u, stocks, a)
      <4>1. Additive(TimesOver(stocks, -1, points), stocks, TimesOver(SUBSET stocks, -1, sumpoints))
        BY <2>5, ScaledSum
      <4>2. Additive(PlusOver(stocks, TimesOver(stocks, -1, points), whole), stocks,
              PlusOver(SUBSET stocks, TimesOver(SUBSET stocks, -1, sumpoints), sumwhole))
        BY <2>6, <4>1, SumOfSums
      <4> QED
        BY <2>6, <4>2, SumOfSums
    <3>2. ASSUME NEW s \in stocks PROVE w[s] = u[s]
      <4>1. u[s] = ((-1) * points[s] + whole[s]) + middle[s] /\ w[s] = Percentile(k, s, stocks)
        BY PlusAt, TimesAt
      <4>2. CASE s \in all
        <5>1. w[s] = Unit - Points(k, s, stocks)
          BY <1>1, <1>5, <2>12, <4>1, <4>2, PercentileIs
        <5> HIDE DEF u, w
        <5> QED
          BY <2>2, <2>7, <4>1, <4>2, <5>1
      <4>3. CASE s \in rest
        <5>1. w[s] = h
          BY <1>1, <4>1, <4>3, PercentileIs
        <5> HIDE DEF u, w, h
        <5> QED
          BY <1>3, <2>8, <4>1, <4>3, <5>1
      <4> QED
        BY <4>2, <4>3
    <3>3. Additive(w, stocks, a)
      <4> HIDE DEF u, w, a
      <4> QED
        BY <3>1, <3>2, SameSum
    <3>4. a[stocks] = n * h
      <4>1. a[stocks] = ((-1) * sumpoints[stocks] + sumwhole[stocks]) + summiddle[stocks]
        <5>1. stocks \in SUBSET stocks
          OBVIOUS
        <5> QED
          BY <5>1, PlusAt, TimesAt
      <4> HIDE DEF a, h, m, n
      <4> QED
        BY <2>9, <2>10, <4>1
    <3> QED
      BY <3>3, <3>4
  <2> QED
    BY <2>11, <2>12
<1> QED
  BY <1>4, <1>5

\* The sum of the community modules is the one that Additive describes.
LEMMA SumOfScores ==
    ASSUME NEW stocks, IsFiniteSet(stocks),
           NEW a, Additive([s \in stocks |-> GLScore(s, stocks)], stocks, a)
    PROVE  MapThenSumSet(LAMBDA s : GLScore(s, stocks), stocks) = a[stocks]
<1> DEFINE w == [s \in stocks |-> GLScore(s, stocks)]
           any(s) == CHOOSE x \in s : TRUE
           value(f, s) == IF s = {} THEN 0 ELSE GLScore(any(s), stocks) + f[s \ {any(s)}]
           sum(f) == f = [s \in SUBSET stocks |-> value(f, s)]
           h == CHOOSE f : sum(f)
<1>1. \A s \in SUBSET stocks : s # {} => any(s) \in s /\ any(s) \in stocks
  OBVIOUS
<1>2. ASSUME NEW s \in SUBSET stocks PROVE a[s] = value(a, s)
  <2>1. CASE s = {}
    BY <2>1 DEF Additive
  <2>2. CASE s # {}
    <3>1. any(s) \in s /\ any(s) \in stocks
      BY <1>1, <2>2
    <3> HIDE DEF any
    <3>2. a[s] = w[any(s)] + a[s \ {any(s)}]
      BY <3>1 DEF Additive
    <3>3. w[any(s)] = GLScore(any(s), stocks)
      BY <3>1
    <3> QED
      BY <2>2, <3>2, <3>3
  <2> QED
    BY <2>1, <2>2
<1>3. sum(a)
  <2>1. a = [s \in SUBSET stocks |-> a[s]]
    BY DEF Additive
  <2> HIDE DEF value
  <2> QED
    BY <1>2, <2>1
<1>4. sum(h)
  <2> HIDE DEF sum
  <2> QED
    BY <1>3
<1>5. \A s \in SUBSET stocks : h[s] = value(h, s)
  <2> HIDE DEF h, value
  <2> QED
    BY <1>4
<1> DEFINE P == {s \in SUBSET stocks : h[s] = a[s]}
<1>6. {} \in P
  <2> HIDE DEF h
  <2> QED
    BY <1>2, <1>5
<1>7. ASSUME NEW s \in SUBSET stocks, s # {}, \A x \in s : s \ {x} \in P
      PROVE  s \in P
  <2>1. any(s) \in s
    BY <1>1, <1>7
  <2>2. h[s \ {any(s)}] = a[s \ {any(s)}]
    <3> HIDE DEF h, any
    <3> QED
      BY <1>7, <2>1
  <2>3. value(h, s) = value(a, s)
    <3> HIDE DEF h, any
    <3> QED
      BY <2>2
  <2> HIDE DEF h, value
  <2> QED
    BY <1>2, <1>5, <2>3
<1>8. \A s \in SUBSET stocks : s \in P
  <2> HIDE DEF P
  <2> QED
    BY <1>6, <1>7, SetInduction
<1>9. stocks \in SUBSET stocks
  OBVIOUS
<1>10. MapThenSumSet(LAMBDA s : GLScore(s, stocks), stocks) = h[stocks]
  BY DEF MapThenSumSet, MapThenFoldSet
<1> HIDE DEF h
<1> QED
  BY <1>8, <1>9, <1>10

\* What each factor weighs in the combined score.
Weight(k) == CASE k = "mos" -> 2200
               [] k = "pe" -> 1100
               [] k = "pb" -> 825
               [] k = "eps" -> 1950
               [] k = "roe" -> 1000
               [] k = "peg" -> 2250
               [] k = "rev" -> 675

LEMMA ScoresAverage ==
    ASSUME NEW stocks, Field(stocks)
    PROVE  \E a : /\ Additive([s \in stocks |-> GLScore(s, stocks)], stocks, a)
                  /\ a[stocks] = Cardinality(stocks) * (Unit \div 2) * 100 * 100
<1> DEFINE w(k) == [s \in stocks |-> Percentile(k, s, stocks)]
           sum == [k \in Factors |-> CHOOSE a : /\ Additive(w(k), stocks, a)
                                                /\ a[stocks] = Cardinality(stocks) * (Unit \div 2)]
           x(k) == TimesOver(stocks, Weight(k), w(k))
           y(k) == TimesOver(SUBSET stocks, Weight(k), sum[k])
           U == SUBSET stocks
           u == PlusOver(stocks, x("mos"), PlusOver(stocks, x("pe"), PlusOver(stocks, x("pb"),
                PlusOver(stocks, x("eps"), PlusOver(stocks, x("roe"), PlusOver(stocks, x("peg"),
                x("rev")))))))
           a == PlusOver(U, y("mos"), PlusOver(U, y("pe"), PlusOver(U, y("pb"),
                PlusOver(U, y("eps"), PlusOver(U, y("roe"), PlusOver(U, y("peg"),
                y("rev")))))))
           half == Cardinality(stocks) * (Unit \div 2)
           g == [s \in stocks |-> GLScore(s, stocks)]
<1>1. ASSUME NEW k \in Factors
      PROVE  Additive(w(k), stocks, sum[k]) /\ sum[k][stocks] = half
  <2>1. \E b : Additive(w(k), stocks, b) /\ b[stocks] = half
    BY PercentilesAverage
  <2> HIDE DEF w, half
  <2> QED
    BY <2>1 DEF half
<1>2. \A k \in Factors : Weight(k) \in Int
  BY DEF Weight, Factors
<1>3. half \in Int
  <2>1. Cardinality(stocks) \in Nat /\ Unit \div 2 \in Int
    BY FS_CardinalityType, RankingAssumption DEF Field
  <2> QED
    BY <2>1
<1>4. ASSUME NEW k \in Factors
      PROVE  Additive(x(k), stocks, y(k))
  <2> HIDE DEF w, sum
  <2> QED
    BY <1>1, <1>2, ScaledSum
<1>5. Additive(u, stocks, a)
  <2> HIDE DEF x, y
  <2> QED
    BY <1>4, SumOfSums DEF Factors
<1>6. ASSUME NEW s \in stocks PROVE g[s] = u[s]
  <2> DEFINE p(k) == Percentile(k, s, stocks)
  <2>1. \A k \in Factors : x(k)[s] = Weight(k) * p(k) /\ p(k) \in Int
    <3>1. \A k \in Factors : w(k)[s] = p(k)
      OBVIOUS
    <3> HIDE DEF w
    <3> QED
      BY <3>1, TimesAt, PercentileInt DEF Field
  <2>2. u[s] = x("mos")[s] + (x("pe")[s] + (x("pb")[s] + (x("eps")[s]
                 + (x("roe")[s] + (x("peg")[s] + x("rev")[s])))))
    <3> HIDE DEF x
    <3> QED
      BY PlusAt
  <2>3. g[s] = 55 * (40 * p("mos") + 20 * p("pe") + 15 * p("pb") + 15 * p("eps") + 10 * p("roe"))
                 + 45 * (50 * p("peg") + 25 * p("eps") + 15 * p("rev") + 10 * p("roe"))
    BY DEF GLScore, GrahamScore, LynchScore
  <2> HIDE DEF p, x, u, g
  <2> QED
    BY <2>1, <2>2, <2>3 DEF Factors, Weight
<1>7. Additive(g, stocks, a)
  <2> HIDE DEF u, g, a
  <2> QED
    BY <1>5, <1>6, SameSum
<1>8. a[stocks] = half * 100 * 100
  <2>1. \A k \in Factors : y(k)[stocks] = Weight(k) * half
    <3>1. stocks \in U
      OBVIOUS
    <3> HIDE DEF sum, w, half
    <3> QED
      BY <1>1, <3>1, TimesAt
  <2>2. a[stocks] = y("mos")[stocks] + (y("pe")[stocks] + (y("pb")[stocks] + (y("eps")[stocks]
                 + (y("roe")[stocks] + (y("peg")[stocks] + y("rev")[stocks])))))
    <3>1. stocks \in U
      OBVIOUS
    <3> HIDE DEF y
    <3> QED
      BY <3>1, PlusAt
  <2> HIDE DEF y, a, half
  <2> QED
    BY <1>3, <2>1, <2>2 DEF Factors, Weight
<1> HIDE DEF a, g
<1> QED
  BY <1>7, <1>8 DEF g

\* Whatever is tied or missing, the raw scores of a run of any number of stocks
\* average 50 (ranking.go:96-141, scoring.go:57-96).
THEOREM ScoresAlwaysAverage == Spec => []RawScoresAverageToTheMiddle
<1>1. RankingInv => RawScoresAverageToTheMiddle
  <2> SUFFICES ASSUME RankingInv, pc = "done"
               PROVE  MapThenSumSet(LAMBDA s : GLScore(s, mids), mids)
                        = Cardinality(mids) * (Unit \div 2) * 100 * 100
    BY DEF RawScoresAverageToTheMiddle
  <2>1. Field(mids) /\ IsFiniteSet(mids)
    BY KeptAreWinners DEF RankingInv, Field
  <2>2. PICK a : /\ Additive([s \in mids |-> GLScore(s, mids)], mids, a)
                 /\ a[mids] = Cardinality(mids) * (Unit \div 2) * 100 * 100
    BY <2>1, ScoresAverage
  <2>3. MapThenSumSet(LAMBDA s : GLScore(s, mids), mids) = a[mids]
    BY <2>1, <2>2, SumOfScores
  <2> QED
    BY <2>2, <2>3
<1> QED
  BY <1>1, RankingAlways, PTL
-----------------------------------------------------------------------------
(***************************************************************************)
(* When cycles run.                                                        *)
(***************************************************************************)
\* Division with remainder.
LEMMA Remainder ==
    ASSUME NEW t \in Nat, NEW d \in Nat, d > 0
    PROVE  /\ t % d \in 0 .. d - 1
           /\ t \div d \in Nat
           /\ t = d * (t \div d) + (t % d)
  OBVIOUS

\* A remainder is known by its quotient.
LEMMA RemainderOf ==
    ASSUME NEW q \in Nat, NEW d \in Nat, d > 0, NEW r \in Nat, r < d
    PROVE  (d * q + r) % d = r
  OBVIOUS

\* Of multiples of one number, the smaller is smaller by that number at least.
LEMMA MultiplesApart ==
    ASSUME NEW a \in Nat, NEW b \in Nat, NEW d \in Nat, d > 0, d * a < d * b
    PROVE  d * a + d <= d * b
  OBVIOUS

\* What the loop of nextScheduleSlot finds: the least slot after now, at most
\* a quarter away, across midnight too.
LEMMA NextSlotIsNext ==
    ASSUME NEW now \in Nat
    PROVE  /\ NextSlot(now) \in Nat
           /\ NextSlot(now) % Quarter = 0
           /\ now < NextSlot(now) /\ NextSlot(now) <= now + Quarter
           /\ \A s \in Nat : s % Quarter = 0 /\ now < s => NextSlot(now) <= s
<1> DEFINE q == now \div Day
           m == Midnight(now)
           slot(k) == m + k * Quarter
           later == {k \in 0 .. 3 : slot(k) > now}
<1>1. Quarter \in Nat /\ Quarter > 0 /\ Day \in Nat /\ Day > 0 /\ Day = Quarter * 4
  BY SchedulerAssumption DEF Day
<1>2. /\ q \in Nat /\ m = Day * q /\ m \in Nat
      /\ m <= now /\ now < m + Day
  <2>1. now % Day \in 0 .. Day - 1 /\ q \in Nat /\ now = Day * q + (now % Day)
    BY <1>1, Remainder
  <2>2. Day * q \in Nat
    BY <1>1, <2>1
  <2> QED
    BY <1>1, <2>1, <2>2 DEF Midnight
<1>3. m = Quarter * (4 * q)
  BY <1>1, <1>2
<1>4. \E j \in 1 .. 4 :
        /\ NextSlot(now) = m + j * Quarter
        /\ m + (j - 1) * Quarter <= now /\ now < m + j * Quarter
  <2>1. /\ 0 * Quarter = 0 /\ 1 * Quarter = Quarter /\ 4 * Quarter = Day
        /\ 2 * Quarter = Quarter + Quarter /\ 3 * Quarter = Quarter + Quarter + Quarter
        /\ \A k \in 0 .. 3 : k * Quarter \in Nat
    BY <1>1
  <2>2. \A k : k \in later <=> k \in 0 .. 3 /\ now < m + k * Quarter
    BY <1>2, <2>1
  <2>3. 0 \notin later
    BY <1>2, <2>1, <2>2
  <2>4. CASE later = {}
    <3>1. NextSlot(now) = m + 4 * Quarter
      BY <2>1, <2>4 DEF NextSlot
    <3>2. 3 \notin later
      BY <2>4
    <3>3. m + (4 - 1) * Quarter <= now /\ now < m + 4 * Quarter
      BY <1>1, <1>2, <2>1, <2>2, <3>2
    <3> QED
      BY <3>1, <3>3
  <2>5. ASSUME NEW j \in 1 .. 3, j \in later, \A y \in later : j <= y
        PROVE  /\ NextSlot(now) = m + j * Quarter
               /\ m + (j - 1) * Quarter <= now /\ now < m + j * Quarter
    <3>1. j = CHOOSE x \in later : \A y \in later : x <= y
      <4>1. \A x \in later : (\A y \in later : x <= y) => x = j
        BY <2>2, <2>5
      <4> QED
        BY <2>5, <4>1
    <3>2. NextSlot(now) = slot(j)
      BY <2>5, <3>1 DEF NextSlot
    <3>3. j - 1 \notin later /\ j - 1 \in 0 .. 3
      BY <2>5
    <3>4. (j - 1) * Quarter \in Nat
      BY <2>1, <3>3
    <3>5. m + (j - 1) * Quarter <= now
      BY <1>2, <2>2, <3>3, <3>4
    <3> QED
      BY <2>2, <2>5, <3>2, <3>5
  <2>6. CASE 1 \in later
    BY <2>2, <2>3, <2>5, <2>6
  <2>7. CASE 1 \notin later /\ 2 \in later
    BY <2>2, <2>3, <2>5, <2>7
  <2>8. CASE 1 \notin later /\ 2 \notin later /\ 3 \in later
    BY <2>2, <2>3, <2>5, <2>8
  <2> QED
    BY <2>2, <2>3, <2>4, <2>6, <2>7, <2>8
<1>5. PICK j \in 1 .. 4 :
        /\ NextSlot(now) = m + j * Quarter
        /\ m + (j - 1) * Quarter <= now /\ now < m + j * Quarter
  BY <1>4
<1> DEFINE b == 4 * q + j
<1>6. b \in Nat /\ NextSlot(now) = Quarter * b
  <2>1. Quarter * (4 * q) + j * Quarter = Quarter * (4 * q + j)
    BY <1>1, <1>2
  <2> QED
    BY <1>2, <1>3, <1>5, <2>1
<1>7. Quarter * b \in Nat
  BY <1>1, <1>6
<1>8. (Quarter * b + 0) % Quarter = 0
  BY <1>1, <1>6, RemainderOf
<1>9. NextSlot(now) <= now + Quarter
  BY <1>1, <1>2, <1>5
<1>10. ASSUME NEW s \in Nat, s % Quarter = 0, now < s
       PROVE  NextSlot(now) <= s
  <2> DEFINE a == s \div Quarter
  <2>1. a \in Nat /\ s = Quarter * a
    BY <1>1, <1>10, Remainder
  <2>2. SUFFICES ASSUME Quarter * a < Quarter * b PROVE FALSE
    BY <1>6, <1>7, <1>10, <2>1
  <2>3. Quarter * a + Quarter <= Quarter * b
    BY <1>1, <1>6, <2>1, <2>2, MultiplesApart
  <2> QED
    BY <1>1, <1>6, <1>7, <1>9, <1>10, <2>1, <2>3
<1> QED
  BY <1>5, <1>6, <1>7, <1>8, <1>9, <1>10, <1>1, <1>2

\* Cutting off the seconds goes back at most to the start of the clock.
LEMMA MinuteIsPast ==
    ASSUME NEW t \in Nat
    PROVE  CalculatedAt(t) \in 0 .. t
<1>1. Minute \in Nat /\ Minute > 0
  BY SchedulerAssumption
<1>2. t % Minute \in 0 .. Minute - 1 /\ t \div Minute \in Nat
      /\ t = Minute * (t \div Minute) + (t % Minute)
  BY <1>1, Remainder
<1>3. Minute * (t \div Minute) \in Nat
  BY <1>1, <1>2
<1> QED
  BY <1>2, <1>3 DEF CalculatedAt

-----------------------------------------------------------------------------
\* Unless the clock was set back: a cycle under way is for a slot that has
\* begun; a plan is for the least slot still to come when it was made; and a
\* sleep ends with its slot, or after it where the clock jumped ahead.
CycleIsDue == stage \in {"refresh", "save", "plan"} /\ ~setBack => next <= clock
PlanIsLeast ==
    stage \in {"arm", "sleep"} =>
        /\ next % Quarter = 0
        /\ ~setBack => \A s \in Nat : s % Quarter = 0 /\ s < next => s <= clock
SleepMeetsSlot ==
    stage = "sleep" /\ ~setBack =>
        /\ clock + left >= next
        /\ ~setAhead => clock + left = next \/ left = 0

\* As long as nobody sets the clock back, no run is from the future.
RunsArePast ==
    setBacks = 0 => ~setBack /\ nowAt <= clock /\ manual <= clock /\ latest <= clock

SchedulerInv == SchedulerTypeOK /\ CycleIsDue /\ PlanIsLeast /\ SleepMeetsSlot /\ RunsArePast

LEMMA SchedulerInitInv == SchedulerInit => SchedulerInv
<1> SUFFICES ASSUME SchedulerInit PROVE SchedulerInv
  OBVIOUS
<1>0. MaxClock \in Nat /\ MaxSetBacks \in Nat
  BY SchedulerAssumption
<1>1. SchedulerTypeOK
  <2>1. 0 \in 0 .. MaxClock /\ setBacks \in 0 .. MaxSetBacks
    BY <1>0 DEF SchedulerInit
  <2>2. clock \in 0 .. MaxClock /\ stage = "refresh" /\ next \in Nat /\ left \in Nat
    BY DEF SchedulerInit
  <2>3. nowAt \in 0 .. MaxClock /\ {serving, setBack, setAhead} \subseteq BOOLEAN
    BY <2>1 DEF SchedulerInit
  <2>4. manual \in {Never} /\ latest \in {Never}
    BY DEF SchedulerInit
  <2> QED
    BY <2>1, <2>2, <2>3, <2>4 DEF SchedulerTypeOK
<1>2. CycleIsDue /\ PlanIsLeast /\ SleepMeetsSlot /\ RunsArePast
  BY <1>0 DEF SchedulerInit, Never, CycleIsDue, PlanIsLeast, SleepMeetsSlot, RunsArePast
<1> QED
  BY <1>1, <1>2 DEF SchedulerInv

LEMMA SchedulerNextInv == SchedulerInv /\ [SchedulerNext]_scheduleVars => SchedulerInv'
<1> SUFFICES ASSUME SchedulerInv, [SchedulerNext]_scheduleVars PROVE SchedulerInv'
  OBVIOUS
<1>0. MaxClock \in Nat /\ MaxSetBacks \in Nat
  BY SchedulerAssumption
<1> USE <1>0 DEF SchedulerInv, Never
<1>1. CASE ReadClock
  <2>1. SchedulerTypeOK'
    BY <1>1 DEF ReadClock, SchedulerTypeOK
  <2>2. CycleIsDue' /\ PlanIsLeast' /\ SleepMeetsSlot' /\ RunsArePast'
    BY <1>1 DEF ReadClock, SchedulerTypeOK, CycleIsDue, PlanIsLeast, SleepMeetsSlot, RunsArePast
  <2> QED
    BY <2>1, <2>2
<1>2. CASE EndCycle
  <2>1. CalculatedAt(nowAt) \in 0 .. nowAt
    BY MinuteIsPast DEF SchedulerTypeOK
  <2>2. SchedulerTypeOK'
    BY <1>2, <2>1 DEF EndCycle, SchedulerTypeOK
  <2>3. CycleIsDue' /\ PlanIsLeast' /\ SleepMeetsSlot'
    BY <1>2 DEF EndCycle, SchedulerTypeOK, CycleIsDue, PlanIsLeast, SleepMeetsSlot
  <2>4. RunsArePast'
    BY <1>2, <2>1 DEF EndCycle, SchedulerTypeOK, RunsArePast
  <2> QED
    BY <2>2, <2>3, <2>4
<1>3. CASE Plan
  <2>1. /\ NextSlot(clock) \in Nat /\ NextSlot(clock) % Quarter = 0
        /\ \A s \in Nat : s % Quarter = 0 /\ clock < s => NextSlot(clock) <= s
    BY NextSlotIsNext DEF SchedulerTypeOK
  <2>2. SchedulerTypeOK'
    BY <1>3, <2>1 DEF Plan, SchedulerTypeOK
  <2>3. PlanIsLeast'
    BY <1>3, <2>1 DEF Plan, SchedulerTypeOK, PlanIsLeast
  <2>4. CycleIsDue' /\ SleepMeetsSlot' /\ RunsArePast'
    BY <1>3 DEF Plan, SchedulerTypeOK, CycleIsDue, SleepMeetsSlot, RunsArePast
  <2> QED
    BY <2>2, <2>3, <2>4
<1>4. CASE Sleep
  <2>1. SchedulerTypeOK'
    BY <1>4 DEF Sleep, SchedulerTypeOK
  <2>2. PlanIsLeast'
    BY <1>4 DEF Sleep, PlanIsLeast
  <2>3. SleepMeetsSlot'
    BY <1>4 DEF Sleep, SchedulerTypeOK, SleepMeetsSlot
  <2>4. CycleIsDue' /\ RunsArePast'
    BY <1>4 DEF Sleep, CycleIsDue, RunsArePast
  <2> QED
    BY <2>1, <2>2, <2>3, <2>4
<1>5. CASE WakeUp
  <2>1. SchedulerTypeOK'
    BY <1>5 DEF WakeUp, SchedulerTypeOK
  <2>2. CycleIsDue'
    BY <1>5 DEF WakeUp, SchedulerTypeOK, SleepMeetsSlot, CycleIsDue
  <2>3. PlanIsLeast' /\ SleepMeetsSlot' /\ RunsArePast'
    BY <1>5 DEF WakeUp, PlanIsLeast, SleepMeetsSlot, RunsArePast
  <2> QED
    BY <2>1, <2>2, <2>3
<1>6. CASE BeginManual
  <2>1. SchedulerTypeOK'
    BY <1>6 DEF BeginManual, SchedulerTypeOK
  <2>2. CycleIsDue' /\ PlanIsLeast' /\ SleepMeetsSlot'
    BY <1>6 DEF BeginManual, CycleIsDue, PlanIsLeast, SleepMeetsSlot
  <2>3. RunsArePast'
    BY <1>6 DEF BeginManual, SchedulerTypeOK, RunsArePast
  <2> QED
    BY <2>1, <2>2, <2>3
<1>7. CASE EndManual
  <2>1. CalculatedAt(manual) \in 0 .. manual
    BY <1>7, MinuteIsPast DEF EndManual, SchedulerTypeOK
  <2>2. SchedulerTypeOK'
    BY <1>7, <2>1 DEF EndManual, SchedulerTypeOK
  <2>3. CycleIsDue' /\ PlanIsLeast' /\ SleepMeetsSlot'
    BY <1>7 DEF EndManual, CycleIsDue, PlanIsLeast, SleepMeetsSlot
  <2>4. RunsArePast'
    BY <1>7, <2>1 DEF EndManual, SchedulerTypeOK, RunsArePast
  <2> QED
    BY <2>2, <2>3, <2>4
<1>8. CASE Tick
  <2>1. SchedulerTypeOK'
    BY <1>8 DEF Tick, SchedulerTypeOK
  <2>2. CycleIsDue' /\ RunsArePast'
    BY <1>8 DEF Tick, SchedulerTypeOK, CycleIsDue, RunsArePast
  <2>3. PlanIsLeast'
    BY <1>8 DEF Tick, SchedulerTypeOK, PlanIsLeast
  <2>4. SleepMeetsSlot'
    BY <1>8 DEF Tick, SchedulerTypeOK, SleepMeetsSlot
  <2> QED
    BY <2>1, <2>2, <2>3, <2>4
<1>9. CASE SetClockBack
  <2>1. SchedulerTypeOK'
    BY <1>9 DEF SetClockBack, SchedulerTypeOK
  <2>2. CycleIsDue' /\ PlanIsLeast' /\ SleepMeetsSlot' /\ RunsArePast'
    BY <1>9 DEF SetClockBack, SchedulerTypeOK, CycleIsDue, PlanIsLeast, SleepMeetsSlot, RunsArePast
  <2> QED
    BY <2>1, <2>2
<1>10. CASE SetClockAhead
  <2>1. PICK t \in clock + 1 .. MaxClock - left : clock' = t
    BY <1>10 DEF SetClockAhead
  <2>2. clock' \in 0 .. MaxClock /\ clock <= clock'
    BY <2>1 DEF SchedulerTypeOK
  <2>3. SchedulerTypeOK'
    BY <1>10, <2>2 DEF SetClockAhead, SchedulerTypeOK
  <2>4. CycleIsDue' /\ RunsArePast'
    BY <1>10, <2>2 DEF SetClockAhead, SchedulerTypeOK, CycleIsDue, RunsArePast
  <2>5. PlanIsLeast'
    BY <1>10, <2>2 DEF SetClockAhead, SchedulerTypeOK, PlanIsLeast
  <2>6. SleepMeetsSlot'
    <3>1. stage' = "sleep" => setAhead'
      BY <1>10 DEF SetClockAhead
    <3>2. stage' = "sleep" /\ ~setBack' => clock' + left' >= next'
      BY <1>10, <2>2 DEF SetClockAhead, SchedulerTypeOK, SleepMeetsSlot
    <3> QED
      BY <3>1, <3>2 DEF SleepMeetsSlot
  <2> QED
    BY <2>3, <2>4, <2>5, <2>6
<1>11. CASE Restart
  <2>0. 0 \in 0 .. MaxClock /\ Never \in {Never}
    BY <1>0
  <2>1. SchedulerTypeOK'
    BY <1>11, <2>0 DEF Restart, SchedulerTypeOK
  <2>2. CycleIsDue' /\ PlanIsLeast' /\ SleepMeetsSlot' /\ RunsArePast'
    BY <1>11 DEF Restart, SchedulerTypeOK, CycleIsDue, PlanIsLeast, SleepMeetsSlot, RunsArePast
  <2> QED
    BY <2>1, <2>2
<1>12. CASE UNCHANGED scheduleVars
  BY <1>12 DEF scheduleVars, SchedulerTypeOK, CycleIsDue, PlanIsLeast, SleepMeetsSlot, RunsArePast
<1> QED
  BY <1>1, <1>2, <1>3, <1>4, <1>5, <1>6, <1>7, <1>8, <1>9, <1>10, <1>11, <1>12
     DEF SchedulerNext, Loop

\* The parts of the invariant that the theorems need hold for ever.
LEMMA SchedulerAlways == SchedulerSpec => []SchedulerInv
<1>1. SchedulerInit => SchedulerInv
  BY SchedulerInitInv
<1>2. SchedulerInv /\ [SchedulerNext]_scheduleVars => SchedulerInv'
  BY SchedulerNextInv
<1> QED
  BY <1>1, <1>2, PTL DEF SchedulerSpec

\* The clock, the sleep and the readings of the clock keep their ranges.
THEOREM SchedulerTyped == SchedulerSpec => []SchedulerTypeOK
<1>1. SchedulerInv => SchedulerTypeOK
  BY DEF SchedulerInv
<1> QED
  BY <1>1, SchedulerAlways, PTL

\* For any length of a quarter the scheduler, asleep, passes no slot, except
\* those the clock jumps over (main.go:128-131, views.go:65-74).
THEOREM SchedulerSleepsThroughNoSlot == SchedulerSpec => []NoSlotIsSleptThrough
<1>1. SchedulerInv => NoSlotIsSleptThrough
  BY DEF SchedulerInv, SchedulerTypeOK, PlanIsLeast, SleepMeetsSlot, NoSlotIsSleptThrough
<1> QED
  BY <1>1, SchedulerAlways, PTL

\* For any length of a quarter and of a minute the dashboard announces the
\* slot that comes, or one that is past (views.go:91-97).
THEOREM SchedulerAnnouncesItsSlot == SchedulerSpec => []NoOtherUpdateIsAnnounced
<1>1. SchedulerInv => NoOtherUpdateIsAnnounced
  <2> SUFFICES ASSUME SchedulerInv, stage = "sleep", clock < next, setBacks = 0, latest # Never
               PROVE  NextUpdate = next \/ NextUpdate <= clock
    BY DEF NoOtherUpdateIsAnnounced
  <2>1. latest \in Nat /\ latest <= clock /\ clock \in Nat /\ next \in Nat /\ ~setBack
    BY DEF SchedulerInv, SchedulerTypeOK, RunsArePast, Never
  <2>2. /\ NextUpdate \in Nat /\ NextUpdate % Quarter = 0
        /\ \A s \in Nat : s % Quarter = 0 /\ latest < s => NextUpdate <= s
    BY <2>1, NextSlotIsNext DEF NextUpdate
  <2>3. next % Quarter = 0 /\ \A s \in Nat : s % Quarter = 0 /\ s < next => s <= clock
    BY <2>1 DEF SchedulerInv, PlanIsLeast
  <2> QED
    BY <2>1, <2>2, <2>3
<1> QED
  BY <1>1, SchedulerAlways, PTL

\* Each plan is for a later slot: no slot gets two cycles (main.go:126-137).
THEOREM SchedulerRunsSlotsOnce == SchedulerSpec => OneCyclePerSlot
<1>1. SchedulerInv /\ [SchedulerNext]_scheduleVars => [stage = "plan" /\ stage' = "arm" /\ ~setBack => next' > next]_scheduleVars
  <2> SUFFICES ASSUME SchedulerInv, SchedulerNext, stage = "plan", stage' = "arm", ~setBack
               PROVE  next' > next
    OBVIOUS
  <2>1. Plan
    BY DEF SchedulerNext, Loop, ReadClock, EndCycle, Plan, Sleep, WakeUp, BeginManual, EndManual,
           Tick, SetClockBack, SetClockAhead, Restart
  <2>2. next <= clock /\ next \in Nat /\ clock \in Nat
    BY DEF SchedulerInv, SchedulerTypeOK, CycleIsDue
  <2>3. NextSlot(clock) \in Nat /\ clock < NextSlot(clock)
    BY <2>2, NextSlotIsNext
  <2> QED
    BY <2>1, <2>2, <2>3 DEF Plan
<1> QED
  BY <1>1, SchedulerAlways, PTL DEF SchedulerSpec, OneCyclePerSlot
=============================================================================
