--------------------------- MODULE StrengthProofs ---------------------------
(***************************************************************************)
(* Facts about the fold for every history. Induction is by the least       *)
(* number at which a statement fails (WFMin over the naturals).            *)
(***************************************************************************)
EXTENDS Strength, WellFoundedInduction, FiniteSetTheorems, TLAPS

\* A set of naturals that is not empty has a least member.
LEMMA LeastNat ==
  ASSUME NEW T \in SUBSET Nat, T # {}
  PROVE  \E n \in T : \A m \in T : n <= m
<1> DEFINE Upto == {1 .. n : n \in T}
<1>1. Upto \subseteq FiniteSubsetsOf(Nat) /\ Upto # {}
  <2> SUFFICES ASSUME NEW n \in T PROVE 1 .. n \in FiniteSubsetsOf(Nat)
    OBVIOUS
  <2>1. IsFiniteSet(1 .. n)
    BY FS_Interval
  <2> QED BY <2>1 DEF FiniteSubsetsOf
<1>2. PICK X \in Upto :
        \A Y \in Upto : ~(<<Y, X>> \in StrictSubsetOrdering(Nat))
  BY <1>1, FS_StrictSubsetOrderingWellFounded, WFMin
<1>3. PICK n \in T : X = 1 .. n
  BY <1>2
<1>4. ASSUME NEW m \in T, m < n PROVE FALSE
  <2>1. 1 .. m \in Upto /\ 1 .. m \subseteq 1 .. n /\ n \notin 1 .. m /\ n \in 1 .. n
    BY <1>4
  <2>2. <<1 .. m, X>> \in StrictSubsetOrdering(Nat)
    BY <2>1, <1>3 DEF StrictSubsetOrdering
  <2> QED BY <2>1, <2>2, <1>2
<1> QED BY <1>4

\* An answer moves a level up by at most one and stays within 0..5.
LEMMA ApplyEventStep ==
  ASSUME NEW l \in Level, NEW event
  PROVE  /\ ApplyEvent(l, event) \in Level
         /\ l <= ApplyEvent(l, event) /\ ApplyEvent(l, event) <= l + 1
BY DEF ApplyEvent, Level, MaxLevel

IsFold(f, sorted, n, initial) ==
  f = [i \in 0 .. n |->
         IF i = 0 THEN initial ELSE ApplyEvent(f[i - 1], sorted[i])]

\* The recursion that defines Levels has a solution for every length.
LEMMA FoldExists ==
  ASSUME NEW n \in Nat, NEW sorted, NEW initial
  PROVE  \E f : IsFold(f, sorted, n, initial)
<1> DEFINE Bad == {m \in Nat : ~\E f : IsFold(f, sorted, m, initial)}
<1>1. SUFFICES ASSUME Bad # {} PROVE FALSE
  OBVIOUS
<1>2. PICK m \in Bad : \A k \in Bad : m <= k
  BY <1>1, LeastNat
<1>3. CASE m = 0
  <2>1. IsFold([i \in 0 .. 0 |-> initial], sorted, 0, initial)
    BY DEF IsFold
  <2> QED BY <1>2, <1>3, <2>1
<1>4. CASE m # 0
  <2>1. m - 1 \in Nat /\ m - 1 \notin Bad
    BY <1>2, <1>4
  <2>2. PICK g : IsFold(g, sorted, m - 1, initial)
    BY <2>1
  <2> DEFINE f == [i \in 0 .. m |-> IF i = m THEN ApplyEvent(g[m - 1], sorted[m])
                                    ELSE g[i]]
  <2>3. \A i \in 0 .. m : f[i] = IF i = 0 THEN initial
                                 ELSE ApplyEvent(f[i - 1], sorted[i])
    <3> TAKE i \in 0 .. m
    <3>1. CASE i = m
      <4>1. m - 1 \in 0 .. m /\ m - 1 # m /\ f[m - 1] = g[m - 1]
        BY <1>4, <2>1
      <4> QED BY <3>1, <4>1, <1>4
    <3>2. CASE i # m
      <4>1. i \in 0 .. m - 1 /\ f[i] = g[i]
        BY <3>2, <1>2
      <4>2. i # 0 => i - 1 \in 0 .. m /\ f[i - 1] = g[i - 1]
        BY <3>2, <1>2
      <4>3. g[i] = IF i = 0 THEN initial ELSE ApplyEvent(g[i - 1], sorted[i])
        BY <2>2, <4>1 DEF IsFold
      <4> QED BY <4>1, <4>2, <4>3
    <3> QED BY <3>1, <3>2
  <2>4. IsFold(f, sorted, m, initial)
    BY <2>3 DEF IsFold
  <2> QED BY <1>2, <2>4
<1> QED BY <1>3, <1>4

LEMMA LevelsIsFold ==
  ASSUME NEW n \in Nat, NEW sorted, NEW initial
  PROVE  IsFold(Levels(sorted, n, initial), sorted, n, initial)
BY FoldExists DEF Levels, IsFold

\* After any number of answers the level lies between the initial one and 5.
LEMMA LevelsInRange ==
  ASSUME NEW n \in Nat, NEW sorted, NEW initial \in Level, NEW i \in 0 .. n
  PROVE  /\ Levels(sorted, n, initial)[i] \in Level
         /\ initial <= Levels(sorted, n, initial)[i]
<1> DEFINE f == Levels(sorted, n, initial)
           Good(k) == f[k] \in Level /\ initial <= f[k]
           Bad == {k \in 0 .. n : ~Good(k)}
<1>0. \A k \in 0 .. n : f[k] = IF k = 0 THEN initial
                               ELSE ApplyEvent(f[k - 1], sorted[k])
  BY LevelsIsFold DEF IsFold
<1> HIDE DEF f
<1>1. SUFFICES ASSUME Bad # {} PROVE FALSE
  BY DEF f
<1>2. PICK m \in Bad : \A k \in Bad : m <= k
  <2>1. Bad \in SUBSET Nat
    OBVIOUS
  <2> HIDE DEF Bad
  <2> QED BY <1>1, <2>1, LeastNat
<1>3. CASE m = 0
  BY <1>0, <1>2, <1>3 DEF Level, MaxLevel
<1>4. CASE m # 0
  <2>1. m - 1 \in 0 .. n /\ Good(m - 1)
    BY <1>2, <1>4
  <2>2. f[m] = ApplyEvent(f[m - 1], sorted[m])
    BY <1>0, <1>2, <1>4
  <2>3. ApplyEvent(f[m - 1], sorted[m]) \in Level
        /\ f[m - 1] <= ApplyEvent(f[m - 1], sorted[m])
    BY <2>1, ApplyEventStep
  <2> QED BY <1>2, <2>1, <2>2, <2>3 DEF Level, MaxLevel
<1> QED BY <1>3, <1>4

\* foldStrength never leaves initial..5, whatever the history and its order.
THEOREM FoldInRange ==
  ASSUME NEW events, IsFiniteSet(DOMAIN events), NEW initial \in Level
  PROVE  /\ FoldStrength(events, initial) \in Level
         /\ initial <= FoldStrength(events, initial)
<1> DEFINE n == Cardinality(DOMAIN events)
<1>1. n \in Nat
  BY FS_CardinalityType
<1>2. n \in 0 .. n
  BY <1>1
<1> QED BY <1>1, <1>2, LevelsInRange DEF FoldStrength

\* A finite set of naturals that is not empty has a greatest member.
LEMMA GreatestNat ==
  ASSUME NEW S \in SUBSET Nat, IsFiniteSet(S), S # {}
  PROVE  Max(S) \in S /\ \A y \in S : y <= Max(S)
<1> DEFINE Unbounded(U) == U # {} /\ ~\E x \in U : \A y \in U : y <= x
           Bad == {n \in Nat : \E U \in SUBSET Nat :
                     IsFiniteSet(U) /\ Cardinality(U) = n /\ Unbounded(U)}
<1>1. Bad = {}
  <2>1. SUFFICES ASSUME Bad # {} PROVE FALSE
    OBVIOUS
  <2>2. PICK n \in Bad : \A m \in Bad : n <= m
    <3>1. Bad \in SUBSET Nat
      OBVIOUS
    <3> HIDE DEF Bad
    <3> QED BY <2>1, <3>1, LeastNat
  <2>3. PICK U \in SUBSET Nat :
          IsFiniteSet(U) /\ Cardinality(U) = n /\ Unbounded(U)
    BY <2>2
  <2>4. PICK u \in U : TRUE
    BY <2>3
  <2> DEFINE V == U \ {u}
  <2>5. IsFiniteSet(V) /\ Cardinality(V) = n - 1 /\ n - 1 \in Nat
    <3>1. IsFiniteSet(V) /\ Cardinality(V) = Cardinality(U) - 1
      BY <2>3, <2>4, FS_RemoveElement
    <3>2. Cardinality(V) \in Nat
      BY <3>1, FS_CardinalityType
    <3> QED BY <3>1, <3>2, <2>3
  <2>6. ~Unbounded(V)
    BY <2>2, <2>5
  <2>7. CASE V = {}
    BY <2>3, <2>4, <2>7
  <2>8. CASE V # {}
    <3>1. PICK x \in V : \A y \in V : y <= x
      BY <2>6, <2>8
    <3>2. \A y \in U : y <= IF x <= u THEN u ELSE x
      BY <3>1
    <3> QED BY <3>1, <3>2, <2>3, <2>4
  <2> QED BY <2>7, <2>8
<1>2. IsFiniteSet(S) => Cardinality(S) \in Nat
  BY FS_CardinalityType
<1>3. \E x \in S : \A y \in S : y <= x
  BY <1>1, <1>2
<1>4. \E x \in S : \A y \in S : x >= y
  BY <1>3
<1> QED BY <1>4 DEF Max

\* The time of the last answer of either kind is that of one of the answers,
\* or null.
LEMMA LastAtType ==
  ASSUME NEW events, IsFiniteSet(DOMAIN events), NEW correct,
         \A i \in DOMAIN events : events[i].at \in Nat
  PROVE  LastAt(events, correct) \in Nat
<1> DEFINE D == {i \in DOMAIN events : events[i].correct = correct}
           times == {events[i].at : i \in D}
<1>1. IsFiniteSet(D)
  BY FS_Subset
<1>2. IsFiniteSet(times)
  <2> DEFINE f == [i \in D |-> events[i].at]
  <2>1. f \in Surjection(D, times)
    BY DEF Surjection
  <2> QED BY <1>1, <2>1, FS_Surjection
<1>3. times \in SUBSET Nat
  OBVIOUS
<1>4. times # {} => Max(times) \in Nat
  BY <1>2, <1>3, GreatestNat
<1> QED BY <1>4 DEF LastAt, NoTime

(***************************************************************************)
(* InOrder, for a total order of a finite set.                             *)
(***************************************************************************)
Orders(R, S) ==
  /\ \A x, y \in S : x # y => <<x, y>> \in R \/ <<y, x>> \in R
  /\ \A x, y \in S : <<x, y>> \in R => <<y, x>> \notin R
  /\ \A x, y, z \in S : <<x, y>> \in R /\ <<y, z>> \in R => <<x, z>> \in R

Below(S, R, x) == {y \in S : <<y, x>> \in R}

LEMMA RankType ==
  ASSUME NEW S, IsFiniteSet(S), NEW R, Orders(R, S), NEW x \in S
  PROVE  /\ IsFiniteSet(Below(S, R, x))
         /\ Cardinality(Below(S, R, x)) \in 0 .. Cardinality(S) - 1
<1>1. /\ IsFiniteSet(S \ {x}) /\ Cardinality(S) \in Nat
      /\ Cardinality(S \ {x}) = Cardinality(S) - 1
  BY FS_RemoveElement, FS_CardinalityType
<1>2. Below(S, R, x) \in SUBSET (S \ {x})
  BY DEF Below, Orders
<1>3. /\ IsFiniteSet(Below(S, R, x))
      /\ Cardinality(Below(S, R, x)) <= Cardinality(S \ {x})
  BY <1>1, <1>2, FS_Subset
<1>4. Cardinality(Below(S, R, x)) \in Nat
  BY <1>3, FS_CardinalityType
<1> QED BY <1>1, <1>3, <1>4

LEMMA RankRises ==
  ASSUME NEW S, IsFiniteSet(S), NEW R, Orders(R, S), NEW x \in S, NEW y \in S,
         <<x, y>> \in R
  PROVE  Cardinality(Below(S, R, x)) < Cardinality(Below(S, R, y))
<1>1. /\ IsFiniteSet(Below(S, R, x)) /\ Cardinality(Below(S, R, x)) \in Nat
      /\ IsFiniteSet(Below(S, R, y)) /\ Cardinality(Below(S, R, y)) \in Nat
  BY RankType
<1>2. x \notin Below(S, R, x)
  BY DEF Below, Orders
<1>3. Below(S, R, x) \union {x} \in SUBSET Below(S, R, y)
  BY DEF Below, Orders
<1>4. Cardinality(Below(S, R, x) \union {x}) = Cardinality(Below(S, R, x)) + 1
  BY <1>1, <1>2, FS_AddElement
<1>5. Cardinality(Below(S, R, x) \union {x}) <= Cardinality(Below(S, R, y))
  BY <1>1, <1>3, FS_Subset
<1> QED BY <1>1, <1>4, <1>5

\* Each place is taken by one member: InOrder lists S without repetition, from
\* the least to the greatest.
LEMMA InOrderLists ==
  ASSUME NEW S, IsFiniteSet(S), NEW R, Orders(R, S)
  PROVE  /\ Cardinality(S) \in Nat
         /\ InOrder(S, R) \in [1 .. Cardinality(S) -> S]
         /\ \A k \in 1 .. Cardinality(S) :
              Cardinality(Below(S, R, InOrder(S, R)[k])) = k - 1
         /\ \A x \in S : \E k \in 1 .. Cardinality(S) : InOrder(S, R)[k] = x
         /\ \A k, l \in 1 .. Cardinality(S) :
              k < l => <<InOrder(S, R)[k], InOrder(S, R)[l]>> \in R
<1> DEFINE n == Cardinality(S)
           rank == [x \in S |-> Cardinality(Below(S, R, x)) + 1]
           o == InOrder(S, R)
<1>1. n \in Nat
  BY FS_CardinalityType
<1>2. rank \in [S -> 1 .. n]
  <2> SUFFICES ASSUME NEW x \in S
               PROVE  Cardinality(Below(S, R, x)) + 1 \in 1 .. n
    OBVIOUS
  <2>1. Cardinality(Below(S, R, x)) \in 0 .. n - 1
    BY RankType
  <2> QED BY <1>1, <2>1
<1>3. \A x, y \in S : rank[x] = rank[y] => x = y
  <2> SUFFICES ASSUME NEW x \in S, NEW y \in S, x # y
               PROVE  Cardinality(Below(S, R, x)) # Cardinality(Below(S, R, y))
    BY <1>1, RankType
  <2>1. <<x, y>> \in R \/ <<y, x>> \in R
    BY DEF Orders
  <2>2. Cardinality(Below(S, R, x)) \in Int /\ Cardinality(Below(S, R, y)) \in Int
    BY RankType, <1>1
  <2> QED BY <2>1, <2>2, RankRises
<1>4. \A k \in 1 .. n : \E x \in S : rank[x] = k
  <2>1. rank \in Injection(S, 1 .. n)
    BY <1>2, <1>3 DEF Injection, IsInjective
  <2>2. IsFiniteSet(1 .. n) /\ Cardinality(1 .. n) = n
    BY <1>1, FS_Interval
  <2>3. rank \in Surjection(S, 1 .. n)
    <3> HIDE DEF rank, n
    <3>1. Cardinality(S) = Cardinality(1 .. n)
      BY <2>2 DEF n
    <3> QED BY <2>1, <2>2, <3>1, FS_Injection
  <2> HIDE DEF rank
  <2> QED BY <2>3 DEF Surjection
<1>5. \A k \in 1 .. n : o[k] \in S /\ rank[o[k]] = k
  <2> SUFFICES ASSUME NEW k \in 1 .. n
               PROVE  o[k] \in S /\ Cardinality(Below(S, R, o[k])) + 1 = k
    OBVIOUS
  <2>1. PICK x \in S : Cardinality(Below(S, R, x)) + 1 = k
    BY <1>4
  <2>2. Cardinality(Below(S, R, x)) = k - 1
    BY <2>1, <1>1, RankType
  <2>3. o[k] = CHOOSE z \in S : Cardinality({y \in S : <<y, z>> \in R}) = k - 1
    BY DEF InOrder
  <2>4. o[k] \in S /\ Cardinality({y \in S : <<y, o[k]>> \in R}) = k - 1
    BY <2>2, <2>3 DEF Below
  <2> QED BY <2>4 DEF Below
<1>6. o \in [1 .. n -> S]
  BY <1>5 DEF InOrder
<1>7. \A k \in 1 .. n : Cardinality(Below(S, R, o[k])) = k - 1
  <2> TAKE k \in 1 .. n
  <2>1. o[k] \in S /\ Cardinality(Below(S, R, o[k])) + 1 = k
    BY <1>5
  <2>2. Cardinality(Below(S, R, o[k])) \in Int
    BY <2>1, <1>1, RankType
  <2> HIDE DEF o
  <2> QED BY <2>1, <2>2
<1>8. \A x \in S : \E k \in 1 .. n : o[k] = x
  <2> TAKE x \in S
  <2>1. rank[x] \in 1 .. n
    BY <1>2
  <2> HIDE DEF rank, o
  <2> QED BY <2>1, <1>3, <1>5
<1>9. \A k, l \in 1 .. n : k < l => <<o[k], o[l]>> \in R
  <2> SUFFICES ASSUME NEW k \in 1 .. n, NEW l \in 1 .. n, k < l,
                      <<o[k], o[l]>> \notin R
               PROVE  FALSE
    OBVIOUS
  <2>1. o[k] \in S /\ o[l] \in S
    BY <1>5
  <2>2. o[k] # o[l]
    BY <1>7
  <2>3. <<o[l], o[k]>> \in R
    BY <2>1, <2>2 DEF Orders
  <2>4. Cardinality(Below(S, R, o[l])) < Cardinality(Below(S, R, o[k]))
    BY <2>1, <2>3, RankRises
  <2> QED BY <2>4, <1>7
<1> QED BY <1>1, <1>6, <1>7, <1>8, <1>9

LEMMA RankInjective ==
  ASSUME NEW S, IsFiniteSet(S), NEW R, Orders(R, S), NEW x \in S, NEW y \in S,
         Cardinality(Below(S, R, x)) = Cardinality(Below(S, R, y))
  PROVE  x = y
<1>1. /\ Cardinality(Below(S, R, x)) \in Int
      /\ x # y => <<x, y>> \in R \/ <<y, x>> \in R
  BY RankType, FS_CardinalityType DEF Orders
<1> QED BY <1>1, RankRises

\* It is the only such list.
LEMMA InOrderUnique ==
  ASSUME NEW S, IsFiniteSet(S), NEW R, Orders(R, S),
         NEW s \in [1 .. Cardinality(S) -> S],
         \A k, l \in 1 .. Cardinality(S) : k < l => <<s[k], s[l]>> \in R
  PROVE  InOrder(S, R) = s
<1> DEFINE n == Cardinality(S)
           o == InOrder(S, R)
<1>1. /\ n \in Nat /\ o \in [1 .. n -> S]
      /\ \A k \in 1 .. n : Cardinality(Below(S, R, o[k])) = k - 1
  BY InOrderLists
<1>2. \A k, l \in 1 .. n : s[k] = s[l] => k = l
  <2> SUFFICES ASSUME NEW k \in 1 .. n, NEW l \in 1 .. n, k < l, s[k] = s[l]
               PROVE  FALSE
    BY <1>1
  <2>1. s[k] \in S /\ <<s[k], s[l]>> \in R
    OBVIOUS
  <2> QED BY <2>1 DEF Orders
<1>3. \A x \in S : \E k \in 1 .. n : s[k] = x
  <2>1. IsFiniteSet(1 .. n) /\ Cardinality(1 .. n) = n
    BY <1>1, FS_Interval
  <2>2. s \in Injection(1 .. n, S)
    BY <1>2 DEF Injection, IsInjective
  <2>3. s \in Surjection(1 .. n, S)
    <3> HIDE DEF n
    <3>1. Cardinality(1 .. n) = Cardinality(S)
      BY <2>1 DEF n
    <3> QED BY <2>1, <2>2, <3>1, FS_Injection
  <2> QED BY <2>3 DEF Surjection
<1>4. ASSUME NEW k \in 1 .. n PROVE Cardinality(Below(S, R, s[k])) = k - 1
  <2> DEFINE f == [l \in 1 .. k - 1 |-> s[l]]
             B == Below(S, R, s[k])
  <2>1. \A l \in 1 .. k - 1 : l \in 1 .. n /\ l < k
    BY <1>1
  <2>2. \A x \in B : \E l \in 1 .. k - 1 : s[l] = x
    <3> SUFFICES ASSUME NEW x \in B PROVE \E l \in 1 .. k - 1 : s[l] = x
      OBVIOUS
    <3>1. PICK l \in 1 .. n : s[l] = x
      BY <1>3 DEF Below
    <3>2. <<s[l], s[k]>> \in R /\ s[l] \in S /\ s[k] \in S
      BY <3>1 DEF Below
    <3>3. l < k
      <4>1. l # k
        BY <3>2 DEF Orders
      <4>2. k < l => <<s[k], s[l]>> \in R
        OBVIOUS
      <4>3. ~(k < l)
        BY <3>2, <4>2 DEF Orders
      <4> QED BY <4>1, <4>3, <1>1
    <3> QED BY <3>1, <3>3, <1>1
  <2>3. \A l \in 1 .. k - 1 : s[l] \in B
    BY <2>1 DEF Below
  <2>4. f \in [1 .. k - 1 -> B]
    BY <2>3
  <2>5. f \in Bijection(1 .. k - 1, B)
    BY <1>2, <2>1, <2>2, <2>4 DEF Bijection, Injection, Surjection, IsInjective
  <2>6. k - 1 \in Nat
    BY <1>1
  <2>7. ExistsBijection(1 .. k - 1, B)
    BY <2>5 DEF ExistsBijection
  <2> HIDE DEF B
  <2>8. Cardinality(B) = k - 1
    BY <2>6, <2>7, FS_CountingElements
  <2> QED BY <2>8 DEF B
<1>5. ASSUME NEW k \in 1 .. n PROVE o[k] = s[k]
  <2>1. o[k] \in S /\ s[k] \in S
    BY <1>1
  <2>2. Cardinality(Below(S, R, o[k])) = Cardinality(Below(S, R, s[k]))
    BY <1>1, <1>4
  <2> HIDE DEF o
  <2> QED BY <2>1, <2>2, RankInjective
<1> HIDE DEF o
<1> QED BY <1>1, <1>5 DEF o

(***************************************************************************)
(* The fold over events in the order of their times.                       *)
(***************************************************************************)
Timed(events) ==
  /\ DOMAIN events \subseteq Nat /\ IsFiniteSet(DOMAIN events)
  /\ \A i \in DOMAIN events : events[i].at \in Nat

Ascending(events, o) ==
  LET n == Cardinality(DOMAIN events)
  IN  /\ o \in [1 .. n -> DOMAIN events]
      /\ \A k, l \in 1 .. n : k < l => <<o[k], o[l]>> \in Before(events)

Along(events, o) == [k \in 1 .. Cardinality(DOMAIN events) |-> events[o[k]]]

LEMMA BeforeOrders ==
  ASSUME NEW events, Timed(events)
  PROVE  Orders(Before(events), DOMAIN events)
<1> DEFINE D == DOMAIN events
<1>1. \A i, j \in D : <<i, j>> \in Before(events)
        <=> events[i].at < events[j].at \/ (events[i].at = events[j].at /\ i < j)
  BY DEF Before
<1>2. \A i \in D : i \in Nat /\ events[i].at \in Nat
  BY DEF Timed
<1> QED BY <1>1, <1>2 DEF Orders

LEMMA ByTimeLists ==
  ASSUME NEW events, Timed(events)
  PROVE  /\ Cardinality(DOMAIN events) \in Nat
         /\ \E o : /\ Ascending(events, o)
                   /\ \A i \in DOMAIN events :
                        \E k \in 1 .. Cardinality(DOMAIN events) : o[k] = i
                   /\ ByTime(events) = Along(events, o)
<1> DEFINE o == InOrder(DOMAIN events, Before(events))
<1>1. Orders(Before(events), DOMAIN events) /\ IsFiniteSet(DOMAIN events)
  BY BeforeOrders DEF Timed
<1>2. /\ Cardinality(DOMAIN events) \in Nat /\ Ascending(events, o)
      /\ \A i \in DOMAIN events :
           \E k \in 1 .. Cardinality(DOMAIN events) : o[k] = i
  BY <1>1, InOrderLists DEF Ascending
<1>3. ByTime(events) = Along(events, o)
  BY DEF ByTime, Along
<1> HIDE DEF o
<1> QED BY <1>2, <1>3

LEMMA ByTimeIs ==
  ASSUME NEW events, Timed(events), NEW o, Ascending(events, o)
  PROVE  ByTime(events) = Along(events, o)
<1>1. Orders(Before(events), DOMAIN events) /\ IsFiniteSet(DOMAIN events)
  BY BeforeOrders DEF Timed
<1>2. InOrder(DOMAIN events, Before(events)) = o
  BY <1>1, InOrderUnique DEF Ascending
<1> QED BY <1>2 DEF ByTime, Along

\* The same events under other positions, none overtaking another, earn the
\* same level.
LEMMA Reindexed ==
  ASSUME NEW events, Timed(events), NEW other, Timed(other),
         NEW p \in Bijection(DOMAIN other, DOMAIN events),
         \A i \in DOMAIN other : other[i] = events[p[i]],
         \A i, j \in DOMAIN other :
           <<i, j>> \in Before(other) => <<p[i], p[j]>> \in Before(events),
         NEW initial
  PROVE  /\ Cardinality(DOMAIN other) = Cardinality(DOMAIN events)
         /\ ByTime(other) = ByTime(events)
         /\ FoldStrength(other, initial) = FoldStrength(events, initial)
<1> DEFINE n == Cardinality(DOMAIN events)
<1>1. Cardinality(DOMAIN other) = n
  <2>1. IsFiniteSet(DOMAIN other) /\ ExistsBijection(DOMAIN other, DOMAIN events)
    BY DEF Timed, ExistsBijection
  <2> QED BY <2>1, FS_Bijection
<1>2. PICK o : Ascending(other, o) /\ ByTime(other) = Along(other, o)
  BY ByTimeLists
<1> DEFINE q == [k \in 1 .. n |-> p[o[k]]]
<1>3. \A k \in 1 .. n : o[k] \in DOMAIN other /\ q[k] \in DOMAIN events
  BY <1>1, <1>2 DEF Ascending, Bijection, Injection
<1>4. \A k, l \in 1 .. n : k < l => <<q[k], q[l]>> \in Before(events)
  BY <1>1, <1>2, <1>3 DEF Ascending
<1>5. Ascending(events, q)
  BY <1>3, <1>4 DEF Ascending
<1>6. ByTime(events) = Along(events, q)
  <2> HIDE DEF q
  <2> QED BY <1>5, ByTimeIs
<1>7. ByTime(other) = ByTime(events)
  BY <1>1, <1>2, <1>3, <1>6 DEF Along
<1> QED BY <1>1, <1>7 DEF FoldStrength

\* A higher level stays at least as high after the same answer.
LEMMA ApplyEventMonotone ==
  ASSUME NEW l \in Level, NEW m \in Level, l <= m, NEW event
  PROVE  ApplyEvent(l, event) <= ApplyEvent(m, event)
<1>1. CASE l = m
  BY <1>1 DEF ApplyEvent, Level, MaxLevel
<1>2. CASE l # m
  BY <1>2, ApplyEventStep DEF Level, MaxLevel
<1> QED BY <1>1, <1>2

\* One answer more, wherever it falls, never earns less.
LEMMA OneMore ==
  ASSUME NEW n \in Nat, NEW s, NEW t, NEW r \in 1 .. n + 1, NEW initial \in Level,
         \A k \in 1 .. n : t[k] = IF k < r THEN s[k] ELSE s[k + 1]
  PROVE  Levels(t, n, initial)[n] <= Levels(s, n + 1, initial)[n + 1]
<1> DEFINE f == Levels(s, n + 1, initial)
           g == Levels(t, n, initial)
           Good(k) == IF k < r THEN g[k] = f[k] ELSE g[k] <= f[k + 1]
           Bad == {k \in 0 .. n : ~Good(k)}
<1>1. \A k \in 0 .. n + 1 :
        /\ f[k] = IF k = 0 THEN initial ELSE ApplyEvent(f[k - 1], s[k])
        /\ f[k] \in Level
  BY LevelsIsFold, LevelsInRange DEF IsFold
<1>2. \A k \in 0 .. n :
        /\ g[k] = IF k = 0 THEN initial ELSE ApplyEvent(g[k - 1], t[k])
        /\ g[k] \in Level
  BY LevelsIsFold, LevelsInRange DEF IsFold
<1> HIDE DEF f, g
<1>3. \A k \in 1 .. n + 1 : f[k - 1] <= f[k]
  <2> TAKE k \in 1 .. n + 1
  <2>1. k \in 0 .. n + 1 /\ k - 1 \in 0 .. n + 1 /\ k # 0
    OBVIOUS
  <2> QED BY <2>1, <1>1, ApplyEventStep
<1>4. Bad = {}
  <2>1. SUFFICES ASSUME Bad # {} PROVE FALSE
    OBVIOUS
  <2>2. PICK m \in Bad : \A k \in Bad : m <= k
    <3>1. Bad \in SUBSET Nat
      OBVIOUS
    <3> HIDE DEF Bad
    <3> QED BY <2>1, <3>1, LeastNat
  <2>3. CASE m = 0
    BY <1>1, <1>2, <2>2, <2>3
  <2>4. CASE m # 0
    <3>1. m \in 1 .. n /\ m - 1 \in 0 .. n /\ m - 1 \notin Bad
      BY <2>2, <2>4
    <3>2. g[m] = ApplyEvent(g[m - 1], t[m]) /\ g[m - 1] \in Level
      BY <1>2, <3>1
    <3>3. CASE m < r
      <4>1. t[m] = s[m] /\ g[m - 1] = f[m - 1]
        BY <3>1, <3>3
      <4>2. f[m] = ApplyEvent(f[m - 1], s[m])
        BY <1>1, <3>1
      <4> QED BY <2>2, <3>2, <3>3, <4>1, <4>2
    <3>4. CASE ~(m < r)
      <4>1. t[m] = s[m + 1]
        BY <3>1, <3>4
      <4>2. f[m + 1] = ApplyEvent(f[m], s[m + 1]) /\ f[m] \in Level
        BY <1>1, <3>1
      <4>3. g[m - 1] <= f[m]
        <5>1. CASE m = r
          <6>1. g[m - 1] = f[m - 1]
            BY <3>1, <5>1
          <6> QED BY <6>1, <1>3, <3>1
        <5>2. CASE m # r
          BY <3>1, <3>4, <5>2
        <5> QED BY <5>1, <5>2
      <4> QED BY <2>2, <3>2, <3>4, <4>1, <4>2, <4>3, ApplyEventMonotone
    <3> QED BY <3>3, <3>4
  <2> QED BY <2>3, <2>4
<1>5. Good(n)
  BY <1>4
<1>6. n < r => g[n] <= f[n + 1]
  BY <1>3, <1>5, <1>1, <1>2 DEF Level
<1> QED BY <1>5, <1>6 DEF f, g

\* Taking one answer away never raises the level.
LEMMA OneLess ==
  ASSUME NEW events, Timed(events), NEW x \in DOMAIN events,
         NEW rest, rest = [i \in (DOMAIN events) \ {x} |-> events[i]],
         NEW initial \in Level
  PROVE  /\ Timed(rest)
         /\ FoldStrength(rest, initial) <= FoldStrength(events, initial)
<1> DEFINE D == DOMAIN events
           n == Cardinality(DOMAIN rest)
<1>1. /\ IsFiniteSet(DOMAIN rest) /\ n \in Nat /\ Cardinality(D) = n + 1
      /\ DOMAIN rest = D \ {x}
  <2>1. IsFiniteSet(D \ {x}) /\ Cardinality(D \ {x}) = Cardinality(D) - 1
        /\ Cardinality(D) \in Nat
    BY FS_RemoveElement, FS_CardinalityType DEF Timed
  <2>2. Cardinality(D \ {x}) \in Nat
    BY <2>1, FS_CardinalityType
  <2> QED BY <2>1, <2>2
<1>2. Timed(rest)
  BY <1>1 DEF Timed
<1>3. PICK o : /\ Ascending(events, o)
               /\ \A i \in D : \E k \in 1 .. n + 1 : o[k] = i
               /\ ByTime(events) = [k \in 1 .. n + 1 |-> events[o[k]]]
  <2>1. PICK o : /\ Ascending(events, o)
                 /\ \A i \in D : \E k \in 1 .. Cardinality(D) : o[k] = i
                 /\ ByTime(events) = Along(events, o)
    BY ByTimeLists
  <2> QED BY <2>1, <1>1 DEF Along
<1>4. PICK r \in 1 .. n + 1 : o[r] = x
  BY <1>3
<1> DEFINE q == [k \in 1 .. n |-> IF k < r THEN o[k] ELSE o[k + 1]]
<1>5. \A k, l \in 1 .. n + 1 :
        k < l => o[k] # o[l] /\ o[k] \in D /\ o[l] \in D /\ <<o[k], o[l]>> \in Before(events)
  <2>1. Orders(Before(events), D)
    BY BeforeOrders
  <2>2. o \in [1 .. n + 1 -> D]
        /\ \A k, l \in 1 .. n + 1 : k < l => <<o[k], o[l]>> \in Before(events)
    BY <1>1, <1>3 DEF Ascending
  <2> QED BY <2>1, <2>2 DEF Orders
<1>6. \A k \in 1 .. n : q[k] \in D \ {x}
  <2> TAKE k \in 1 .. n
  <2>1. CASE k < r
    <3>1. k \in 1 .. n + 1
      BY <1>1
    <3> QED BY <1>4, <1>5, <2>1, <3>1
  <2>2. CASE ~(k < r)
    <3>1. r < k + 1 /\ k + 1 \in 1 .. n + 1
      BY <1>1, <2>2
    <3> QED BY <1>4, <1>5, <2>2, <3>1
  <2> QED BY <2>1, <2>2
<1>7. \A k, l \in 1 .. n : k < l => <<q[k], q[l]>> \in Before(events)
  <2> SUFFICES ASSUME NEW k \in 1 .. n, NEW l \in 1 .. n, k < l
               PROVE  <<q[k], q[l]>> \in Before(events)
    OBVIOUS
  <2>1. /\ k \in 1 .. n + 1 /\ l \in 1 .. n + 1
        /\ k + 1 \in 1 .. n + 1 /\ l + 1 \in 1 .. n + 1
        /\ k + 1 < l + 1 /\ k < l + 1
    BY <1>1
  <2> QED BY <1>5, <2>1
<1>8. Ascending(rest, q)
  <2>1. \A i, j \in D \ {x} : <<i, j>> \in Before(events) => <<i, j>> \in Before(rest)
    BY <1>1 DEF Before
  <2> QED BY <1>1, <1>6, <1>7, <2>1 DEF Ascending
<1>9. ByTime(rest) = [k \in 1 .. n |-> rest[q[k]]]
  <2> HIDE DEF q
  <2>1. ByTime(rest) = Along(rest, q)
    BY <1>2, <1>8, ByTimeIs
  <2> QED BY <2>1 DEF Along
<1>10. \A k \in 1 .. n : ByTime(rest)[k] = IF k < r THEN ByTime(events)[k]
                                           ELSE ByTime(events)[k + 1]
  <2> TAKE k \in 1 .. n
  <2>1. ByTime(rest)[k] = events[q[k]]
    BY <1>1, <1>6, <1>9
  <2>2. k \in 1 .. n + 1 /\ k + 1 \in 1 .. n + 1
    BY <1>1
  <2> QED BY <1>3, <2>1, <2>2
<1>11. Levels(ByTime(rest), n, initial)[n]
         <= Levels(ByTime(events), n + 1, initial)[n + 1]
  BY <1>1, <1>10, OneMore
<1> QED BY <1>1, <1>2, <1>11 DEF FoldStrength

\* The level is the initial one, or no more than the ceiling of some answer
\* that was right.
LEMMA CeilingHolds ==
  ASSUME NEW events, Timed(events), \A i \in DOMAIN events : events[i].mode \in Mode,
         NEW initial \in Level
  PROVE  \/ FoldStrength(events, initial) = initial
         \/ \E i \in DOMAIN events :
              /\ events[i].correct
              /\ FoldStrength(events, initial) <= ModeCeiling[events[i].mode]
<1> DEFINE n == Cardinality(DOMAIN events)
           s == ByTime(events)
           f == Levels(s, n, initial)
           Good(k) == \/ f[k] = initial
                      \/ \E i \in DOMAIN events :
                           events[i].correct /\ f[k] <= ModeCeiling[events[i].mode]
           Bad == {k \in 0 .. n : ~Good(k)}
<1>1. n \in Nat /\ \A k \in 1 .. n : \E i \in DOMAIN events : s[k] = events[i]
  <2>1. PICK o : Ascending(events, o) /\ s = Along(events, o)
    BY ByTimeLists
  <2>2. n \in Nat
    BY ByTimeLists
  <2> HIDE DEF s, n
  <2>3. \A k \in 1 .. n : o[k] \in DOMAIN events
    BY <2>1 DEF Ascending, n
  <2> QED BY <2>1, <2>2, <2>3 DEF Along, n
<1>2. \A k \in 0 .. n : /\ f[k] = IF k = 0 THEN initial ELSE ApplyEvent(f[k - 1], s[k])
                        /\ f[k] \in Level
  BY <1>1, LevelsIsFold, LevelsInRange DEF IsFold
<1> HIDE DEF f, s, n
<1>3. Bad = {}
  <2>1. SUFFICES ASSUME Bad # {} PROVE FALSE
    OBVIOUS
  <2>2. PICK m \in Bad : \A k \in Bad : m <= k
    <3>1. Bad \in SUBSET Nat
      OBVIOUS
    <3> HIDE DEF Bad
    <3> QED BY <2>1, <3>1, LeastNat
  <2>3. CASE m = 0
    BY <1>1, <1>2, <2>2, <2>3
  <2>4. CASE m # 0
    <3>1. m \in 1 .. n /\ m - 1 \in 0 .. n /\ m - 1 \notin Bad
      BY <1>1, <2>2, <2>4
    <3>2. f[m] = ApplyEvent(f[m - 1], s[m]) /\ f[m - 1] \in Level
      BY <1>2, <3>1
    <3>3. CASE f[m] = f[m - 1]
      BY <2>2, <3>1, <3>3
    <3>4. CASE f[m] # f[m - 1]
      <4>1. PICK i \in DOMAIN events : s[m] = events[i]
        BY <1>1, <3>1
      <4>2. /\ events[i].correct /\ f[m] = f[m - 1] + 1
            /\ f[m - 1] < ModeCeiling[events[i].mode]
        BY <3>2, <3>4, <4>1 DEF ApplyEvent
      <4>3. ModeCeiling[events[i].mode] \in Nat
        BY DEF ModeCeiling, Mode
      <4>4. f[m] <= ModeCeiling[events[i].mode]
        BY <3>2, <4>2, <4>3 DEF Level
      <4> QED BY <2>2, <4>2, <4>4
    <3> QED BY <3>3, <3>4
  <2> QED BY <2>3, <2>4
<1>4. Good(n)
  BY <1>1, <1>3
<1>5. FoldStrength(events, initial) = f[n]
  BY DEF FoldStrength, f, s, n
<1> QED BY <1>4, <1>5
=============================================================================
