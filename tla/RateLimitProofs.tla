--------------------------- MODULE RateLimitProofs ---------------------------
(***************************************************************************)
(* The counters of RateLimit, for any number of calls, keys and limits.    *)
(* Owes counts the calls that were admitted on a key and have not counted  *)
(* themselves there yet: a counter and what is owed to it stay below the   *)
(* limit plus the calls that use it.                                       *)
(***************************************************************************)
EXTENDS RateLimit, FiniteSetTheorems, TLAPS

LEMMA KeyFacts ==
  ASSUME NEW c \in Call
  PROVE  /\ KeyOf(c, 1) \in Key /\ KeyOf(c, 2) \in Key
         /\ KeyOf(c, 1) # KeyOf(c, 2)
         /\ \A n \in {1, 2} : Limit(KeyOf(c, n)) \in Positive
                              /\ Window(KeyOf(c, n)) \in Positive
<1>1. KeyOf(c, 1).email = Request[c].email /\ KeyOf(c, 2).email = Every
  BY DEF KeyOf
<1>2. KeyOf(c, 1) # KeyOf(c, 2)
  BY <1>1, LimitAssumption
<1>3. KeyOf(c, 1) \in Key /\ KeyOf(c, 2) \in Key
  BY DEF Key
<1>4. \A n \in {1, 2} : Limit(KeyOf(c, n)) \in Positive
                        /\ Window(KeyOf(c, n)) \in Positive
  BY LimitAssumption DEF Limit, Window
<1> QED BY <1>2, <1>3, <1>4

LEMMA LimitFacts ==
  ASSUME NEW k \in Key
  PROVE  Limit(k) \in Positive /\ Window(k) \in Positive
BY LimitAssumption DEF Limit, Window

-----------------------------------------------------------------------------
(* Types.                                                                   *)

LEMMA InitType == Init => TypeOK
BY LimitFacts DEF Init, TypeOK, Positive

LEMMA NextType == TypeOK /\ [Next]_vars => TypeOK'
<1> SUFFICES ASSUME TypeOK, [Next]_vars PROVE TypeOK'
  OBVIOUS
<1> USE DEF TypeOK
<1>1. ASSUME NEW c \in Call, Start(c) PROVE TypeOK'
  BY <1>1 DEF Start, Goto
<1>2. ASSUME NEW c \in Call, Check(c) PROVE TypeOK'
  BY <1>2 DEF Check, Admit, Goto
<1>3. ASSUME NEW c \in Call, LoginFails(c) PROVE TypeOK'
  BY <1>3 DEF LoginFails, Goto
<1>4. ASSUME NEW c \in Call, LoginSucceeds(c) PROVE TypeOK'
  <2>1. KeyAt(c) \in Key
    BY KeyFacts DEF KeyAt
  <2> QED BY <1>4, <2>1, LimitFacts DEF LoginSucceeds, Goto, Positive
<1>5. ASSUME NEW c \in Call, Increment(c) PROVE TypeOK'
  <2>1. KeyAt(c) \in Key
    BY KeyFacts DEF KeyAt
  <2> QED BY <1>5, <2>1 DEF Increment, Counted, Goto
<1>6. ASSUME NEW c \in Call, Expire(c) PROVE TypeOK'
  <2>1. KeyAt(c) \in Key
    BY KeyFacts DEF KeyAt
  <2> QED BY <1>6, <2>1, LimitFacts DEF Expire, Counted, Goto, Positive
<1>7. ASSUME NEW c \in Call, BreaksOff(c) PROVE TypeOK'
  BY <1>7 DEF BreaksOff, Goto
<1>8. CASE Tick
  BY <1>8, LimitFacts DEF Tick, Positive
<1>9. CASE UNCHANGED vars
  BY <1>9 DEF vars
<1> QED BY <1>1, <1>2, <1>3, <1>4, <1>5, <1>6, <1>7, <1>8, <1>9
        DEF Next, Run, Step

\* Every variable keeps its type, and only a counter that exists has a lifetime.
THEOREM LimitTypeCorrect == Spec => []TypeOK
BY InitType, NextType, PTL DEF Spec

-----------------------------------------------------------------------------
(* The overshoot.                                                           *)

Owes(c, k) ==
  \/ pc[c] = "check" /\ nth[c] = 2 /\ KeyOf(c, 1) = k
  \/ pc[c] = "verify" /\ \E n \in {1, 2} : KeyOf(c, n) = k
  \/ pc[c] = "count" /\ \E n \in {1, 2} : nth[c] <= n /\ KeyOf(c, n) = k
  \/ pc[c] = "expire" /\ nth[c] = 1 /\ KeyOf(c, 2) = k

Debtors(k) == {c \in Call : Owes(c, k)}

OwedBounded ==
  \A k \in Key : count[k] + Cardinality(Debtors(k)) < Limit(k) + Cardinality(Users(k))

LEMMA Cards ==
  ASSUME NEW k
  PROVE  /\ IsFiniteSet(Users(k)) /\ Cardinality(Users(k)) \in Nat
         /\ \A S \in SUBSET Users(k) : /\ IsFiniteSet(S) /\ Cardinality(S) \in Nat
                                       /\ Cardinality(S) <= Cardinality(Users(k))
<1>1. IsFiniteSet(Users(k))
  BY FS_Subset, LimitAssumption DEF Users
<1> QED BY <1>1, FS_Subset, FS_CardinalityType

LEMMA DebtorsAreUsers ==
  ASSUME NEW k PROVE Debtors(k) \subseteq Users(k)
BY DEF Debtors, Owes, Users

\* Nobody new owes to k and its counter does not grow.
LEMMA FewerOwe ==
  ASSUME TypeOK, OwedBounded, TypeOK', NEW k \in Key, count'[k] <= count[k],
         Debtors(k)' \subseteq Debtors(k)
  PROVE  count'[k] + Cardinality(Debtors(k)') < Limit(k) + Cardinality(Users(k))
<1>1. IsFiniteSet(Debtors(k))
  BY Cards, DebtorsAreUsers
<1>2. Cardinality(Debtors(k)') <= Cardinality(Debtors(k))
      /\ Cardinality(Debtors(k)') \in Nat /\ Cardinality(Debtors(k)) \in Nat
  BY <1>1, FS_Subset, FS_CardinalityType
<1> QED BY <1>2, Cards, LimitFacts DEF OwedBounded, TypeOK, Positive

\* The counter of k is below its limit and does not grow: then even all users
\* may owe.
LEMMA RoomForAll ==
  ASSUME TypeOK, TypeOK', NEW k \in Key, count'[k] < Limit(k)
  PROVE  count'[k] + Cardinality(Debtors(k)') < Limit(k) + Cardinality(Users(k))
<1>1. Debtors(k)' \subseteq Users(k)
  BY DEF Debtors, Owes, Users
<1>2. Cardinality(Debtors(k)') \in Nat
      /\ Cardinality(Debtors(k)') <= Cardinality(Users(k))
      /\ Cardinality(Users(k)) \in Nat
  BY <1>1, Cards
<1> QED BY <1>2, LimitFacts DEF TypeOK, Positive

\* One of those who owe to k counts itself there.
LEMMA OnePays ==
  ASSUME TypeOK, OwedBounded, NEW k \in Key, count'[k] = count[k] + 1,
         NEW c \in Debtors(k), Debtors(k)' \subseteq Debtors(k) \ {c}
  PROVE  count'[k] + Cardinality(Debtors(k)') < Limit(k) + Cardinality(Users(k))
<1>1. IsFiniteSet(Debtors(k)) /\ IsFiniteSet(Debtors(k) \ {c})
  BY Cards, DebtorsAreUsers, FS_Subset
<1>2. Cardinality(Debtors(k) \ {c}) = Cardinality(Debtors(k)) - 1
  BY <1>1, FS_RemoveElement
<1>3. Cardinality(Debtors(k)') <= Cardinality(Debtors(k) \ {c})
      /\ Cardinality(Debtors(k)') \in Nat /\ Cardinality(Debtors(k)) \in Nat
  BY <1>1, FS_Subset, FS_CardinalityType
<1> QED BY <1>2, <1>3, Cards, LimitFacts DEF OwedBounded, TypeOK, Positive

LEMMA InitOwed == Init => OwedBounded
<1> SUFFICES ASSUME Init, NEW k \in Key
             PROVE count[k] + Cardinality(Debtors(k)) < Limit(k) + Cardinality(Users(k))
  BY DEF OwedBounded
<1>1. Debtors(k) = {} /\ count[k] = 0
  BY DEF Init, Debtors, Owes
<1> QED BY <1>1, FS_EmptySet, Cards, LimitFacts DEF Positive

LEMMA CheckOwed ==
  ASSUME TypeOK, OwedBounded, TypeOK', NEW c \in Call, Check(c)
  PROVE  OwedBounded'
<1> SUFFICES ASSUME NEW k \in Key
             PROVE  count'[k] + Cardinality(Debtors(k)')
                      < Limit(k) + Cardinality(Users(k))
  BY DEF OwedBounded
<1>1. CASE k = KeyAt(c) /\ count[k] < Limit(k)
  BY <1>1, RoomForAll DEF Check
<1>2. CASE ~(k = KeyAt(c) /\ count[k] < Limit(k))
  <2>1. Owes(c, k)' => Owes(c, k)
    BY <1>2 DEF Check, Admit, Goto, Owes, KeyAt, TypeOK
  <2>2. \A d \in Call : d # c => (Owes(d, k)' <=> Owes(d, k))
    BY DEF Check, Admit, Goto, Owes, TypeOK
  <2>3. Debtors(k)' \subseteq Debtors(k)
    BY <2>1, <2>2 DEF Debtors
  <2> QED BY <2>3, FewerOwe DEF Check, TypeOK
<1> QED BY <1>1, <1>2

LEMMA IncrementOwed ==
  ASSUME TypeOK, OwedBounded, TypeOK', NEW c \in Call, Increment(c)
  PROVE  OwedBounded'
<1> SUFFICES ASSUME NEW k \in Key
             PROVE  count'[k] + Cardinality(Debtors(k)')
                      < Limit(k) + Cardinality(Users(k))
  BY DEF OwedBounded
<1>0. KeyOf(c, 1) # KeyOf(c, 2) /\ KeyAt(c) \in Key
  BY KeyFacts DEF KeyAt, TypeOK
<1>1. \A d \in Call : d # c => (Owes(d, k)' <=> Owes(d, k))
  BY DEF Increment, Counted, Goto, Owes, TypeOK
<1>2. Owes(c, k)' => Owes(c, k) /\ k # KeyAt(c)
  BY <1>0 DEF Increment, Counted, Goto, Owes, KeyAt, TypeOK
<1>3. CASE k = KeyAt(c)
  <2>1. c \in Debtors(k)
    BY <1>3 DEF Increment, Owes, KeyAt, Debtors, TypeOK
  <2>2. Debtors(k)' \subseteq Debtors(k) \ {c}
    BY <1>1, <1>2, <1>3 DEF Debtors
  <2>3. count'[k] = count[k] + 1
    BY <1>3, <1>0 DEF Increment, TypeOK
  <2> QED BY <2>1, <2>2, <2>3, OnePays
<1>4. CASE k # KeyAt(c)
  <2>1. Debtors(k)' \subseteq Debtors(k)
    BY <1>1, <1>2 DEF Debtors
  <2>2. count'[k] = count[k]
    BY <1>4 DEF Increment, TypeOK
  <2> QED BY <2>1, <2>2, FewerOwe DEF TypeOK
<1> QED BY <1>3, <1>4

LEMMA NextOwed == TypeOK /\ OwedBounded /\ [Next]_vars => OwedBounded'
<1> SUFFICES ASSUME TypeOK, OwedBounded, [Next]_vars PROVE OwedBounded'
  OBVIOUS
<1>0. TypeOK'
  BY NextType
\* A step after which every counter is at most what it was, and no call owes
\* more than before.
<1>1. ASSUME \A k \in Key : count'[k] <= count[k],
             \A d \in Call, k \in Key : Owes(d, k)' => Owes(d, k)
      PROVE  OwedBounded'
  <2> SUFFICES ASSUME NEW k \in Key
               PROVE  count'[k] + Cardinality(Debtors(k)')
                        < Limit(k) + Cardinality(Users(k))
    BY DEF OwedBounded
  <2>1. Debtors(k)' \subseteq Debtors(k)
    BY <1>1 DEF Debtors
  <2> QED BY <2>1, <1>0, <1>1, FewerOwe
<1>2. ASSUME NEW c \in Call, Start(c) PROVE OwedBounded'
  <2>1. \A d \in Call, k \in Key : Owes(d, k)' => Owes(d, k)
    BY <1>2 DEF Start, Goto, Owes, TypeOK
  <2> QED BY <2>1, <1>1, <1>2 DEF Start, TypeOK
<1>3. ASSUME NEW c \in Call, Check(c) PROVE OwedBounded'
  BY <1>0, <1>3, CheckOwed
<1>4. ASSUME NEW c \in Call, LoginFails(c) PROVE OwedBounded'
  <2>1. \A d \in Call, k \in Key : Owes(d, k)' => Owes(d, k)
    BY <1>4 DEF LoginFails, Goto, Owes, TypeOK
  <2> QED BY <2>1, <1>1, <1>4 DEF LoginFails, TypeOK
<1>5. ASSUME NEW c \in Call, LoginSucceeds(c) PROVE OwedBounded'
  <2>1. \A d \in Call, k \in Key : Owes(d, k)' => Owes(d, k)
    BY <1>5 DEF LoginSucceeds, Goto, Owes, TypeOK
  <2>2. \A k \in Key : count'[k] <= count[k]
    BY <1>5 DEF LoginSucceeds, TypeOK
  <2> QED BY <2>1, <2>2, <1>1
<1>6. ASSUME NEW c \in Call, Increment(c) PROVE OwedBounded'
  BY <1>0, <1>6, IncrementOwed
<1>7. ASSUME NEW c \in Call, Expire(c) PROVE OwedBounded'
  <2>1. \A d \in Call, k \in Key : Owes(d, k)' => Owes(d, k)
    BY <1>7 DEF Expire, Counted, Goto, Owes, TypeOK
  <2> QED BY <2>1, <1>1, <1>7 DEF Expire, TypeOK
<1>8. ASSUME NEW c \in Call, BreaksOff(c) PROVE OwedBounded'
  <2>1. \A d \in Call, k \in Key : Owes(d, k)' => Owes(d, k)
    BY <1>8 DEF BreaksOff, Goto, Owes, TypeOK
  <2> QED BY <2>1, <1>1, <1>8 DEF BreaksOff, TypeOK
<1>9. CASE Tick
  <2>1. \A d \in Call, k \in Key : Owes(d, k)' => Owes(d, k)
    BY <1>9 DEF Tick, Owes
  <2>2. \A k \in Key : count'[k] <= count[k]
    BY <1>9 DEF Tick, TypeOK
  <2> QED BY <2>1, <2>2, <1>1
<1>10. CASE UNCHANGED vars
  <2>1. \A d \in Call, k \in Key : Owes(d, k)' => Owes(d, k)
    BY <1>10 DEF vars, Owes
  <2> QED BY <2>1, <1>1, <1>10 DEF vars, TypeOK
<1> QED BY <1>2, <1>3, <1>4, <1>5, <1>6, <1>7, <1>8, <1>9, <1>10
        DEF Next, Run, Step

LEMMA OwedOvershoot == TypeOK /\ OwedBounded => OvershootBounded
<1> SUFFICES ASSUME TypeOK, OwedBounded, NEW k \in Key
             PROVE  count[k] < Limit(k) + Cardinality(Users(k))
  BY DEF OvershootBounded
<1>1. Cardinality(Debtors(k)) \in Nat
  BY Cards, DebtorsAreUsers
<1> QED BY <1>1, Cards, LimitFacts DEF OwedBounded, TypeOK, Positive

\* A counter exceeds its limit by less than the number of calls that use it,
\* though the limit is tested before the calls are counted, and whatever calls
\* break off.
THEOREM OvershootAlwaysBounded == Spec => []OvershootBounded
BY InitType, NextType, InitOwed, NextOwed, OwedOvershoot, PTL DEF Spec

-----------------------------------------------------------------------------
(* No orphan.                                                               *)

LEMMA UnbrokenIsNext == [UnbrokenNext]_vars => [Next]_vars
BY DEF UnbrokenNext, Next

\* A call that is about to give k its lifetime stays so while others move.
LEMMA OthersExpire ==
  ASSUME TypeOK, NoOrphanCounter, NEW k \in Key, NEW c \in Call, pc[c] # "expire",
         NEW label, NEW n, Goto(c, label, n),
         count'[k] > 0 /\ ttl'[k] = 0 => count[k] > 0 /\ ttl[k] = 0,
         count'[k] > 0, ttl'[k] = 0
  PROVE  \E d \in Call : pc'[d] = "expire" /\ KeyAt(d)' = k
<1>1. PICK d \in Call : pc[d] = "expire" /\ KeyAt(d) = k
  BY DEF NoOrphanCounter
<1>2. pc'[d] = "expire" /\ nth'[d] = nth[d]
  BY <1>1 DEF Goto, TypeOK
<1> QED BY <1>1, <1>2 DEF KeyAt, KeyOf

LEMMA NextOrphan ==
  TypeOK /\ NoOrphanCounter /\ [UnbrokenNext]_vars => NoOrphanCounter'
<1> SUFFICES ASSUME TypeOK, NoOrphanCounter, [UnbrokenNext]_vars,
                    NEW k \in Key, count'[k] > 0, ttl'[k] = 0
             PROVE  \E d \in Call : pc'[d] = "expire" /\ KeyAt(d)' = k
  BY DEF NoOrphanCounter
<1> DEFINE Goal == \E d \in Call : pc'[d] = "expire" /\ KeyAt(d)' = k
<1>1. ASSUME NEW c \in Call, Start(c) PROVE Goal
  BY <1>1, OthersExpire DEF Start
<1>2. ASSUME NEW c \in Call, Check(c) PROVE Goal
  <2>1. PICK label, n : Goto(c, label, n)
    BY <1>2 DEF Check, Admit
  <2> QED BY <1>2, <2>1, OthersExpire DEF Check
<1>3. ASSUME NEW c \in Call, LoginFails(c) PROVE Goal
  BY <1>3, OthersExpire DEF LoginFails
<1>4. ASSUME NEW c \in Call, LoginSucceeds(c) PROVE Goal
  <2>1. count[k] > 0 /\ ttl[k] = 0
    BY <1>4 DEF LoginSucceeds, TypeOK
  <2> QED BY <1>4, <2>1, OthersExpire DEF LoginSucceeds
<1>5. ASSUME NEW c \in Call, Increment(c) PROVE Goal
  <2>1. CASE k = KeyAt(c) /\ count[k] = 0
    <3>1. pc'[c] = "expire" /\ nth'[c] = nth[c]
      BY <1>5, <2>1 DEF Increment, Goto, TypeOK
    <3> QED BY <2>1, <3>1 DEF KeyAt, KeyOf
  <2>2. CASE ~(k = KeyAt(c) /\ count[k] = 0)
    <3>1. PICK label, n : Goto(c, label, n)
      BY <1>5 DEF Increment, Counted
    <3>2. count[k] > 0 /\ ttl[k] = 0
      BY <1>5, <2>2 DEF Increment, TypeOK
    <3> QED BY <1>5, <3>1, <3>2, OthersExpire DEF Increment
  <2> QED BY <2>1, <2>2
<1>6. ASSUME NEW c \in Call, Expire(c) PROVE Goal
  <2>1. k # KeyAt(c)
    BY <1>6, LimitFacts DEF Expire, TypeOK, Positive
  <2>2. PICK d \in Call : pc[d] = "expire" /\ KeyAt(d) = k
    BY <1>6, <2>1 DEF Expire, NoOrphanCounter, TypeOK
  <2>3. pc'[d] = "expire" /\ nth'[d] = nth[d]
    BY <1>6, <2>1, <2>2 DEF Expire, Counted, Goto, TypeOK
  <2> QED BY <2>2, <2>3 DEF KeyAt, KeyOf
<1>7. ASSUME NEW c \in Call, pc[c] # "expire", BreaksOff(c) PROVE Goal
  BY <1>7, OthersExpire DEF BreaksOff
<1>8. CASE Tick
  <2>1. PICK d \in Call : pc[d] = "expire" /\ KeyAt(d) = k
    BY <1>8 DEF Tick, NoOrphanCounter, TypeOK
  <2> QED BY <1>8, <2>1 DEF Tick, KeyAt, KeyOf
<1>9. CASE UNCHANGED vars
  BY <1>9 DEF vars, NoOrphanCounter, KeyAt, KeyOf
<1> QED BY <1>1, <1>2, <1>3, <1>4, <1>5, <1>6, <1>7, <1>8, <1>9
        DEF UnbrokenNext, Run, Step

LEMMA InitOrphan == Init => NoOrphanCounter
BY DEF Init, NoOrphanCounter

\* As long as no call breaks off between its INCR and its EXPIRE, a counter
\* without a lifetime is about to get one.
THEOREM CountersEnd == UnbrokenSpec => []NoOrphanCounter
<1>1. UnbrokenSpec => Init /\ [][UnbrokenNext]_vars
  BY DEF UnbrokenSpec
<1> QED BY <1>1, InitType, NextType, UnbrokenIsNext, InitOrphan, NextOrphan, PTL
=============================================================================
