----------------------- MODULE StrengthHistoryProofs -----------------------
(***************************************************************************)
(* The four properties of StrengthHistory, for histories of any length.    *)
(***************************************************************************)
EXTENDS StrengthHistory, StrengthProofs

HistoryType == baseline \in Level /\ history \in Seq(Answer)

LEMMA HistoryTyped == Spec => []HistoryType
<1>1. Init => HistoryType
  BY HistoryAssumption DEF Init, HistoryType
<1>2. HistoryType /\ [Next]_vars => HistoryType'
  BY DEF HistoryType, Next, Arrive, vars
<1> QED BY <1>1, <1>2, PTL DEF Spec

LEMMA SeqTimed ==
  ASSUME NEW h \in Seq(Answer)
  PROVE  /\ Timed(h) /\ DOMAIN h = 1 .. Len(h) /\ Len(h) \in Nat
         /\ Cardinality(DOMAIN h) = Len(h)
         /\ \A i \in DOMAIN h : h[i] \in Answer
<1>1. DOMAIN h = 1 .. Len(h) /\ Len(h) \in Nat /\ \A i \in DOMAIN h : h[i] \in Answer
  OBVIOUS
<1>2. IsFiniteSet(1 .. Len(h)) /\ Cardinality(1 .. Len(h)) = Len(h)
  BY <1>1, FS_Interval
<1>3. \A i \in DOMAIN h : h[i].at \in Nat
  BY <1>1, HistoryAssumption DEF Answer
<1>4. DOMAIN h \subseteq Nat
  BY <1>1
<1> QED BY <1>1, <1>2, <1>3, <1>4 DEF Timed

\* Whatever answers arrive and in whatever order, the level stays between the
\* card's baseline and 5.
THEOREM LevelAlwaysInRange == Spec => []LevelInRange
<1>1. HistoryType => LevelInRange
  <2> SUFFICES ASSUME HistoryType PROVE LevelInRange
    OBVIOUS
  <2>1. IsFiniteSet(DOMAIN history)
    BY FS_Interval DEF HistoryType
  <2>2. Strengthened \in Level /\ baseline <= Strengthened
    BY <2>1, FoldInRange DEF Strengthened, HistoryType
  <2> QED BY <2>2 DEF LevelInRange, Level, MaxLevel, HistoryType
<1> QED BY <1>1, HistoryTyped, PTL

\* No sequence of answers lifts a card above the ceiling of every mode it was
\* answered correctly in.
THEOREM CeilingAlwaysRespected == Spec => []CeilingRespected
<1>1. HistoryType => CeilingRespected
  <2> SUFFICES ASSUME HistoryType PROVE CeilingRespected
    OBVIOUS
  <2>1. Timed(history) /\ \A i \in DOMAIN history : history[i].mode \in Mode
    BY SeqTimed DEF HistoryType, Answer
  <2> QED BY <2>1, CeilingHolds DEF HistoryType, CeilingRespected, Strengthened
<1> QED BY <1>1, HistoryTyped, PTL

\* Answers with distinct times earn one level whatever order they arrive in.
THEOREM ArrivalOrderNeverMatters == Spec => []ArrivalOrderIrrelevant
<1>1. HistoryType => ArrivalOrderIrrelevant
  <2> SUFFICES ASSUME HistoryType,
                      \A i, j \in DOMAIN history : i # j => history[i].at # history[j].at,
                      NEW p \in SetToSeqs(DOMAIN history)
               PROVE  FoldStrength([i \in DOMAIN history |-> history[p[i]]], baseline)
                        = FoldStrength(history, baseline)
    BY DEF ArrivalOrderIrrelevant, Strengthened
  <2> DEFINE D == DOMAIN history
             other == [i \in D |-> history[p[i]]]
  <2>1. /\ Timed(history) /\ D = 1 .. Len(history) /\ Cardinality(D) = Len(history)
        /\ \A i \in D : history[i] \in Answer
    BY SeqTimed DEF HistoryType
  <2>2. p \in [D -> D] /\ \A i, j \in D : i # j => p[i] # p[j]
    <3>1. p \in [1 .. Cardinality(D) -> D]
          /\ \A i, j \in 1 .. Cardinality(D) : i # j => p[i] # p[j]
      BY DEF SetToSeqs
    <3>2. 1 .. Cardinality(D) = D
      BY <2>1
    <3> QED BY <3>1, <3>2
  <2> HIDE DEF D
  <2>3. p \in Bijection(D, D)
    <3>1. p \in Injection(D, D)
      BY <2>2 DEF Injection, IsInjective
    <3>2. IsFiniteSet(D)
      BY <2>1 DEF Timed, D
    <3>3. p \in Surjection(D, D)
      BY <3>1, <3>2, FS_Injection
    <3> QED BY <3>1, <3>3 DEF Bijection
  <2>4. \A i \in D : other[i] = history[p[i]] /\ p[i] \in D
    BY <2>2
  <2>5. DOMAIN other = D
    OBVIOUS
  <2> HIDE DEF other
  <2>6. Timed(other)
    BY <2>1, <2>4, <2>5 DEF Timed, D
  <2>7. ASSUME NEW i \in D, NEW j \in D, <<i, j>> \in Before(other)
        PROVE  <<p[i], p[j]>> \in Before(history)
    <3>1. i # j
      BY <2>1, <2>4, <2>5, <2>6, <2>7 DEF Before, Timed
    <3>2. other[i].at < other[j].at \/ other[i].at = other[j].at
      BY <2>7 DEF Before
    <3>3. other[i].at # other[j].at
      BY <2>2, <2>4, <3>1 DEF D
    <3> QED BY <2>4, <3>2, <3>3 DEF Before, D
  <2>8. FoldStrength(other, baseline) = FoldStrength(history, baseline)
    BY <2>1, <2>3, <2>4, <2>5, <2>6, <2>7, Reindexed DEF D
  <2> QED BY <2>8 DEF other, D
<1> QED BY <1>1, HistoryTyped, PTL

\* However late an answer arrives, and wherever it falls among the others, it
\* never lowers the level.
THEOREM ArrivalsNeverLower == Spec => ArrivalNeverLowers
<1>1. HistoryType /\ [Next]_vars => [Strengthened' >= Strengthened]_vars
  <2> SUFFICES ASSUME HistoryType, Next PROVE Strengthened' >= Strengthened
    OBVIOUS
  <2>1. PICK e \in Answer : history' = Append(history, e) /\ baseline' = baseline
    BY DEF Next, Arrive
  <2> DEFINE n == Len(history)
             rest == [i \in (DOMAIN history') \ {n + 1} |-> history'[i]]
  <2>2. history' \in Seq(Answer) /\ n \in Nat /\ DOMAIN history = 1 .. n
    BY <2>1 DEF HistoryType
  <2>3. Timed(history') /\ DOMAIN history' = 1 .. n + 1
    <3>1. Len(history') = n + 1
      BY <2>1 DEF HistoryType
    <3>2. Timed(history') /\ DOMAIN history' = 1 .. Len(history')
      BY <2>2, SeqTimed
    <3> QED BY <3>1, <3>2
  <2>4. rest = history
    <3>1. (DOMAIN history') \ {n + 1} = 1 .. n
      BY <2>2, <2>3
    <3>2. \A i \in 1 .. n : history'[i] = history[i]
      BY <2>1 DEF HistoryType
    <3>3. history = [i \in 1 .. n |-> history[i]]
      BY DEF HistoryType
    <3> QED BY <3>1, <3>2, <3>3
  <2>5. n + 1 \in DOMAIN history'
    BY <2>2, <2>3
  <2> HIDE DEF rest, n
  <2>6. FoldStrength(rest, baseline) <= FoldStrength(history', baseline)
    BY <2>3, <2>5, OneLess DEF rest, HistoryType
  <2>7. FoldStrength(history, baseline) \in Level
        /\ FoldStrength(history', baseline) \in Level
    <3>1. IsFiniteSet(DOMAIN history) /\ IsFiniteSet(DOMAIN history')
      BY <2>2, <2>3, FS_Interval DEF Timed
    <3> QED BY <3>1, FoldInRange DEF HistoryType
  <2> QED BY <2>1, <2>4, <2>6, <2>7 DEF Strengthened, Level
<1> QED BY <1>1, HistoryTyped, PTL DEF Spec, ArrivalNeverLowers
=============================================================================
