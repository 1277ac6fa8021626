-------------------------- MODULE StrengthHistory --------------------------
(***************************************************************************)
(* What the fold of Strength promises when the answers to one card reach   *)
(* the server in any order: an offline client delivers old answers late.   *)
(* history is the card's answers in order of arrival.                      *)
(***************************************************************************)
EXTENDS Strength

CONSTANTS Baselines,    \* the baselineLevel values in use
          Times,        \* answeredAt
          MaxAnswers    \* bound on the length of a history

ASSUME HistoryAssumption ==
  Baselines \subseteq Level /\ Times \subseteq Nat \ {NoTime} /\ MaxAnswers \in Nat

Answer == [mode : Mode, correct : BOOLEAN, at : Times]

VARIABLES baseline, history
vars == <<baseline, history>>

Init == baseline \in Baselines /\ history = <<>>

Arrive(e) ==
  /\ Len(history) < MaxAnswers
  /\ history' = Append(history, e)
  /\ UNCHANGED baseline

Next == \E e \in Answer : Arrive(e)
Spec == Init /\ [][Next]_vars

-----------------------------------------------------------------------------
Strengthened == FoldStrength(history, baseline)

\* The level never leaves baseline..5 (strength.ts applyEvent): no answer takes
\* a level away, and a baseline above a mode's ceiling is not pulled down to it.
LevelInRange == Strengthened \in baseline .. MaxLevel

\* A mode cannot lift a card above its ceiling: the level exceeds neither the
\* baseline nor the highest ceiling among the modes answered correctly.
CeilingRespected ==
  \/ Strengthened = baseline
  \/ \E i \in DOMAIN history :
        history[i].correct /\ Strengthened <= ModeCeiling[history[i].mode]

\* Answers with distinct times give one level whatever order they arrive in,
\* although the ceilings make the fold itself depend on the order.
ArrivalOrderIrrelevant ==
  (\A i, j \in DOMAIN history : i # j => history[i].at # history[j].at)
  => \A p \in SetToSeqs(DOMAIN history) :
        FoldStrength([i \in DOMAIN history |-> history[p[i]]], baseline)
          = Strengthened

\* One more answer, however late and wherever it falls in the past, never
\* lowers the level: a wrong answer costs nothing, and an answer inserted
\* before others cannot make them earn less than it earned.
ArrivalNeverLowers == [][Strengthened' >= Strengthened]_vars
=============================================================================
