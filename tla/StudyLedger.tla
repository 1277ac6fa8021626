---------------------------- MODULE StudyLedger ----------------------------
(***************************************************************************)
(* What the study domain promises, with no queue, worker or transaction:   *)
(* a batch is learnt in one step, all its events together with the levels  *)
(* they earn, zero or more times in any order, and users edit their cards  *)
(* in between. StudyPipeline with one worker implements it.                *)
(***************************************************************************)
EXTENDS StudyData

VARIABLES rows, cardState, level, status, lastCorrect, lastWrong
vars == <<rows, cardState, level, status, lastCorrect, lastWrong>>

Live == {c \in Card : cardState[c] = "live"}

Init ==
  /\ rows = OldRows
  /\ cardState = [c \in Card |-> IF c \in FirstCards THEN "live" ELSE "unborn"]
  /\ level = Baseline
  /\ status = [c \in Card |-> StatusForLevel(Baseline[c])]
  /\ lastCorrect = [c \in Card |-> NoTime]
  /\ lastWrong = [c \in Card |-> NoTime]

\* The card's columns follow from its whole history.
Regraded(c) ==
  \E s \in NewestFirst(Graded(rows', c)) :
    LET fold == FoldStrength(s, Baseline[c])
    IN  /\ level'[c] = IF level[c] >= fold THEN level[c] ELSE fold
        /\ status'[c] = StatusForLevel(level'[c])
        /\ lastCorrect'[c] = LastAt(s, TRUE)
        /\ lastWrong'[c] = LastAt(s, FALSE)

Kept(c) ==
  /\ level'[c] = level[c] /\ status'[c] = status[c]
  /\ lastCorrect'[c] = lastCorrect[c] /\ lastWrong'[c] = lastWrong[c]

\* Every event of b its user may answer is stored unless its id already is;
\* the live cards that gain an answer are regraded, and a batch that is learnt
\* again may regrade its cards again.
Learn(b) ==
  LET new == rows' \ rows
      gained == {r.card : r \in new}
      mine == {b.events[i].card : i \in DOMAIN b.events}
      mayStore(i) == MayStudy(Live \union gained, b.user, b.events[i])
  IN  /\ rows \subseteq rows'
      /\ new \subseteq {RowOf(b.user, NormalizeEvent(b.events[i])) :
                          i \in {i \in DOMAIN b.events : mayStore(i)}}
      /\ \A r \in new : Keys({r}) \cap Keys(rows' \ {r}) = {}
      /\ Recorded(rows', Live, b)
      /\ \A c \in Card :
            \/ c \in mine \cap Live /\ Regraded(c)
            \/ c \notin gained \cap Live /\ Kept(c)
      /\ UNCHANGED cardState

Create(c, s) ==
  /\ cardState[c] = "unborn"
  /\ cardState' = [cardState EXCEPT ![c] = "live"]
  /\ status' = [status EXCEPT ![c] = s]
  /\ UNCHANGED <<rows, level, lastCorrect, lastWrong>>

SetStatus(S, s) ==
  /\ status' = [c \in Card |-> IF c \in S THEN s ELSE status[c]]
  /\ UNCHANGED <<rows, cardState, level, lastCorrect, lastWrong>>

Delete(c) ==
  /\ c \in Live
  /\ cardState' = [cardState EXCEPT ![c] = "gone"]
  /\ UNCHANGED <<rows, level, status, lastCorrect, lastWrong>>

Next ==
  \/ \E b \in Batches : Valid(b.events) /\ Learn(b)
  \/ \E c \in Card, s \in Patched : Create(c, s)
  \/ \E c \in Live, s \in Patched : SetStatus({c}, s)
  \/ \E c \in Card : Delete(c)
  \/ \E m \in Module : SetStatus({c \in Live : Home[c] = m}, "UNSTUDIED")

Spec == Init /\ [][Next]_vars
=============================================================================
