------------------------------ MODULE Strength ------------------------------
(***************************************************************************)
(* The pure part of the study domain: src/study/strength.ts, which turns   *)
(* the graded answers to a card into a level 0..5 and the level into the   *)
(* status the user sees, and src/study/event-normalize.ts, which turns an  *)
(* event of either client generation into a graded answer.                 *)
(***************************************************************************)
EXTENDS Integers, Sequences, SequencesExt

None == "NONE"          \* a null column, an absent field
NoTime == 0             \* a null timestamp

MaxLevel == 5
Level == 0 .. MaxLevel
Mode == {"FLASHCARDS", "MATCH", "TEST", "LEARN"}
Status == {"UNSTUDIED", "STILL_LEARNING", "KNOWN"}

ModeCeiling ==
  [FLASHCARDS |-> 5, MATCH |-> 3, TEST |-> 4, LEARN |-> 5]

\* applyEvent: level < min(MODE_CEILING[mode], MAX_LEVEL) earns one level.
ApplyEventNoCeiling(level, event) ==
  IF event.correct /\ level < MaxLevel THEN level + 1 ELSE level

ApplyEventPenalised(level, event) ==
  CASE event.correct /\ level < MaxLevel /\ level < ModeCeiling[event.mode]
                               -> level + 1
    [] ~event.correct /\ level > 0 -> level - 1
    [] OTHER                   -> level

ApplyEventClamped(level, event) ==
  LET ceiling == ModeCeiling[event.mode]
  IN  CASE ~event.correct        -> level
        [] level + 1 <= ceiling  -> level + 1
        [] OTHER                 -> ceiling

ApplyEvent(level, event) ==
  IF event.correct /\ level < MaxLevel /\ level < ModeCeiling[event.mode]
  THEN level + 1
  ELSE level

\* The members of S in the order R, a set of pairs that orders S totally: the
\* k-th has k - 1 members before it.
InOrder(S, R) ==
  [k \in 1 .. Cardinality(S) |->
     CHOOSE x \in S : Cardinality({y \in S : <<y, x>> \in R}) = k - 1]

\* [...events].sort((a, b) => a.answeredAt - b.answeredAt), a stable sort.
\* events maps positions to events: a sequence, or a choice of its elements.
Before(events) ==
  {p \in (DOMAIN events) \X (DOMAIN events) :
     \/ events[p[1]].at < events[p[2]].at
     \/ events[p[1]].at = events[p[2]].at /\ p[1] < p[2]}

AsDelivered(events) ==
  LET order == SetToSortSeq(DOMAIN events, <)
  IN  [k \in 1 .. Cardinality(DOMAIN events) |-> events[order[k]]]

ByTime(events) ==
  LET order == InOrder(DOMAIN events, Before(events))
  IN  [k \in 1 .. Cardinality(DOMAIN events) |-> events[order[k]]]

\* .reduce(applyEvent, initial): the level after each of n events in turn.
Levels(sorted, n, initial) ==
  LET level[i \in 0 .. n] ==
        IF i = 0 THEN initial ELSE ApplyEvent(level[i - 1], sorted[i])
  IN  level

FoldStrength(events, initial) ==
  LET n == Cardinality(DOMAIN events)
  IN  Levels(ByTime(events), n, initial)[n]

StatusForLevel(level) ==
  CASE level >= MaxLevel -> "KNOWN"
    [] level <= 0        -> "UNSTUDIED"
    [] OTHER             -> "STILL_LEARNING"

-----------------------------------------------------------------------------
(* A raw event carries mode + correct (new clients) or status (old ones);   *)
(* the optional fields are None when absent.                                *)

IsGraded(raw) == raw.mode # None /\ raw.correct # None

\* Otherwise normalizeEvent throws "must carry either status or mode+correct".
Normalizable(raw) == IsGraded(raw) \/ raw.status # None

NormalizeEvent(raw) ==
  [id |-> raw.id, card |-> raw.card, module |-> raw.module, at |-> raw.at,
   mode    |-> IF IsGraded(raw) THEN raw.mode ELSE "FLASHCARDS",
   correct |-> IF IsGraded(raw) THEN raw.correct = "true"
                                ELSE raw.status = "KNOWN"]

-----------------------------------------------------------------------------
(* lastCorrectAt and lastWrongAt of study.processor.ts: the time of the     *)
(* latest right (wrong) answer of a history, null when there is none.       *)

LastAt(events, correct) ==
  LET times == {events[i].at : i \in {i \in DOMAIN events :
                                         events[i].correct = correct}}
  IN  IF times = {} THEN NoTime ELSE Max(times)
=============================================================================
