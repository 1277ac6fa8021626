-------------------------- MODULE MCStudyPipeline --------------------------
EXTENDS StudyPipeline
CONSTANTS u1, u2, w1, w2, m1, m2, e0, e1, e2, e3, e4

MCUser == {u1, u2}
MCModule == {m1, m2}
MCEventId == {e0, e1, e2, e3, e4}
MCCard == {1, 2}
MCOwner == m1 :> u1 @@ m2 :> u2
MCHome == [c \in MCCard |-> m1]

\* Card 1 was STILL_LEARNING when levels were introduced, card 2 is new.
MCBaseline == <<2, 0>>
MCOldRows == {[user |-> u1, id |-> e0, card |-> 1, at |-> 1,
               mode |-> None, correct |-> FALSE]}

Answered(id, card, mode, correct, at) ==
  [id |-> id, card |-> card, module |-> m1, at |-> at, mode |-> mode,
   correct |-> correct, status |-> None]
OldClient(id, card, known, at) ==
  [id |-> id, card |-> card, module |-> m1, at |-> at, mode |-> None,
   correct |-> None, status |-> known]
Bare(id, card, at) ==
  [id |-> id, card |-> card, module |-> m1, at |-> at, mode |-> "TEST",
   correct |-> None, status |-> None]
Batch(user, events) == [user |-> user, events |-> events]

\* Card 1 at 2: FLASHCARDS and MATCH at the same time give 3 or 4.
Morning == Batch(u1, <<Answered(e1, 1, "FLASHCARDS", "true", 2),
                       OldClient(e2, 2, "KNOWN", 1)>>)
\* Sent with a changed e2 and a later answer to card 1 that is tied with e1.
Again == Batch(u1, <<OldClient(e2, 2, "STILL_LEARNING", 2),
                     Answered(e3, 1, "MATCH", "true", 2)>>)
\* The latest answer to card 1 is wrong.
Evening == Batch(u1, <<Answered(e3, 1, "TEST", "false", 3)>>)
\* One event names a module the card is not in.
Mixed == Batch(u1, <<Answered(e1, 1, "FLASHCARDS", "true", 2),
                     [Answered(e2, 2, "LEARN", "true", 1) EXCEPT !.module = m2]>>)
\* Another user's card.
Foreign == Batch(u2, <<Answered(e4, 1, "LEARN", "true", 3)>>)
Unreadable == Batch(u1, <<Answered(e4, 1, "LEARN", "true", 3), Bare(e3, 1, 3)>>)
=============================================================================
