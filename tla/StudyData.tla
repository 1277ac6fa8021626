----------------------------- MODULE StudyData -----------------------------
(***************************************************************************)
(* What the ledger of study events and the pipeline that fills it share:   *)
(* the tables StudyEvent and Flashcard of prisma/schema.prisma, and the    *)
(* data handling of study.processor.ts that is not concurrent.             *)
(***************************************************************************)
EXTENDS Strength

CONSTANTS
  User, Module,
  Card,           \* card ids; their order stands for that of the uuid strings
  EventId,        \* client event ids
  Owner, Home,    \* Module -> its user, Card -> its module
  Baseline,       \* Card -> baselineLevel
  FirstCards,     \* cards that exist at the start; the others may be created
  OldRows,        \* StudyEvent rows from before the mode and correct columns
  Batches,        \* the request bodies: [user, events], events a sequence
  Patched,        \* the statuses clients set by hand
  HistoryLimit    \* HISTORY_LIMIT

Time == Nat \ {NoTime}
Row == [user : User, id : EventId, card : Card, at : Time,
        mode : Mode \union {None}, correct : BOOLEAN]
RawEvent == [id : EventId, card : Card, module : Module, at : Time,
             mode : Mode \union {None}, correct : {"true", "false", None},
             status : {"KNOWN", "STILL_LEARNING", None}]

ASSUME DataAssumption ==
  /\ Card \subseteq Nat /\ FirstCards \subseteq Card
  /\ Owner \in [Module -> User] /\ Home \in [Card -> Module]
  /\ Baseline \in [Card -> Level]
  /\ \A c \in Card \ FirstCards : Baseline[c] = 0
  /\ OldRows \subseteq Row /\ IsFiniteSet(OldRows)
  /\ \A r \in OldRows : r.mode = None
  /\ \A r, s \in OldRows : r.user = s.user /\ r.id = s.id => r = s
  /\ Batches \subseteq [user : User, events : Seq(RawEvent)]
  /\ Patched \subseteq Status
  /\ HistoryLimit \in Nat \ {0}

-----------------------------------------------------------------------------
\* flashcardIds found with module: { userId }, and moduleId equal to the card's.
MayStudy(live, user, event) ==
  /\ event.card \in live
  /\ Owner[Home[event.card]] = user
  /\ event.module = Home[event.card]

Valid(events) == \A i \in DOMAIN events : Normalizable(events[i])

RowOf(user, event) ==
  [user |-> user, id |-> event.id, card |-> event.card, at |-> event.at,
   mode |-> event.mode, correct |-> event.correct]

Keys(S) == {<<r.user, r.id>> : r \in S}

\* createMany({ skipDuplicates }): the rows added to those stored, for events
\* at some positions of a request; the first of two equal ids wins.
InsertAll(user, events, stored) ==
  {RowOf(user, events[i]) : i \in DOMAIN events}

SkipDuplicates(user, events, stored) ==
  {RowOf(user, events[i]) : i \in
     {i \in DOMAIN events :
        /\ <<user, events[i].id>> \notin Keys(stored)
        /\ \A k \in DOMAIN events : k < i => events[k].id # events[i].id}}

\* ORDER BY answeredAt DESC leaves the order of equal times open.
NewestFirst(S) ==
  {s \in SetToSeqs(S) : \A i, k \in DOMAIN s : i < k => s[i].at >= s[k].at}

Take(s, n) == IF Len(s) <= n THEN s ELSE SubSeq(s, 1, n)

\* historyByFlashcard: the first HISTORY_LIMIT graded rows of one card.
Bucket(history, c) ==
  LET mine == {i \in DOMAIN history : history[i].card = c /\ history[i].mode # None}
      first == {i \in mine : Cardinality({k \in mine : k < i}) < HistoryLimit}
  IN  [i \in first |-> history[i]]

\* The columns written to card c, its level seen and its history being bucket.
RegradeNoMax(seen, c, bucket) ==
  LET new == FoldStrength(bucket, Baseline[c])
  IN  [level |-> new, status |-> StatusForLevel(new),
       lastCorrect |-> LastAt(bucket, TRUE), lastWrong |-> LastAt(bucket, FALSE)]

RegradeIncrement(seen, c, bucket) ==
  LET new == FoldStrength(bucket, seen)
  IN  [level |-> new, status |-> StatusForLevel(new),
       lastCorrect |-> LastAt(bucket, TRUE), lastWrong |-> LastAt(bucket, FALSE)]

Regrade(seen, c, bucket) ==
  LET computed == FoldStrength(bucket, Baseline[c])
      new == IF seen >= computed THEN seen ELSE computed
  IN  [level |-> new, status |-> StatusForLevel(new),
       lastCorrect |-> LastAt(bucket, TRUE), lastWrong |-> LastAt(bucket, FALSE)]

\* [...new Set(owned.map((e) => e.flashcardId))].sort()
RequestOrder(events) ==
  LET first(c) == Min({i \in DOMAIN events : events[i].card = c})
  IN  SetToSortSeq({events[i].card : i \in DOMAIN events},
                   LAMBDA c, d : first(c) < first(d))

LockOrder(events) ==
  LET cards == {events[i].card : i \in DOMAIN events}
  IN  InOrder(cards, {p \in cards \X cards : p[1] < p[2]})

\* The rows that can strengthen card c: its owner's, with a grade.
Graded(stored, c) ==
  {r \in stored : r.user = Owner[Home[c]] /\ r.card = c /\ r.mode # None}

Recorded(stored, live, b) ==
  \A i \in DOMAIN b.events :
    \/ <<b.user, b.events[i].id>> \in Keys(stored)
    \/ ~MayStudy(live, b.user, b.events[i])
=============================================================================
