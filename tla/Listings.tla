------------------------------ MODULE Listings ------------------------------
(***************************************************************************)
(* A client walks a listing page by page (common/pagination, findAll of    *)
(* modules and folders, findPublic) while rows come, go, and change their  *)
(* place in it. Each page is one query: the rows that pass the filters, by *)
(* a sort key (-createdAt, or name) and then id, after the cursor.         *)
(***************************************************************************)
EXTENDS Integers, FiniteSets

CONSTANTS
  Item,          \* row ids; their order stands for that of the uuids
  Keys,          \* values of the sort key
  Limits,        \* the limits clients ask for, NoLimit for none or no number
  DefaultLimit,  \* DEFAULT_LIMIT
  MaxLimit       \* MAX_LIMIT

NoLimit == 0
Unlisted == -1   \* no such row, or one the filters leave out
NoCursor == -1

ASSUME ListingAssumption ==
  /\ IsFiniteSet(Item) /\ Item \subseteq Nat /\ Keys \subseteq Nat
  /\ Limits \subseteq Int
  /\ DefaultLimit \in Nat \ {0} /\ MaxLimit \in Nat \ {0}

VARIABLES
  key,         \* Item -> its sort key
  walk,        \* the walk is "over", "open", or "lost": its cursor has moved
  limit,       \* the page size
  cursor,      \* the cursor parameter of the next request
  cursorKey,   \* the place it had when the client got it
  shown,       \* Item -> how often this walk has shown it
  stable       \* the rows that have kept their place since the walk began

vars == <<key, walk, limit, cursor, cursorKey, shown, stable>>

-----------------------------------------------------------------------------
\* parseCursorQuery: the limit, clamped.
PageSize(asked) ==
  IF asked > 0 THEN IF asked <= MaxLimit THEN asked ELSE MaxLimit
  ELSE DefaultLimit

Listed == {i \in Item : key[i] # Unlisted}

\* orderBy: [{ ... }, { id: 'asc' }]
Before(i, j) ==
  \/ key[i] < key[j]
  \/ key[i] = key[j] /\ i < j

\* cursor with skip: 1.
Remaining == {i \in Listed : cursor = NoCursor \/ Before(cursor, i)}

\* take: n
First(n, S) == {i \in S : Cardinality({j \in S : Before(j, i)}) < n}

LastOf(S) == CHOOSE i \in S : \A j \in S : ~Before(i, j)

Init ==
  /\ key \in [Item -> Keys \union {Unlisted}]
  /\ walk = "over" /\ limit = DefaultLimit
  /\ cursor = NoCursor /\ cursorKey = Unlisted
  /\ shown = [i \in Item |-> 0]
  /\ stable = {}

\* The first request has no cursor.
StartWalk(asked) ==
  /\ walk # "open"
  /\ walk' = "open" /\ limit' = PageSize(asked)
  /\ cursor' = NoCursor /\ cursorKey' = Unlisted
  /\ shown' = [i \in Item |-> 0]
  /\ stable' = Listed
  /\ UNCHANGED key

CursorInPlace == cursor # NoCursor => key[cursor] = cursorKey

\* paginateResults, given the rows of the query.
Deliver(page, next) ==
  /\ shown' = [i \in Item |-> IF i \in page THEN shown[i] + 1 ELSE shown[i]]
  /\ cursor' = next
  /\ cursorKey' = IF next = NoCursor THEN Unlisted ELSE key[next]
  /\ walk' = IF next = NoCursor THEN "over" ELSE "open"
  /\ UNCHANGED <<key, limit, stable>>

NextPageCursorOnExtra ==
  /\ walk = "open" /\ CursorInPlace
  /\ LET rows == First(limit + 1, Remaining)
     IN  IF Cardinality(rows) > limit
         THEN Deliver(First(limit, rows), LastOf(rows))
         ELSE Deliver(rows, NoCursor)

\* take: limit + 1 tells whether there is a next page.
NextPage ==
  /\ walk = "open" /\ CursorInPlace
  /\ LET rows == First(limit + 1, Remaining)
         page == First(limit, rows)
     IN  IF Cardinality(rows) > limit
         THEN Deliver(page, LastOf(page))
         ELSE Deliver(rows, NoCursor)

\* The row of the cursor is gone, left the filters or moved: what the query
\* returns then is up to Prisma, and the walk promises nothing more.
LosePlace ==
  /\ walk = "open" /\ ~CursorInPlace
  /\ walk' = "lost"
  /\ UNCHANGED <<key, limit, cursor, cursorKey, shown, stable>>

\* A row is created, deleted, renamed, starred, published or the reverse.
Move(i, k) ==
  /\ key[i] # k
  /\ key' = [key EXCEPT ![i] = k]
  /\ stable' = stable \ {i}
  /\ UNCHANGED <<walk, limit, cursor, cursorKey, shown>>

Next ==
  \/ \E asked \in Limits : StartWalk(asked)
  \/ NextPage \/ LosePlace
  \/ \E i \in Item, k \in Keys \union {Unlisted} : Move(i, k)

Spec == Init /\ [][Next]_vars

-----------------------------------------------------------------------------
(* Properties.                                                              *)

\* At every point of a walk whose cursors stayed in place, the rows that kept
\* theirs were shown exactly once up to the cursor and not at all behind it, so
\* that at the end of the walk each was shown exactly once: rows that come, go
\* and move meanwhile, also in front of the cursor or tied with it, cause no gap
\* and no repetition among the others.
ShownOnce ==
  \A i \in stable :
    CASE walk = "over" -> shown[i] = 1
      [] walk = "open" /\ CursorInPlace ->
           shown[i] = IF i \in Remaining THEN 0 ELSE 1
      [] OTHER -> TRUE
=============================================================================
