---------------------------- MODULE ContentProofs ----------------------------
(***************************************************************************)
(* What Content's three parts keep, for any rows, keys and page sizes, any *)
(* modules, contents and requests, any folders, names and tags: that a     *)
(* walk shows each row once, what update makes of a list of cards, and     *)
(* what setModuleTags makes of a module's tags. The parts share no         *)
(* variable, and each has an invariant of its own.                         *)
(***************************************************************************)
EXTENDS Content, FiniteSetTheorems, WellFoundedInduction, TLAPS

-----------------------------------------------------------------------------
(* Listings. ShownOnce is not inductive: a cursor that moved may come back  *)
(* to its place, and says nothing about the time in between. Past speaks of *)
(* the place the cursor had, wherever its row is now.                       *)

TypeOK ==
  /\ key \in [Item -> Keys \union {Unlisted}]
  /\ walk \in {"over", "open", "lost"} /\ limit \in Nat \ {0}
  /\ cursor \in Item \union {NoCursor}
  /\ cursorKey \in Keys \union {Unlisted}
  /\ shown \in [Item -> Nat]
  /\ stable \subseteq Listed
  /\ walk = "open" /\ cursor # NoCursor => cursorKey # Unlisted

Past(i) ==
  \/ cursor = NoCursor
  \/ cursorKey < key[i]
  \/ cursorKey = key[i] /\ cursor < i

ShownBeforePlace ==
  /\ walk = "open" => \A i \in stable : shown[i] = IF Past(i) THEN 0 ELSE 1
  /\ walk = "over" => \A i \in stable : shown[i] = 1

-----------------------------------------------------------------------------
(* Before is a strict total order.                                          *)

LEMMA Order ==
  ASSUME TypeOK
  PROVE  /\ \A i \in Item : ~Before(i, i)
         /\ \A i, j, k \in Item : Before(i, j) /\ Before(j, k) => Before(i, k)
         /\ \A i, j \in Item : i = j \/ Before(i, j) \/ Before(j, i)
<1>1. \A i \in Item : i \in Int /\ key[i] \in Int
  <2>1. Item \subseteq Int /\ Keys \union {Unlisted} \subseteq Int
    BY ListingAssumption DEF Unlisted
  <2>2. key \in [Item -> Keys \union {Unlisted}]
    BY DEF TypeOK
  <2> QED BY <2>1, <2>2
<1>2. ASSUME NEW i \in Item PROVE ~Before(i, i)
  BY <1>1 DEF Before
<1>3. ASSUME NEW i \in Item, NEW j \in Item, NEW k \in Item,
             Before(i, j), Before(j, k)
      PROVE  Before(i, k)
  BY <1>1, <1>3 DEF Before
<1>4. ASSUME NEW i \in Item, NEW j \in Item
      PROVE  i = j \/ Before(i, j) \/ Before(j, i)
  BY <1>1 DEF Before
<1> QED BY <1>2, <1>3, <1>4

LEMMA FiniteItems ==
  ASSUME NEW S, S \subseteq Item
  PROVE  /\ IsFiniteSet(S) /\ Cardinality(S) \in Nat
         /\ \A T \in SUBSET S : /\ IsFiniteSet(T) /\ Cardinality(T) \in Nat
                                /\ Cardinality(T) <= Cardinality(S)
<1>1. IsFiniteSet(S)
  BY FS_Subset, ListingAssumption
<1> QED BY <1>1, FS_Subset, FS_CardinalityType

LEMMA HasFirst ==
  ASSUME TypeOK, NEW S, S \subseteq Item, S # {}
  PROVE  \E i \in S : \A j \in S : ~Before(j, i)
<1> DEFINE Pred(i) == {j \in S : Before(j, i)}
           Preds == {Pred(i) : i \in S}
<1>1. Preds \subseteq FiniteSubsetsOf(Item) /\ Preds # {}
  BY FiniteItems DEF FiniteSubsetsOf
<1>2. PICK P \in Preds : \A Q \in Preds : ~(<<Q, P>> \in StrictSubsetOrdering(Item))
  BY <1>1, FS_StrictSubsetOrderingWellFounded, WFMin
<1>3. PICK i \in S : P = Pred(i)
  BY <1>2
<1>4. ASSUME NEW j \in S, Before(j, i) PROVE FALSE
  <2>1. Pred(j) \subseteq Pred(i) /\ j \in Pred(i) /\ j \notin Pred(j)
    BY <1>4, Order
  <2>2. Pred(j) \in SUBSET Item /\ Pred(i) \in SUBSET Item
    OBVIOUS
  <2>3. <<Pred(j), Pred(i)>> \in StrictSubsetOrdering(Item)
    BY <2>1, <2>2 DEF StrictSubsetOrdering
  <2> QED BY <2>3, <1>2, <1>3
<1> QED BY <1>4

LEMMA HasLast ==
  ASSUME TypeOK, NEW S, S \subseteq Item, S # {}
  PROVE  LastOf(S) \in S /\ \A j \in S : ~Before(LastOf(S), j)
<1> DEFINE Succ(i) == {j \in S : Before(i, j)}
           Succs == {Succ(i) : i \in S}
<1>1. Succs \subseteq FiniteSubsetsOf(Item) /\ Succs # {}
  BY FiniteItems DEF FiniteSubsetsOf
<1>2. PICK P \in Succs : \A Q \in Succs : ~(<<Q, P>> \in StrictSubsetOrdering(Item))
  BY <1>1, FS_StrictSubsetOrderingWellFounded, WFMin
<1>3. PICK i \in S : P = Succ(i)
  BY <1>2
<1>4. ASSUME NEW j \in S, Before(i, j) PROVE FALSE
  <2>1. Succ(j) \subseteq Succ(i) /\ j \in Succ(i) /\ j \notin Succ(j)
    BY <1>4, Order
  <2>2. Succ(j) \in SUBSET Item /\ Succ(i) \in SUBSET Item
    OBVIOUS
  <2>3. <<Succ(j), Succ(i)>> \in StrictSubsetOrdering(Item)
    BY <2>1, <2>2 DEF StrictSubsetOrdering
  <2> QED BY <2>3, <1>2, <1>3
<1> QED BY <1>4 DEF LastOf

-----------------------------------------------------------------------------
(* The first n rows of a set.                                               *)

LEMMA FirstIsInitial ==
  ASSUME TypeOK, NEW S, S \subseteq Item, NEW n \in Nat
  PROVE  /\ First(n, S) \subseteq S
         /\ \A i \in First(n, S), j \in S : Before(j, i) => j \in First(n, S)
<1>1. First(n, S) \subseteq S
  BY DEF First
<1>2. ASSUME NEW i \in First(n, S), NEW j \in S, Before(j, i)
      PROVE  j \in First(n, S)
  <2> DEFINE Pi == {k \in S : Before(k, i)}
             Pj == {k \in S : Before(k, j)}
  <2>1. Pj \subseteq Pi
    BY <1>1, <1>2, Order
  <2>2. Cardinality(Pj) <= Cardinality(Pi)
        /\ Cardinality(Pj) \in Nat /\ Cardinality(Pi) \in Nat
    <3>1. Pi \subseteq Item
      OBVIOUS
    <3> HIDE DEF Pi, Pj
    <3> QED BY <2>1, <3>1, FiniteItems
  <2>3. Cardinality(Pi) < n
    BY DEF First
  <2>4. Cardinality(Pj) < n
    <3> HIDE DEF Pi, Pj
    <3> QED BY <2>2, <2>3
  <2> QED BY <2>4 DEF First
<1> QED BY <1>1, <1>2

LEMMA FirstNotEmpty ==
  ASSUME TypeOK, NEW S, S \subseteq Item, S # {}, NEW n \in Nat \ {0}
  PROVE  First(n, S) # {}
<1>1. PICK i \in S : \A j \in S : ~Before(j, i)
  BY HasFirst
<1>2. {j \in S : Before(j, i)} = {}
  BY <1>1
<1>3. Cardinality({j \in S : Before(j, i)}) < n
  BY <1>2, FS_EmptySet
<1> QED BY <1>3 DEF First

\* Asking for one row more than there are gets them all.
LEMMA FirstIsAll ==
  ASSUME TypeOK, NEW S, S \subseteq Item, NEW n \in Nat,
         ~(Cardinality(First(n + 1, S)) > n)
  PROVE  First(n + 1, S) = S
<1> DEFINE F == First(n + 1, S)
<1>1. SUFFICES ASSUME S \ F # {} PROVE FALSE
  BY DEF First
<1>2. PICK i \in S \ F : \A j \in S \ F : ~Before(j, i)
  BY <1>1, HasFirst
<1> DEFINE P == {j \in S : Before(j, i)}
<1>3. P \subseteq F
  BY <1>2
<1>4. ~(Cardinality(P) < n + 1)
  BY <1>2 DEF First
<1>5. F \subseteq Item
  BY DEF First
<1>6. Cardinality(P) <= Cardinality(F) /\ Cardinality(P) \in Nat
      /\ Cardinality(F) \in Nat
  <2> HIDE DEF P, F
  <2> QED BY <1>3, <1>5, FiniteItems
<1>7. ~(Cardinality(F) > n)
  OBVIOUS
<1> HIDE DEF P, F
<1> QED BY <1>4, <1>6, <1>7

-----------------------------------------------------------------------------
LEMMA InitInv == Init => TypeOK /\ ShownBeforePlace
BY ListingAssumption DEF Init, TypeOK, ShownBeforePlace, Unlisted, NoCursor, Listed

LEMMA RemainingIsPast ==
  ASSUME TypeOK, walk = "open", CursorInPlace
  PROVE  Remaining = {i \in Listed : Past(i)} /\ Remaining \subseteq Item
BY DEF TypeOK, CursorInPlace, Remaining, Before, Past, Listed

\* The place of the new cursor lies behind the rows of the page and those
\* already passed, and before all others.
LEMMA PageCut ==
  ASSUME TypeOK, walk = "open", CursorInPlace,
         NEW page, NEW final \in page, page \subseteq Remaining,
         \A i \in page, j \in Remaining : Before(j, i) => j \in page,
         \A j \in page : ~Before(final, j)
  PROVE  \A i \in Listed : Before(final, i) <=> i \in Remaining \ page
<1> SUFFICES ASSUME NEW i \in Listed
             PROVE  Before(final, i) <=> i \in Remaining \ page
  OBVIOUS
<1>0. i \in Item /\ final \in Item /\ (cursor # NoCursor => cursor \in Item)
  BY RemainingIsPast DEF Listed, TypeOK
<1>1. ASSUME Before(final, i) PROVE i \in Remaining \ page
  <2>1. i \notin page
    BY <1>1
  <2>2. cursor # NoCursor => Before(cursor, final)
    BY DEF Remaining
  <2>3. cursor # NoCursor => Before(cursor, i)
    BY <1>0, <1>1, <2>2, Order
  <2> QED BY <2>1, <2>3 DEF Remaining
<1>2. ASSUME i \in Remaining \ page PROVE Before(final, i)
  BY <1>0, <1>2, Order
<1> QED BY <1>1, <1>2

LEMMA NextPageInv ==
  ASSUME TypeOK, ShownBeforePlace, NextPage
  PROVE  TypeOK' /\ ShownBeforePlace'
<1> DEFINE rows == First(limit + 1, Remaining)
           page == First(limit, rows)
<1>0. walk = "open" /\ CursorInPlace /\ limit \in Nat /\ limit + 1 \in Nat
      /\ limit \in Nat \ {0} /\ UNCHANGED <<key, limit, stable>>
  BY DEF NextPage, Deliver, TypeOK
<1>1. Remaining \subseteq Item /\ Remaining = {i \in Listed : Past(i)}
  BY <1>0, RemainingIsPast
<1>2. rows \subseteq Remaining
      /\ \A i \in rows, j \in Remaining : Before(j, i) => j \in rows
  BY <1>0, <1>1, FirstIsInitial
<1>3. \A i \in stable : i \in Listed /\ i \in Item /\ shown[i] \in Nat
                        /\ shown[i] = IF i \in Remaining THEN 0 ELSE 1
  BY <1>0, <1>1 DEF ShownBeforePlace, TypeOK, Listed
<1>4. CASE Cardinality(rows) > limit
  <2>1. rows # {}
    <3> HIDE DEF rows
    <3> QED BY <1>0, <1>4, FS_EmptySet
  <2>2. page # {} /\ page \subseteq rows
        /\ \A i \in page, j \in rows : Before(j, i) => j \in page
    <3>1. rows \subseteq Item
      BY <1>1, <1>2
    <3> HIDE DEF rows
    <3> QED BY <1>0, <2>1, <3>1, FirstIsInitial, FirstNotEmpty
  <2> DEFINE final == LastOf(page)
  <2>3. final \in page /\ \A j \in page : ~Before(final, j)
    <3>1. page \subseteq Item
      BY <1>1, <1>2, <2>2
    <3> HIDE DEF page
    <3> QED BY <2>2, <3>1, HasLast
  <2>4. page \subseteq Remaining
        /\ \A i \in page, j \in Remaining : Before(j, i) => j \in page
    <3> HIDE DEF page, rows
    <3> QED BY <1>2, <2>2
  <2>5. Deliver(page, final)
    BY <1>4 DEF NextPage
  <2> HIDE DEF page, rows, final
  <2>6. \A i \in Listed : Before(final, i) <=> i \in Remaining \ page
    BY <1>0, <2>3, <2>4, PageCut
  <2>7. final \in Item /\ final # NoCursor /\ final \in Listed
    <3>1. final \in Remaining
      BY <2>3, <2>4
    <3>2. final \in Item /\ final \in Listed
      BY <1>1, <3>1
    <3> QED BY <3>2, ListingAssumption DEF NoCursor
  <2>8. walk' = "open" /\ cursor' = final /\ cursorKey' = key[final]
        /\ shown' = [i \in Item |-> IF i \in page THEN shown[i] + 1 ELSE shown[i]]
    BY <2>5, <2>7 DEF Deliver
  <2>9. TypeOK'
    BY <1>0, <2>7, <2>8 DEF TypeOK, Listed
  <2>10. ASSUME NEW i \in stable'
         PROVE  shown'[i] = IF Past(i)' THEN 0 ELSE 1
    <3>1. i \in stable
      BY <1>0, <2>10
    <3>2. Past(i)' <=> Before(final, i)
      BY <1>0, <2>7, <2>8 DEF Past, Before
    <3>3. Past(i)' <=> i \in Remaining \ page
      BY <3>1, <3>2, <2>6, <1>3
    <3>4. shown'[i] = IF i \in page THEN shown[i] + 1 ELSE shown[i]
      BY <2>8, <3>1, <1>3
    <3> QED BY <3>1, <3>3, <3>4, <1>3, <2>4
  <2> QED BY <2>8, <2>9, <2>10 DEF ShownBeforePlace
<1>5. CASE ~(Cardinality(rows) > limit)
  <2>1. rows = Remaining
    BY <1>0, <1>1, <1>5, FirstIsAll
  <2>2. Deliver(Remaining, NoCursor)
    BY <1>5, <2>1 DEF NextPage
  <2>3. TypeOK'
    BY <1>0, <2>2 DEF TypeOK, Deliver, Listed
  <2>4. \A i \in stable' : shown'[i] = 1
    BY <1>0, <1>3, <2>2 DEF Deliver
  <2> QED BY <2>2, <2>3, <2>4 DEF ShownBeforePlace, Deliver
<1> QED BY <1>4, <1>5

LEMMA NextInv ==
  TypeOK /\ ShownBeforePlace /\ [Next]_vars => TypeOK' /\ ShownBeforePlace'
<1> SUFFICES ASSUME TypeOK, ShownBeforePlace, [Next]_vars
             PROVE  TypeOK' /\ ShownBeforePlace'
  OBVIOUS
<1>1. ASSUME NEW wished \in Limits, StartWalk(wished)
      PROVE  TypeOK' /\ ShownBeforePlace'
  <2>1. PageSize(wished) \in Nat \ {0}
    BY ListingAssumption DEF PageSize
  <2> QED BY <1>1, <2>1
          DEF StartWalk, TypeOK, ShownBeforePlace, Past, Listed, NoCursor, Unlisted
<1>2. CASE NextPage
  BY <1>2, NextPageInv
<1>3. CASE LosePlace
  BY <1>3 DEF LosePlace, TypeOK, ShownBeforePlace, Listed
<1>4. ASSUME NEW i \in Item, NEW k \in Keys \union {Unlisted}, Move(i, k)
      PROVE  TypeOK' /\ ShownBeforePlace'
  <2>1. \A j \in stable' : j \in stable /\ j # i /\ j \in Item /\ key'[j] = key[j]
    BY <1>4 DEF Move, TypeOK, Listed
  <2>2. TypeOK'
    BY <1>4, <2>1 DEF Move, TypeOK, Listed
  <2>3. \A j \in stable' : Past(j)' <=> Past(j)
    BY <1>4, <2>1 DEF Move, Past
  <2> QED BY <1>4, <2>1, <2>2, <2>3 DEF Move, ShownBeforePlace
<1>5. CASE UNCHANGED vars
  BY <1>5 DEF vars, TypeOK, ShownBeforePlace, Past, Listed
<1> QED BY <1>1, <1>2, <1>3, <1>4, <1>5 DEF Next

LEMMA PlaceMeansShownOnce == TypeOK /\ ShownBeforePlace => ShownOnce
<1> SUFFICES ASSUME TypeOK, ShownBeforePlace, NEW i \in stable
             PROVE  /\ walk = "over" => shown[i] = 1
                    /\ walk = "open" /\ CursorInPlace =>
                         shown[i] = IF i \in Remaining THEN 0 ELSE 1
  BY DEF ShownOnce
<1>1. i \in Listed
  BY DEF TypeOK
<1> QED BY <1>1, RemainingIsPast DEF ShownBeforePlace

\* However rows come, go and move during a walk, one whose cursors stay in place
\* shows each of the others exactly once.
THEOREM EachShownOnce == Spec => []ShownOnce
BY InitInv, NextInv, PlaceMeansShownOnce, PTL DEF Spec

-----------------------------------------------------------------------------
(* The cards of modules.                                                    *)

\* What update has read is still so where no other writes to the module, and
\* otherwise what it leaves untouched has been noted as met.
WriteOK(c) ==
  LET m == call[c].m  given == call[c].given  change == call[c].change
      drop == call[c].drop IN
  /\ DOMAIN given \union drop \subseteq 1 .. last
  /\ change \subseteq DOMAIN given /\ drop \cap DOMAIN given = {}
  /\ \A k \in Cards : k \in DOMAIN given \union drop => card[k].module = m
  /\ \A k \in CardsOf(m) \ (drop \union change) :
       card[k].content \in Range(given) \union call[c].new \union call[c].met
  /\ call[c].apart /\ m \in modules =>
       /\ CardsOf(m) = DOMAIN given \union drop
       /\ \A k \in DOMAIN given \ change : card[k].content = given[k]

\* Of two requests for one module neither is apart.
EditOK(c) ==
  /\ call[c].apart => call[c].met = {}
  /\ \A d \in Editing(call[c].m) \ {c} : ~call[c].apart

ExactFor(m) ==
  LET named == DOMAIN asked[m].given IN
  /\ named \subseteq CardsOf(m)
  /\ \A k \in named : card[k].content = asked[m].given[k]
  /\ Contents(CardsOf(m) \ named) = asked[m].new
  /\ Cardinality(CardsOf(m) \ named) = Cardinality(asked[m].new)

ModuleOK(m) ==
  /\ m \notin made => asked[m] = Nothing
  /\ m \in modules => /\ Contents(CardsOf(m)) \subseteq asked[m].all
                      /\ asked[m].alone => ExactFor(m)

Edits(c) == At(c, "list") \/ At(c, "write")

CardsInv ==
  /\ CardsTypeOK
  /\ \A m \in Module : ModuleOK(m)
  /\ \A c \in Call : /\ At(c, "write") => WriteOK(c)
                     /\ Edits(c) => EditOK(c)
                     /\ ~At(c, "idle") => call[c].m \in made

-----------------------------------------------------------------------------
Editor == [at : {"list", "write"}, m : Module, given : Given, new : SUBSET Content,
           change : SUBSET Id, drop : SUBSET Id, met : SUBSET Content, apart : BOOLEAN]
Remover == [at : {"removeCards", "removeModule"}, m : Module]

LEMMA RequestShapes ==
  ASSUME call \in [Call -> {Idle} \union Request], NEW c \in Call
  PROVE  /\ Edits(c) => call[c] \in Editor
         /\ At(c, "removeCards") \/ At(c, "removeModule") => call[c] \in Remover
         /\ ~Edits(c) /\ ~At(c, "removeCards") /\ ~At(c, "removeModule") => call[c] = Idle
BY DEF Request, Editor, Remover, Edits, At, Idle

\* A request goes on as it was, but that others may have been noted in it.
GoesOn(d) ==
  /\ call'[d].at = call[d].at /\ call'[d].m = call[d].m
  /\ call'[d].given = call[d].given /\ call'[d].new = call[d].new
  /\ call'[d].change = call[d].change /\ call'[d].drop = call[d].drop
  /\ call[d].met \subseteq call'[d].met
  /\ call'[d].apart => call[d].apart /\ call'[d].met = call[d].met

\* The cards of a module stay as they are.
SameCards(m) ==
  CardsOf(m)' = CardsOf(m) /\ \A k \in CardsOf(m) : card'[k] = card[k]

\* Cards keep their module, and ids are not used again.
OldCards == \A k \in Cards' : k \in 1 .. last => k \in Cards /\ card'[k].module = card[k].module

LEMMA WriteGoesOn ==
  ASSUME CardsInv, NEW d \in Call, GoesOn(d), At(d, "write"),
         NEW m, call[d].m = m, last' \in Nat, last' >= last, OldCards,
         \A k \in CardsOf(m)' :
           \/ k \in CardsOf(m) /\ card'[k].content = card[k].content
           \/ card'[k].content \in call'[d].met,
         call'[d].apart /\ m \in modules' => m \in modules /\ SameCards(m)
  PROVE  WriteOK(d)'
<1> DEFINE given == call[d].given  change == call[d].change  drop == call[d].drop
<1>1. WriteOK(d) /\ call[d] \in Editor /\ last \in Nat
  BY RequestShapes, CardsAssumption DEF CardsInv, CardsTypeOK, Edits
<1>2. DOMAIN given \union drop \subseteq 1 .. last'
  BY <1>1 DEF WriteOK
<1>3. \A k \in Cards' : k \in DOMAIN given \union drop => card'[k].module = m
  BY <1>1 DEF WriteOK, OldCards
<1>4. \A k \in CardsOf(m)' \ (drop \union change) :
        card'[k].content \in Range(given) \union call[d].new \union call'[d].met
  BY <1>1 DEF WriteOK, GoesOn
<1>5. call'[d].apart /\ m \in modules' =>
        /\ CardsOf(m)' = DOMAIN given \union drop
        /\ \A k \in DOMAIN given \ change : card'[k].content = given[k]
  BY <1>1 DEF WriteOK, GoesOn, SameCards
<1>6. /\ call'[d].m = m /\ call'[d].given = given /\ call'[d].change = change
      /\ call'[d].drop = drop /\ call'[d].new = call[d].new
  BY DEF GoesOn
<1> QED BY <1>1, <1>2, <1>3, <1>4, <1>5, <1>6 DEF WriteOK, CardsOf, Range

\* The requests with a list remain; of one module there are no more than before.
Remains(d) ==
  /\ call'[d].m = call[d].m
  /\ call'[d].apart => call[d].apart /\ call'[d].met = call[d].met

LEMMA EditsRemain ==
  ASSUME CardsInv, \A d \in Call : Edits(d)' => Edits(d) /\ Remains(d)
  PROVE  \A d \in Call : Edits(d)' => EditOK(d)'
<1> SUFFICES ASSUME NEW d \in Call, Edits(d)' PROVE EditOK(d)'
  OBVIOUS
<1>1. EditOK(d) /\ Remains(d)
  BY DEF CardsInv
<1>2. \A e \in Call : Edits(e)' /\ call'[e].m = call'[d].m => Edits(e) /\ call[e].m = call[d].m
  BY DEF Remains
<1> QED BY <1>1, <1>2 DEF EditOK, Editing, Edits, Remains

LEMMA ModuleGoesOn ==
  ASSUME NEW m, ModuleOK(m), made \subseteq made', asked'[m] = asked[m],
         m \in modules' => m \in modules /\ SameCards(m)
  PROVE  ModuleOK(m)'
<1>1. m \notin made' => asked'[m] = Nothing
  BY DEF ModuleOK
<1>2. ASSUME m \in modules'
      PROVE  /\ Contents(CardsOf(m))' \subseteq asked'[m].all
             /\ asked'[m].alone => ExactFor(m)'
  <2>1. CardsOf(m)' = CardsOf(m) /\ \A k \in CardsOf(m) : card'[k] = card[k]
    BY <1>2 DEF SameCards
  <2>2. Contents(CardsOf(m))' = Contents(CardsOf(m))
    BY <2>1 DEF Contents
  <2>3. Contents(CardsOf(m) \ DOMAIN asked[m].given)' = Contents(CardsOf(m) \ DOMAIN asked[m].given)
    BY <2>1 DEF Contents
  <2> QED BY <1>2, <2>1, <2>2, <2>3 DEF ModuleOK, ExactFor
<1> QED BY <1>1, <1>2 DEF ModuleOK

\* What is noted of a write beside update.
LEMMA NotedStep ==
  ASSUME CardsTypeOK, NEW m \in Module, NEW contents \in SUBSET Content, Noted(m, contents)
  PROVE  /\ call' \in [Call -> {Idle} \union Request]
         /\ asked' \in [Module -> [given : Given, new : SUBSET Content,
                                   all : SUBSET Content, alone : BOOLEAN]]
         /\ \A x \in Module \ {m} : asked'[x] = asked[x]
         /\ asked'[m].all = asked[m].all \union contents /\ ~asked'[m].alone
         /\ \A d \in Call :
              /\ At(d, "write")' <=> At(d, "write")
              /\ At(d, "idle")' <=> At(d, "idle")
              /\ ~At(d, "idle") => call'[d].m = call[d].m
              /\ Edits(d)' => Edits(d) /\ GoesOn(d)
              /\ Edits(d) /\ call[d].m = m => contents \subseteq call'[d].met /\ ~call'[d].apart
              /\ ~(Edits(d) /\ call[d].m = m) => call'[d] = call[d]
<1>1. Mixed(asked[m].all \union contents) \in
        [given : Given, new : SUBSET Content, all : SUBSET Content, alone : BOOLEAN]
  <2>1. [k \in {} |-> 0] \in Given
    <3>1. [k \in {} |-> 0] \in [{} -> Content] /\ {} \in SUBSET Id
      OBVIOUS
    <3> QED BY <3>1 DEF Given
  <2> QED BY <2>1 DEF Mixed, Nothing, CardsTypeOK
<1>2. /\ asked' = [asked EXCEPT ![m] = Mixed(asked[m].all \union contents)]
      /\ asked \in [Module -> [given : Given, new : SUBSET Content,
                               all : SUBSET Content, alone : BOOLEAN]]
  BY DEF Noted, CardsTypeOK
<1>3. ASSUME NEW d \in Call
      PROVE  /\ call'[d] \in {Idle} \union Request
             /\ At(d, "write")' <=> At(d, "write")
             /\ At(d, "idle")' <=> At(d, "idle")
             /\ ~At(d, "idle") => call'[d].m = call[d].m
             /\ Edits(d)' => Edits(d) /\ GoesOn(d)
             /\ Edits(d) /\ call[d].m = m => contents \subseteq call'[d].met /\ ~call'[d].apart
             /\ ~(Edits(d) /\ call[d].m = m) => call'[d] = call[d]
  <2>1. CASE Edits(d) /\ call[d].m = m
    <3>1. call'[d] = [call[d] EXCEPT !.met = @ \union contents, !.apart = FALSE]
      BY <2>1 DEF Noted, Editing, Edits
    <3>2. call[d] \in Editor
      BY <2>1, RequestShapes DEF CardsTypeOK
    <3>3. /\ call'[d] \in Editor /\ call'[d].at = call[d].at /\ call'[d].m = call[d].m
          /\ GoesOn(d) /\ contents \subseteq call'[d].met /\ ~call'[d].apart
      BY <3>1, <3>2 DEF Editor, GoesOn
    <3> QED BY <2>1, <3>3 DEF Edits, At, Request, Editor
  <2>2. CASE ~(Edits(d) /\ call[d].m = m)
    <3>1. call'[d] = call[d]
      BY <2>2 DEF Noted, Editing, Edits
    <3> QED BY <2>2, <3>1 DEF Edits, At, GoesOn, CardsTypeOK
  <2> QED BY <2>1, <2>2
<1>4. call' \in [Call -> {Idle} \union Request]
  BY <1>3 DEF Noted
<1>5. /\ asked' \in [Module -> [given : Given, new : SUBSET Content,
                                all : SUBSET Content, alone : BOOLEAN]]
      /\ \A x \in Module \ {m} : asked'[x] = asked[x]
      /\ asked'[m].all = asked[m].all \union contents /\ ~asked'[m].alone
  BY <1>1, <1>2 DEF Mixed, Nothing
<1> QED BY <1>3, <1>4, <1>5

\* New cards have new ids, one for each content.
LEMMA NewCards ==
  ASSUME CardsTypeOK, NEW m, NEW new \in SUBSET Content, NEW cards \in Added(m, new)
  PROVE  /\ Cardinality(new) \in Nat /\ last \in Nat
         /\ DOMAIN cards = NewIds(new) /\ NewIds(new) \cap 1 .. last = {}
         /\ NewIds(new) \cap Cards = {}
         /\ NewIds(new) \union 1 .. last \subseteq 1 .. last + Cardinality(new)
         /\ \A k \in NewIds(new) : cards[k] \in [module : {m}, content : new]
         /\ {cards[k].content : k \in NewIds(new)} = new
         /\ Cardinality(NewIds(new)) = Cardinality(new)
<1>1. IsFiniteSet(new) /\ Cardinality(new) \in Nat
  BY FS_Subset, FS_CardinalityType, CardsAssumption
<1>2. last \in Nat /\ Cards \subseteq 1 .. last
  BY CardsAssumption DEF CardsTypeOK
<1>3. Cardinality(NewIds(new)) = Cardinality(new)
  <2>1. /\ last + 1 \in Int /\ last + Cardinality(new) \in Int
    BY <1>1, <1>2
  <2>2. Cardinality(NewIds(new)) = IF last + 1 > last + Cardinality(new) THEN 0
                                   ELSE (last + Cardinality(new)) - (last + 1) + 1
    BY <2>1, FS_Interval DEF NewIds
  <2> QED BY <1>1, <1>2, <2>2
<1>4. /\ NewIds(new) \cap 1 .. last = {}
      /\ NewIds(new) \union 1 .. last \subseteq 1 .. last + Cardinality(new)
  BY <1>1, <1>2 DEF NewIds
<1>5. /\ cards \in [NewIds(new) -> [module : {m}, content : new]]
      /\ {cards[k].content : k \in NewIds(new)} = new
  BY DEF Added
<1> QED BY <1>1, <1>2, <1>3, <1>4, <1>5

LEMMA CreateModuleStep ==
  ASSUME CardsInv, NEW m \in Module, NEW new \in SUBSET Content, CreateModule(m, new)
  PROVE  CardsInv'
<1> CardsTypeOK
  BY DEF CardsInv
<1>1. PICK cards \in Added(m, new) : card' = Merge(card, cards)
  BY DEF CreateModule
<1>2. /\ Cards' = Cards \union NewIds(new)
      /\ \A k \in NewIds(new) : card'[k] = cards[k]
      /\ \A k \in Cards : card'[k] = card[k]
  BY <1>1, NewCards DEF Merge, Cards
<1>3. \A k \in Cards : card[k] \in [module : modules, content : Content]
  BY DEF CardsTypeOK
<1>4. CardsOf(m)' = NewIds(new)
  BY <1>1, <1>2, <1>3, NewCards DEF CardsOf, CreateModule, CardsTypeOK
<1>5. asked[m] = Nothing /\ \A x \in Module \ {m} : asked'[x] = asked[x]
  BY DEF CardsInv, ModuleOK, CreateModule, CardsTypeOK
<1>6. /\ asked'[m] = [Nothing EXCEPT !.new = new, !.all = new]
      /\ asked' = [asked EXCEPT ![m] = asked'[m]]
  BY <1>5 DEF CreateModule, CardsTypeOK, Nothing
<1>7. asked'[m].given = [k \in {} |-> 0] /\ asked'[m].new = new /\ asked'[m].all = new
  BY <1>6 DEF Nothing
<1>8. ModuleOK(m)'
  <2>1. Contents(CardsOf(m))' = new
    BY <1>1, <1>2, <1>4, NewCards DEF Contents
  <2>2. DOMAIN asked'[m].given = {} /\ CardsOf(m)' \ DOMAIN asked'[m].given = CardsOf(m)'
    BY <1>7
  <2>3. Contents(CardsOf(m) \ DOMAIN asked[m].given)' = new
    BY <2>1, <2>2 DEF Contents
  <2>4. Cardinality(CardsOf(m)' \ DOMAIN asked'[m].given) = Cardinality(new)
    BY <1>1, <1>4, <2>2, NewCards
  <2>5. ExactFor(m)'
    BY <1>7, <2>2, <2>3, <2>4 DEF ExactFor
  <2> QED BY <1>7, <2>1, <2>5 DEF ModuleOK, CreateModule
<1>9. \A x \in Module \ {m} : SameCards(x)
  BY <1>1, <1>2, NewCards DEF SameCards, CardsOf
<1>10. ASSUME NEW x \in Module PROVE ModuleOK(x)'
  BY <1>5, <1>8, <1>9, <1>10, ModuleGoesOn DEF CardsInv, CreateModule
<1>11. OldCards /\ last' \in Nat /\ last' >= last /\ call' = call
  BY <1>1, <1>2, NewCards DEF OldCards, CreateModule
<1>12. \A d \in Call : GoesOn(d) /\ (Edits(d)' <=> Edits(d)) /\ (At(d, "write")' <=> At(d, "write"))
  BY <1>11 DEF GoesOn, Edits, At
<1>13. ASSUME NEW d \in Call, At(d, "write") PROVE WriteOK(d)'
  <2>1. call[d].m # m /\ call[d].m \in Module
    BY <1>13, RequestShapes DEF CardsInv, At, Edits, CreateModule, Editor, CardsTypeOK
  <2>2. SameCards(call[d].m) /\ (call[d].m \in modules' => call[d].m \in modules)
    BY <1>9, <2>1 DEF CreateModule
  <2> QED BY <1>11, <1>12, <1>13, <2>2, WriteGoesOn DEF SameCards
<1>14. \A d \in Call : Edits(d)' => EditOK(d)'
  BY <1>12, EditsRemain DEF GoesOn, Remains
<1>15. CardsTypeOK'
  <2>1. \A k \in Cards' : card'[k] \in [module : modules', content : Content]
    BY <1>1, <1>2, <1>3, NewCards DEF CreateModule
  <2>2. card' \in [Cards' -> [module : modules', content : Content]]
    BY <1>1, <2>1 DEF Merge, Cards
  <2>3. last' \in 0 .. MaxCards /\ Cards' \subseteq 1 .. last'
    BY <1>1, <1>2, <1>11, NewCards, CardsAssumption DEF CreateModule, CardsTypeOK
  <2>4. asked'[m] \in [given : Given, new : SUBSET Content, all : SUBSET Content, alone : BOOLEAN]
    BY <1>5, <1>6 DEF CardsTypeOK, Nothing
  <2>5. asked' \in [Module -> [given : Given, new : SUBSET Content,
                               all : SUBSET Content, alone : BOOLEAN]]
    BY <1>6, <2>4 DEF CardsTypeOK
  <2> QED BY <2>2, <2>3, <2>5 DEF CardsTypeOK, CreateModule
<1>16. \A d \in Call : ~At(d, "idle")' => call'[d].m \in made'
  BY <1>11 DEF CardsInv, CreateModule, At
<1> QED BY <1>10, <1>12, <1>13, <1>14, <1>15, <1>16 DEF CardsInv

\* Steps of flashcards.service on a card of m: noted, and other modules kept.
LEMMA CardWritten ==
  ASSUME CardsInv, NEW m \in modules, NEW contents \in SUBSET Content, Noted(m, contents),
         UNCHANGED <<made, modules>>, last' \in last .. MaxCards,
         Cards' \subseteq 1 .. last', OldCards,
         card' \in [Cards' -> [module : modules, content : Content]],
         \A x \in Module \ {m} : SameCards(x),
         \A k \in CardsOf(m)' : \/ k \in CardsOf(m) /\ card'[k].content = card[k].content
                                \/ card'[k].content \in contents
  PROVE  CardsInv'
<1> CardsTypeOK
  BY DEF CardsInv
<1> last \in Nat /\ last' \in Nat /\ last' >= last /\ last' \in 0 .. MaxCards /\ m \in Module /\ m \in made
  BY CardsAssumption DEF CardsTypeOK
<1>1. CardsTypeOK'
  BY NotedStep DEF CardsTypeOK
<1>2. ModuleOK(m)'
  <2>1. Contents(CardsOf(m))' \subseteq Contents(CardsOf(m)) \union contents
    BY DEF Contents
  <2>2. Contents(CardsOf(m)) \subseteq asked[m].all
    BY DEF CardsInv, ModuleOK
  <2>3. asked'[m].all = asked[m].all \union contents /\ ~asked'[m].alone
    BY NotedStep
  <2> QED BY <2>1, <2>2, <2>3 DEF ModuleOK
<1>3. ASSUME NEW x \in Module PROVE ModuleOK(x)'
  BY <1>2, <1>3, NotedStep, ModuleGoesOn DEF CardsInv
<1>4. ASSUME NEW d \in Call, At(d, "write")' PROVE WriteOK(d)'
  <2> At(d, "write") /\ Edits(d) /\ GoesOn(d) /\ call[d].m \in Module
    BY <1>4, NotedStep, RequestShapes DEF Edits, Editor, CardsTypeOK
  <2>1. CASE call[d].m = m
    <3>1. contents \subseteq call'[d].met /\ ~call'[d].apart
      BY <2>1, NotedStep
    <3> QED BY <2>1, <3>1, WriteGoesOn
  <2>2. CASE call[d].m # m
    <3>1. PICK x \in Module \ {m} : call[d].m = x
      BY <2>2
    <3> QED BY <3>1, WriteGoesOn DEF SameCards
  <2> QED BY <2>1, <2>2
<1>5. \A d \in Call : Edits(d)' => EditOK(d)'
  BY NotedStep, EditsRemain DEF GoesOn, Remains
<1>6. \A d \in Call : ~At(d, "idle")' => call'[d].m \in made'
  BY NotedStep DEF CardsInv
<1> QED BY <1>1, <1>3, <1>4, <1>5, <1>6 DEF CardsInv

LEMMA CreateCardStep ==
  ASSUME CardsInv, NEW m \in modules, NEW v \in Content, CreateCard(m, v)
  PROVE  CardsInv'
<1> CardsTypeOK /\ m \in Module /\ last \in Nat
  BY CardsAssumption DEF CardsInv, CardsTypeOK
<1> DEFINE new == [module |-> m, content |-> v]
<1>1. /\ Cards' = Cards \union {last'} /\ last' = last + 1 /\ last' \notin 1 .. last
      /\ card'[last'] = new /\ \A k \in Cards : k # last' /\ card'[k] = card[k]
  BY DEF CreateCard, Merge, Cards, CardsTypeOK
<1>2. \A k \in Cards : card[k] \in [module : modules, content : Content]
  BY DEF CardsTypeOK
<1>3. card' \in [Cards' -> [module : modules, content : Content]]
  BY <1>1, <1>2 DEF CreateCard, Merge, Cards
<1>4. OldCards /\ \A x \in Module \ {m} : SameCards(x)
  BY <1>1 DEF OldCards, SameCards, CardsOf
<1>5. last' \in last .. MaxCards /\ Cards' \subseteq 1 .. last'
  BY <1>1, CardsAssumption DEF CreateCard, CardsTypeOK
<1>6. \A k \in CardsOf(m)' : \/ k \in CardsOf(m) /\ card'[k].content = card[k].content
                             \/ card'[k].content \in {v}
  BY <1>1 DEF CardsOf
<1> QED BY <1>3, <1>4, <1>5, <1>6, CardWritten DEF CreateCard

LEMMA UpdateCardStep ==
  ASSUME CardsInv, NEW k \in Cards, NEW v \in Content, UpdateCard(k, v)
  PROVE  CardsInv'
<1> CardsTypeOK /\ last \in Nat
  BY CardsAssumption DEF CardsInv, CardsTypeOK
<1> PICK m \in modules : card[k].module = m
  BY DEF CardsTypeOK
<1>1. \A j \in Cards : card[j] \in [module : modules, content : Content] /\ card[j].module \in Module
  BY DEF CardsTypeOK
<1>2. /\ Cards' = Cards /\ card'[k].module = m /\ card'[k].content = v
      /\ \A j \in Cards \ {k} : card'[j] = card[j]
  BY <1>1 DEF UpdateCard, Cards
<1>3. card' \in [Cards' -> [module : modules, content : Content]]
  BY <1>1, <1>2 DEF UpdateCard, Cards, CardsTypeOK
<1>4. OldCards /\ \A x \in Module \ {m} : SameCards(x)
  BY <1>1, <1>2 DEF OldCards, SameCards, CardsOf
<1>5. last' \in last .. MaxCards /\ Cards' \subseteq 1 .. last'
  BY <1>2, CardsAssumption DEF UpdateCard, CardsTypeOK
<1>6. \A j \in CardsOf(m)' : \/ j \in CardsOf(m) /\ card'[j].content = card[j].content
                             \/ card'[j].content \in {v}
  BY <1>2 DEF CardsOf
<1> QED BY <1>3, <1>4, <1>5, <1>6, CardWritten DEF UpdateCard

LEMMA RemoveCardStep ==
  ASSUME CardsInv, NEW k \in Cards, RemoveCard(k)
  PROVE  CardsInv'
<1> CardsTypeOK /\ last \in Nat
  BY CardsAssumption DEF CardsInv, CardsTypeOK
<1> PICK m \in modules : card[k].module = m
  BY DEF CardsTypeOK
<1>1. \A j \in Cards : card[j] \in [module : modules, content : Content] /\ card[j].module \in Module
  BY DEF CardsTypeOK
<1>2. Cards' = Cards \ {k} /\ \A j \in Cards' : card'[j] = card[j]
  BY DEF RemoveCard, Cards, Restrict
<1>3. card' \in [Cards' -> [module : modules, content : Content]]
  BY <1>1, <1>2 DEF RemoveCard, Cards, Restrict
<1>4. OldCards /\ \A x \in Module \ {m} : SameCards(x)
  BY <1>1, <1>2 DEF OldCards, SameCards, CardsOf
<1>5. last' \in last .. MaxCards /\ Cards' \subseteq 1 .. last'
  BY <1>2, CardsAssumption DEF RemoveCard, CardsTypeOK
<1>6. \A j \in CardsOf(m)' : j \in CardsOf(m) /\ card'[j].content = card[j].content
  BY <1>2 DEF CardsOf
<1> QED BY <1>3, <1>4, <1>5, <1>6, CardWritten DEF RemoveCard

-----------------------------------------------------------------------------
\* Steps of requests that do not write.
LEMMA TablesStay ==
  ASSUME CardsInv, UNCHANGED <<made, modules, card, last, asked>>,
         call' \in [Call -> {Idle} \union Request],
         \A d \in Call :
           /\ Edits(d)' => EditOK(d)'
           /\ ~At(d, "idle")' => call'[d].m \in made
           /\ At(d, "write")' => WriteOK(d)' \/ (At(d, "write") /\ GoesOn(d))
  PROVE  CardsInv'
<1> CardsTypeOK
  BY DEF CardsInv
<1>1. CardsTypeOK'
  BY DEF CardsTypeOK, Cards
<1>2. \A x : SameCards(x) /\ ModuleOK(x)' = ModuleOK(x)
  BY DEF SameCards, CardsOf, Cards, ModuleOK, ExactFor, Contents
<1>3. ASSUME NEW d \in Call, At(d, "write")' PROVE WriteOK(d)'
  <2> SUFFICES ASSUME At(d, "write"), GoesOn(d) PROVE WriteOK(d)'
    BY <1>3
  <2>1. PICK m : call[d].m = m
    OBVIOUS
  <2>2. OldCards /\ last' \in Nat /\ last' >= last
    BY CardsAssumption DEF OldCards, Cards, CardsTypeOK
  <2> QED BY <1>2, <2>1, <2>2, WriteGoesOn DEF SameCards
<1> QED BY <1>1, <1>2, <1>3 DEF CardsInv

LEMMA AskStep ==
  ASSUME CardsInv, NEW c \in Call, NEW m \in modules, NEW ids \in SUBSET Cards,
         NEW new \in SUBSET Content, NEW given \in Injection(ids, Content \ new),
         Ask(c, m, given, new)
  PROVE  CardsInv'
<1> CardsTypeOK /\ m \in Module /\ m \in made
  BY DEF CardsInv, CardsTypeOK
<1> DEFINE begun == [at |-> "list", m |-> m, given |-> given, new |-> new, change |-> {},
                     drop |-> {}, met |-> {}, apart |-> Editing(m) = {}]
<1>1. begun \in Editor
  <2>1. given \in [ids -> Content] /\ ids \in SUBSET Id
    BY CardsAssumption DEF Injection, CardsTypeOK, Id
  <2>2. given \in Given
    BY <2>1 DEF Given
  <2> QED BY <2>2 DEF Editor
<1>2. call'[c] = begun /\ ~Edits(c) /\ UNCHANGED <<made, modules, card, last, asked>>
  BY DEF Ask, Edits, At
<1>3. ASSUME NEW d \in Call \ {c}
      PROVE  /\ call'[d] \in {Idle} \union Request
             /\ call'[d].at = call[d].at
             /\ Edits(d) => GoesOn(d)
             /\ ~At(d, "idle") => call'[d].m = call[d].m
             /\ Edits(d) /\ call[d].m = m => ~call'[d].apart
  <2>1. CASE Edits(d) /\ call[d].m = m
    <3>1. call'[d] = [call[d] EXCEPT !.apart = FALSE]
      BY <2>1 DEF Ask, Editing, Edits
    <3>2. call[d] \in Editor
      BY <2>1, RequestShapes DEF CardsTypeOK
    <3>3. call'[d] \in Editor /\ call'[d].at = call[d].at /\ GoesOn(d) /\ ~call'[d].apart
      BY <3>1, <3>2 DEF Editor, GoesOn
    <3> QED BY <2>1, <3>3 DEF Request, Editor, GoesOn
  <2>2. CASE ~(Edits(d) /\ call[d].m = m)
    <3>1. call'[d] = call[d]
      BY <2>2 DEF Ask, Editing, Edits
    <3> QED BY <2>2, <3>1 DEF GoesOn, CardsTypeOK
  <2> QED BY <2>1, <2>2
<1>4. call' \in [Call -> {Idle} \union Request]
  <2>1. call'[c] \in Request
    BY <1>1, <1>2 DEF Request, Editor
  <2> QED BY <1>3, <2>1 DEF Ask
<1>5. ASSUME NEW d \in Call, Edits(d)' PROVE EditOK(d)'
  <2>1. CASE d = c
    <3>1. \A e \in Call \ {c} : Edits(e)' /\ call'[e].m = m => e \in Editing(m)
      BY <1>3 DEF Edits, At, Editing, GoesOn
    <3>2. call'[c].m = m /\ call'[c].met = {} /\ (call'[c].apart <=> Editing(m) = {})
      <4>1. PICK none \in BOOLEAN : none = (Editing(m) = {})
        OBVIOUS
      <4>2. begun = [at |-> "list", m |-> m, given |-> given, new |-> new, change |-> {},
                     drop |-> {}, met |-> {}, apart |-> none]
        BY <4>1
      <4>3. begun.m = m /\ begun.met = {} /\ begun.apart = none
        BY <4>2
      <4> QED BY <1>2, <4>1, <4>3
    <3>3. call'[c].apart => Editing(m)' \subseteq {c}
      BY <3>1, <3>2 DEF Editing, Edits
    <3> QED BY <2>1, <3>2, <3>3 DEF EditOK, Editing
  <2>2. CASE d # c
    <3>1. Edits(d) /\ GoesOn(d) /\ EditOK(d)
      BY <1>3, <1>5, <2>2 DEF Edits, At, CardsInv
    <3>2. CASE call[d].m = m
      BY <1>3, <2>2, <3>1, <3>2 DEF EditOK
    <3>3. CASE call[d].m # m
      <4>1. \A e \in Call : Edits(e)' /\ call'[e].m = call'[d].m => Edits(e) /\ call[e].m = call[d].m
        BY <1>2, <1>3, <2>2, <3>1, <3>3 DEF GoesOn, Edits, At
      <4> QED BY <3>1, <4>1 DEF EditOK, Editing, Edits, GoesOn
    <3> QED BY <3>2, <3>3
  <2> QED BY <2>1, <2>2
<1>6. ASSUME NEW d \in Call, At(d, "write")' PROVE At(d, "write") /\ GoesOn(d)
  BY <1>2, <1>3, <1>6 DEF At, Edits
<1>7. \A d \in Call : ~At(d, "idle")' => call'[d].m \in made
  BY <1>2, <1>3 DEF CardsInv, At
<1> QED BY <1>2, <1>4, <1>5, <1>6, <1>7, TablesStay

LEMMA AskRemoveStep ==
  ASSUME CardsInv, NEW c \in Call, NEW m \in modules, AskRemove(c, m)
  PROVE  CardsInv'
<1> CardsTypeOK /\ m \in Module /\ m \in made
  BY DEF CardsInv, CardsTypeOK
<1> DEFINE begun == [at |-> "removeCards", m |-> m]
<1>1. /\ call'[c] = begun /\ begun \in Request /\ \A d \in Call \ {c} : call'[d] = call[d]
      /\ call' \in [Call -> {Idle} \union Request]
  BY DEF AskRemove, CardsTypeOK, Request
<1>2. \A d \in Call : Edits(d)' => Edits(d) /\ GoesOn(d)
  BY <1>1 DEF Edits, At, GoesOn
<1> QED BY <1>1, <1>2, EditsRemain, TablesStay
        DEF AskRemove, Edits, At, GoesOn, Remains, CardsInv

LEMMA BreaksOffStep ==
  ASSUME CardsInv, NEW c \in Call, End(c), UNCHANGED <<made, modules, card, last, asked>>
  PROVE  CardsInv'
<1>1. /\ call'[c] = Idle /\ \A d \in Call \ {c} : call'[d] = call[d]
      /\ call' \in [Call -> {Idle} \union Request]
  BY DEF End, CardsInv, CardsTypeOK
<1>2. \A d \in Call : Edits(d)' => Edits(d) /\ GoesOn(d)
  BY <1>1 DEF Edits, At, GoesOn, Idle
<1> QED BY <1>1, <1>2, EditsRemain, TablesStay DEF Edits, At, GoesOn, Remains, CardsInv, Idle

LEMMA ListStep == ASSUME CardsInv, NEW c \in Call, List(c) PROVE CardsInv'
<1> CardsTypeOK /\ Edits(c)
  BY DEF CardsInv, List, Edits
<1> DEFINE old == call[c]
           own == DOMAIN old.given \cap CardsOf(old.m)
           new == old.new \union {old.given[k] : k \in DOMAIN old.given \ own}
           change == own \ {k \in own \cap Cards : card[k].content = old.given[k]}
           drop == CardsOf(old.m) \ own
           given == Restrict(old.given, own)
<1>1. old \in Editor
  BY RequestShapes DEF CardsTypeOK
<1>2. PICK ids \in SUBSET Id : old.given \in [ids -> Content]
  BY <1>1 DEF Editor, Given
<1>3. own \subseteq ids /\ CardsOf(old.m) \subseteq 1 .. last /\ 1 .. last \subseteq Id
  <2>1. own \subseteq ids
    BY <1>2
  <2>2. CardsOf(old.m) \subseteq 1 .. last
    BY DEF CardsOf, CardsTypeOK
  <2>3. 1 .. last \subseteq Id
    BY CardsAssumption DEF CardsTypeOK, Id
  <2> QED BY <2>1, <2>2, <2>3
<1>4. given \in [own -> Content] /\ \A k \in own : given[k] = old.given[k]
  BY <1>2, <1>3 DEF Restrict
<1>5. given \in Given /\ new \in SUBSET Content /\ change \in SUBSET Id /\ drop \in SUBSET Id
  <2>1. given \in Given
    BY <1>3, <1>4 DEF Given
  <2>2. new \in SUBSET Content
    BY <1>1, <1>2 DEF Editor
  <2> QED BY <1>3, <2>1, <2>2
<1>6. call' = [call EXCEPT ![c] = [old EXCEPT !.at = "write", !.given = given, !.new = new,
                                              !.change = change, !.drop = drop]]
  BY DEF List, Own, Dropped, CardsTypeOK
<1> HIDE DEF own, new, change, drop, given
<1>7. /\ call'[c] \in Editor /\ call'[c].at = "write" /\ call'[c].m = old.m
      /\ call'[c].given = given /\ call'[c].new = new /\ call'[c].change = change
      /\ call'[c].drop = drop /\ call'[c].met = old.met /\ call'[c].apart = old.apart
  BY <1>1, <1>5, <1>6 DEF Editor, CardsTypeOK
<1>8. call' \in [Call -> {Idle} \union Request] /\ \A d \in Call \ {c} : call'[d] = call[d]
  BY <1>6, <1>7 DEF CardsTypeOK, Request, Editor
<1>9. WriteOK(c)'
  <2>1. PICK m : old.m = m
    OBVIOUS
  <2>2. CardsOf(m)' = CardsOf(m) /\ card' = card /\ Cards' = Cards /\ last' = last /\ modules' = modules
    BY DEF List, CardsOf, Cards
  <2>3. DOMAIN given = own /\ own \union drop = CardsOf(m) /\ change \subseteq own
        /\ drop \cap own = {}
    BY <1>4, <2>1 DEF own, drop, change
  <2>4. \A k \in own \ change : card[k].content = given[k]
    BY <1>4, <2>3 DEF change, own, CardsOf
  <2>5. \A k \in CardsOf(m) \ (drop \union change) : card[k].content \in Range(given)
    BY <2>3, <2>4 DEF Range
  <2> QED BY <1>3, <1>7, <2>1, <2>2, <2>3, <2>4, <2>5 DEF WriteOK, CardsOf
<1>10. \A d \in Call : Edits(d)' => Edits(d) /\ Remains(d)
  BY <1>7, <1>8 DEF Edits, At, Remains
<1>11. \A d \in Call : At(d, "write")' => WriteOK(d)' \/ (At(d, "write") /\ GoesOn(d))
  BY <1>8, <1>9 DEF At, GoesOn
<1>12. \A d \in Call : ~At(d, "idle")' => call'[d].m \in made
  BY <1>7, <1>8 DEF CardsInv, At, List
<1> QED BY <1>8, <1>10, <1>11, <1>12, EditsRemain, TablesStay DEF List

\* The cards a request leaves, with the content it gives them.
Kept(old) ==
  [k \in Cards \ old.drop |->
     IF k \in old.change THEN [card[k] EXCEPT !.content = old.given[k]] ELSE card[k]]

\* What its transaction makes of the cards.
LEMMA CardsSaved ==
  ASSUME CardsInv, NEW c \in Call, At(c, "write"), NEW old, call[c] = old,
         NEW cards \in Added(old.m, old.new), last' = last + Cardinality(old.new),
         old.change \subseteq Cards,
         card' = Merge(Kept(old), cards)
  PROVE  /\ OldCards /\ Cards' = (Cards \ old.drop) \union NewIds(old.new)
         /\ \A k \in Cards' : \/ k \in Cards /\ card'[k] = card[k]
                              \/ /\ card'[k] \in [module : {old.m}, content : Content]
                                 /\ card'[k].content \in Range(old.given) \union old.new
         /\ \A k \in old.change : card'[k].content = old.given[k]
         /\ \A k \in Cards \ (old.drop \union old.change) : card'[k] = card[k]
         /\ \A k \in NewIds(old.new) : card'[k] = cards[k]
         /\ CardsOf(old.m)' = (CardsOf(old.m) \ old.drop) \union NewIds(old.new)
         /\ \A x \in Module \ {old.m} : SameCards(x)
<1> CardsTypeOK /\ WriteOK(c) /\ Edits(c)
  BY DEF CardsInv, Edits
<1> old \in Editor
  BY RequestShapes DEF CardsTypeOK
<1> DEFINE m == old.m  given == old.given  change == old.change  drop == old.drop  new == old.new
<1>1. /\ \A k \in Cards : card[k] \in [module : modules, content : Content]
      /\ new \in SUBSET Content /\ DOMAIN cards = NewIds(new)
      /\ NewIds(new) \cap Cards = {} /\ NewIds(new) \cap 1 .. last = {}
      /\ \A k \in NewIds(new) : cards[k] \in [module : {m}, content : new]
  <2>1. new \in SUBSET Content
    BY DEF Editor
  <2>2. PICK x : x = m
    OBVIOUS
  <2>3. PICK n \in SUBSET Content : n = new
    BY <2>1
  <2>4. cards \in Added(x, n)
    BY <2>2, <2>3
  <2> QED BY <2>2, <2>3, <2>4, NewCards DEF CardsTypeOK
<1>2. /\ change \subseteq DOMAIN given /\ drop \cap DOMAIN given = {}
      /\ \A k \in Cards : k \in change \union drop => card[k].module = m
      /\ change \subseteq Cards \ drop
  BY DEF WriteOK
<1>3. \A k \in change : given[k] \in Content /\ given[k] \in Range(given)
  BY <1>2 DEF Editor, Given, Range
<1>4. /\ Cards' = (Cards \ drop) \union NewIds(new)
      /\ \A k \in NewIds(new) : card'[k] = cards[k]
      /\ \A k \in Cards \ drop :
           card'[k] = IF k \in change THEN [card[k] EXCEPT !.content = given[k]] ELSE card[k]
  BY <1>1 DEF Merge, Kept, Cards
<1>5. ASSUME NEW k \in change
      PROVE  /\ card'[k] \in [module : {m}, content : Content]
             /\ card'[k].content = given[k] /\ card'[k].module = card[k].module
  <2>1. card[k] \in [module : modules, content : Content] /\ card[k].module = m
    BY <1>1, <1>2
  <2>2. card'[k] = [card[k] EXCEPT !.content = given[k]] /\ given[k] \in Content
    BY <1>2, <1>3, <1>4
  <2> QED BY <2>1, <2>2
<1>6. \A k \in Cards \ (drop \union change) : card'[k] = card[k]
  BY <1>4
<1>7. ASSUME NEW k \in NewIds(new)
      PROVE  /\ card'[k] \in [module : {m}, content : Content]
             /\ card'[k].content \in new /\ card'[k].module = m
             /\ k \notin 1 .. last
  BY <1>1, <1>4
<1>8. OldCards
  BY <1>4, <1>5, <1>6, <1>7 DEF OldCards
<1>9. CardsOf(m)' = (CardsOf(m) \ drop) \union NewIds(new)
  BY <1>2, <1>4, <1>5, <1>6, <1>7 DEF CardsOf
<1>10. ASSUME NEW x \in Module \ {m} PROVE SameCards(x)
  BY <1>2, <1>4, <1>5, <1>6, <1>7 DEF SameCards, CardsOf
<1>11. \A k \in Cards' : \/ k \in Cards /\ card'[k] = card[k]
                         \/ /\ card'[k] \in [module : {m}, content : Content]
                            /\ card'[k].content \in Range(given) \union new
  BY <1>3, <1>4, <1>5, <1>6, <1>7
<1> QED BY <1>4, <1>5, <1>6, <1>8, <1>9, <1>10, <1>11

LEMMA WriteStep == ASSUME CardsInv, NEW c \in Call, Write(c) PROVE CardsInv'
<1> CardsTypeOK /\ At(c, "write") /\ Edits(c)
  BY DEF CardsInv, Write, Edits
<1> PICK old : call[c] = old
  OBVIOUS
<1> WriteOK(c) /\ EditOK(c)
  BY DEF CardsInv
<1> old \in Editor
  BY RequestShapes DEF CardsTypeOK
<1> DEFINE m == old.m  given == old.given  change == old.change  drop == old.drop  new == old.new
           values == Range(given) \union new
<1>1. CASE End(c) /\ UNCHANGED <<card, last, asked>>
  BY <1>1, BreaksOffStep DEF Write
<1>2. CASE ~(End(c) /\ UNCHANGED <<card, last, asked>>)
  <2> PICK cards \in Added(m, new) : card' = Merge(Kept(old), cards)
    BY <1>2 DEF Write, Kept
  <2>1. /\ m \in modules /\ change \subseteq Cards /\ last' = last + Cardinality(new)
        /\ last + Cardinality(new) <= MaxCards /\ UNCHANGED <<made, modules>>
        /\ call' = [d \in Call |-> IF d = c THEN Idle
                                   ELSE IF d \in Editing(m)
                                        THEN [call[d] EXCEPT !.met = @ \union values]
                                        ELSE call[d]]
        /\ asked' = [asked EXCEPT ![m] =
             IF old.apart THEN [given |-> given, new |-> new, all |-> values, alone |-> TRUE]
             ELSE Mixed(values \union old.met)]
    BY <1>2 DEF Write
  <2>2. m \in Module /\ m \in made /\ new \in SUBSET Content /\ values \in SUBSET Content
    BY <2>1 DEF CardsTypeOK, Editor, Given, Range
  <2>a. /\ DOMAIN cards = NewIds(new) /\ NewIds(new) \cap 1 .. last = {}
        /\ NewIds(new) \union 1 .. last \subseteq 1 .. last + Cardinality(new)
        /\ \A k \in NewIds(new) : cards[k] \in [module : {m}, content : new]
        /\ {cards[k].content : k \in NewIds(new)} = new
        /\ Cardinality(NewIds(new)) = Cardinality(new)
    <3>1. PICK x : x = m
      OBVIOUS
    <3>2. PICK n \in SUBSET Content : n = new
      BY <2>2
    <3>3. cards \in Added(x, n)
      BY <3>1, <3>2
    <3> QED BY <3>1, <3>2, <3>3, NewCards
  <2>3. /\ OldCards /\ Cards' = (Cards \ drop) \union NewIds(new)
        /\ \A k \in Cards' : \/ k \in Cards /\ card'[k] = card[k]
                             \/ /\ card'[k] \in [module : {m}, content : Content]
                                /\ card'[k].content \in values
        /\ \A k \in change : card'[k].content = given[k]
        /\ \A k \in Cards \ (drop \union change) : card'[k] = card[k]
        /\ \A k \in NewIds(new) : card'[k] = cards[k]
        /\ CardsOf(m)' = (CardsOf(m) \ drop) \union NewIds(new)
        /\ \A x \in Module \ {m} : SameCards(x)
    BY <2>1, CardsSaved
  <2>4. last \in Nat /\ last' \in Nat /\ last' >= last /\ last' \in 0 .. MaxCards
    BY <2>1, <2>2, NewCards, CardsAssumption
  <2> HIDE DEF values
  <2>5. ASSUME NEW d \in Call
        PROVE  /\ call'[d] \in {Idle} \union Request
               /\ Edits(d)' => Edits(d) /\ d # c /\ GoesOn(d) /\ Remains(d)
               /\ At(d, "write")' => At(d, "write")
               /\ Edits(d)' /\ call[d].m = m => values \subseteq call'[d].met /\ ~call'[d].apart
               /\ ~At(d, "idle")' => call'[d].m \in made
    <3>1. CASE d = c
      BY <2>1, <3>1 DEF Edits, At, Idle
    <3>2. CASE d # c /\ d \in Editing(m)
      <4>1. call'[d] = [call[d] EXCEPT !.met = @ \union values]
        BY <2>1, <3>2
      <4>2. call[d] \in Editor /\ ~call[d].apart
        <5>1. Edits(d) /\ call[d].m = m /\ EditOK(d)
          BY <3>2 DEF Editing, Edits, CardsInv
        <5>2. c \in Editing(call[d].m) \ {d}
          BY <3>2, <5>1 DEF Editing, Edits
        <5>3. call[d] \in Editor
          BY <5>1, RequestShapes DEF CardsTypeOK
        <5> QED BY <5>1, <5>2, <5>3 DEF EditOK
      <4>3. /\ call'[d] \in Editor /\ call'[d].at = call[d].at /\ GoesOn(d)
            /\ call'[d].apart = call[d].apart /\ values \subseteq call'[d].met
        BY <2>2, <4>1, <4>2 DEF Editor, GoesOn
      <4>4. Edits(d) /\ call[d].m \in made
        BY <3>2 DEF Editing, Edits, CardsInv, At
      <4> QED BY <3>2, <4>2, <4>3, <4>4 DEF Edits, At, Request, Editor, GoesOn, Remains
    <3>3. CASE d # c /\ d \notin Editing(m)
      <4>1. call'[d] = call[d]
        BY <2>1, <3>3
      <4>2. ~(Edits(d) /\ call[d].m = m)
        BY <3>3 DEF Editing, Edits
      <4> QED BY <3>3, <4>1, <4>2 DEF Edits, At, GoesOn, Remains, CardsInv, CardsTypeOK
    <3> QED BY <3>1, <3>2, <3>3
  <2>6. CardsTypeOK'
    <3>1. \A k \in Cards' : card'[k] \in [module : modules', content : Content]
      BY <2>1, <2>3 DEF CardsTypeOK
    <3>2. card' \in [Cards' -> [module : modules', content : Content]]
      BY <3>1 DEF Merge, Cards
    <3>3. Cards' \subseteq 1 .. last'
      BY <2>1, <2>3, <2>a DEF CardsTypeOK
    <3>4. asked'[m] \in [given : Given, new : SUBSET Content, all : SUBSET Content, alone : BOOLEAN]
      <4>1. [k \in {} |-> 0] \in Given
        <5>1. [k \in {} |-> 0] \in [{} -> Content] /\ {} \in SUBSET Id
          OBVIOUS
        <5> QED BY <5>1 DEF Given
      <4> QED BY <2>1, <2>2, <4>1 DEF CardsTypeOK, Mixed, Nothing, Editor
    <3>5. asked' \in [Module -> [given : Given, new : SUBSET Content,
                                 all : SUBSET Content, alone : BOOLEAN]]
      BY <2>1, <3>4 DEF CardsTypeOK
    <3>6. call' \in [Call -> {Idle} \union Request]
      BY <2>1, <2>5
    <3> QED BY <2>1, <2>4, <3>2, <3>3, <3>5, <3>6 DEF CardsTypeOK
  <2>7. ModuleOK(m)'
    <3>1. Contents(CardsOf(m))' \subseteq values \union old.met
      <4>1. ASSUME NEW k \in CardsOf(m)' PROVE card'[k].content \in values \union old.met
        <5>1. CASE k \in CardsOf(m) \ (drop \union change)
          BY <2>3, <5>1 DEF WriteOK, CardsOf, values
        <5>2. CASE k \notin CardsOf(m) \ (drop \union change)
          <6>1. k \in change \/ k \in NewIds(new)
            BY <2>3, <5>2 DEF CardsOf
          <6>2. k \in change => card'[k].content \in Range(given)
            BY <2>3 DEF WriteOK, Range
          <6>3. k \in NewIds(new) => card'[k].content \in new
            BY <2>3, <2>a
          <6> QED BY <6>1, <6>2, <6>3 DEF values
        <5> QED BY <5>1, <5>2
      <4> QED BY <4>1 DEF Contents
    <3>2. CASE ~old.apart
      <4>1. asked'[m].all = values \union old.met /\ ~asked'[m].alone
        BY <2>1, <2>2, <3>2 DEF Mixed, Nothing, CardsTypeOK
      <4> QED BY <2>1, <2>2, <3>1, <4>1 DEF ModuleOK
    <3>3. CASE old.apart
      <4>1. /\ asked'[m].given = given /\ asked'[m].new = new /\ asked'[m].all = values
            /\ old.met = {}
        BY <2>1, <2>2, <3>3 DEF EditOK, CardsTypeOK
      <4>2. CardsOf(m)' = DOMAIN given \union NewIds(new) /\ DOMAIN given \cap NewIds(new) = {}
        BY <2>1, <2>3, <2>a, <3>3 DEF WriteOK
      <4>3. CardsOf(m)' \ DOMAIN asked'[m].given = NewIds(new)
        BY <4>1, <4>2
      <4>4. \A k \in DOMAIN given : card'[k].content = given[k]
        <5>1. ASSUME NEW k \in DOMAIN given \ change PROVE card'[k].content = given[k]
          <6>1. card[k].content = given[k] /\ k \in CardsOf(m) /\ k \notin drop
            BY <2>1, <3>3 DEF WriteOK
          <6> QED BY <2>3, <6>1 DEF CardsOf
        <5> QED BY <2>3, <5>1
      <4>5. Contents(CardsOf(m) \ DOMAIN asked[m].given)' = new
        BY <2>3, <2>a, <4>3 DEF Contents
      <4>6. Cardinality(CardsOf(m)' \ DOMAIN asked'[m].given) = Cardinality(new)
        BY <2>a, <4>3
      <4>7. ExactFor(m)'
        BY <4>1, <4>2, <4>4, <4>5, <4>6 DEF ExactFor
      <4> QED BY <2>1, <2>2, <3>1, <4>1, <4>7 DEF ModuleOK
    <3> QED BY <3>2, <3>3
  <2>8. ASSUME NEW x \in Module PROVE ModuleOK(x)'
    <3>1. CASE x # m
      <4>1. asked'[x] = asked[x]
        BY <2>1, <3>1 DEF CardsTypeOK
      <4> QED BY <2>1, <2>3, <3>1, <4>1, ModuleGoesOn DEF CardsInv
    <3> QED BY <2>7, <3>1
  <2>9. ASSUME NEW d \in Call, At(d, "write")' PROVE WriteOK(d)'
    <3> At(d, "write") /\ Edits(d)' /\ GoesOn(d)
      BY <2>5, <2>9 DEF Edits
    <3>1. CASE call[d].m = m
      <4>1. values \subseteq call'[d].met /\ ~call'[d].apart
        BY <2>5, <3>1
      <4>2. ASSUME NEW k \in CardsOf(m)'
            PROVE  \/ k \in CardsOf(m) /\ card'[k].content = card[k].content
                   \/ card'[k].content \in call'[d].met
        BY <2>3, <4>1, <4>2 DEF CardsOf
      <4> QED BY <2>3, <2>4, <3>1, <4>1, <4>2, WriteGoesOn
    <3>2. CASE call[d].m # m
      <4>1. PICK x \in Module \ {m} : call[d].m = x
        BY <3>2, RequestShapes DEF CardsTypeOK, Editor, Edits
      <4>2. SameCards(x) /\ (x \in modules' => x \in modules)
        BY <2>1, <2>3
      <4>3. \A k \in CardsOf(x)' : k \in CardsOf(x) /\ card'[k].content = card[k].content
        BY <4>2 DEF SameCards
      <4> QED BY <2>3, <2>4, <4>1, <4>2, <4>3, WriteGoesOn
    <3> QED BY <3>1, <3>2
  <2>10. \A d \in Call : Edits(d)' => EditOK(d)'
    BY <2>5, EditsRemain
  <2> QED BY <2>1, <2>5, <2>6, <2>8, <2>9, <2>10 DEF CardsInv
<1> QED BY <1>1, <1>2

\* A module's cards go.
CardsGone(m) ==
  /\ Cards' = Cards \ CardsOf(m) /\ \A k \in Cards' : card'[k] = card[k]
  /\ card' \in [Cards' -> [module : modules, content : Content]]
  /\ CardsOf(m)' = {} /\ OldCards
  /\ \A x \in Module \ {m} : SameCards(x)

LEMMA CardsRemoved ==
  ASSUME CardsTypeOK, NEW m, card' = Restrict(card, Cards \ CardsOf(m))
  PROVE  CardsGone(m)
<1>1. /\ Cards' = Cards \ CardsOf(m) /\ \A k \in Cards' : card'[k] = card[k]
      /\ card' \in [Cards' -> [module : modules, content : Content]]
  BY DEF Restrict, Cards, CardsTypeOK
<1> QED BY <1>1 DEF CardsGone, CardsOf, SameCards, OldCards

LEMMA RemoveCardsStep == ASSUME CardsInv, NEW c \in Call, RemoveCards(c) PROVE CardsInv'
<1> CardsTypeOK /\ ~Edits(c) /\ last \in Nat
  BY CardsAssumption DEF CardsInv, RemoveCards, Edits, At, CardsTypeOK
<1> PICK m : call[c].m = m
  OBVIOUS
<1>1. call[c] \in Remover /\ m \in Module /\ m \in made
  BY RequestShapes DEF RemoveCards, CardsTypeOK, Remover, CardsInv, At
<1>2. /\ UNCHANGED <<made, modules, last>> /\ CardsGone(m)
      /\ asked' = [asked EXCEPT ![m] = Mixed(asked[m].all)]
      /\ call' = [d \in Call |->
           IF d = c THEN [call[d] EXCEPT !.at = "removeModule"]
           ELSE IF d \in Editing(m) THEN [call[d] EXCEPT !.apart = FALSE] ELSE call[d]]
  BY CardsRemoved DEF RemoveCards
<1>3. ASSUME NEW d \in Call
      PROVE  /\ call'[d] \in {Idle} \union Request
             /\ Edits(d)' => Edits(d) /\ GoesOn(d) /\ Remains(d)
             /\ At(d, "write")' => At(d, "write")
             /\ Edits(d)' /\ call[d].m = m => ~call'[d].apart
             /\ ~At(d, "idle")' => call'[d].m \in made'
  <2>1. CASE d = c
    <3>1. call'[d] = [call[d] EXCEPT !.at = "removeModule"]
      BY <1>2, <2>1
    <3>2. call'[d] \in Remover /\ call'[d].at = "removeModule" /\ call'[d].m = m
      BY <1>1, <2>1, <3>1 DEF Remover
    <3> QED BY <1>1, <1>2, <3>2 DEF Edits, At, Request, Remover
  <2>2. CASE d # c /\ d \in Editing(m)
    <3>1. call'[d] = [call[d] EXCEPT !.apart = FALSE] /\ Edits(d)
      BY <1>2, <2>2 DEF Editing, Edits
    <3>2. call[d] \in Editor
      BY <3>1, RequestShapes DEF CardsTypeOK
    <3>3. /\ call'[d] \in Editor /\ call'[d].at = call[d].at /\ GoesOn(d) /\ ~call'[d].apart
      BY <3>1, <3>2 DEF Editor, GoesOn
    <3>4. call[d].m \in made
      BY <3>1 DEF CardsInv, Edits, At
    <3> QED BY <1>2, <3>1, <3>3, <3>4 DEF Edits, At, Request, Editor, GoesOn, Remains
  <2>3. CASE d # c /\ d \notin Editing(m)
    <3>1. call'[d] = call[d] /\ ~(Edits(d) /\ call[d].m = m)
      BY <1>2, <2>3 DEF Editing, Edits
    <3>2. call'[d] \in {Idle} \union Request
      BY <3>1 DEF CardsTypeOK
    <3>3. ~At(d, "idle") => call[d].m \in made
      BY DEF CardsInv
    <3>4. GoesOn(d) /\ Remains(d)
      BY <3>1 DEF GoesOn, Remains
    <3>5. /\ Edits(d)' = Edits(d) /\ At(d, "write")' = At(d, "write")
          /\ At(d, "idle")' = At(d, "idle") /\ call'[d].m = call[d].m /\ made' = made
      BY <1>2, <3>1 DEF Edits, At
    <3> QED BY <3>1, <3>2, <3>3, <3>4, <3>5, Zenon
  <2> QED BY <2>1, <2>2, <2>3
<1>4. CardsTypeOK'
  <2>1. Mixed(asked[m].all) \in
          [given : Given, new : SUBSET Content, all : SUBSET Content, alone : BOOLEAN]
    <3>1. [k \in {} |-> 0] \in [{} -> Content] /\ {} \in SUBSET Id
      OBVIOUS
    <3> QED BY <1>1, <3>1 DEF Mixed, Nothing, CardsTypeOK, Given
  <2>2. asked' \in [Module -> [given : Given, new : SUBSET Content,
                               all : SUBSET Content, alone : BOOLEAN]]
    BY <1>2, <2>1 DEF CardsTypeOK
  <2>3. call' \in [Call -> {Idle} \union Request]
    BY <1>2, <1>3
  <2> QED BY <1>2, <2>2, <2>3 DEF CardsTypeOK, CardsGone
<1>5. ASSUME NEW x \in Module PROVE ModuleOK(x)'
  <2>1. CASE x = m
    <3>1. Contents(CardsOf(m))' = {}
      BY <1>2 DEF CardsGone, Contents
    <3>2. ~asked'[m].alone
      BY <1>1, <1>2 DEF Mixed, Nothing, CardsTypeOK
    <3> QED BY <1>1, <1>2, <2>1, <3>1, <3>2 DEF ModuleOK
  <2>2. CASE x # m
    <3>1. asked'[x] = asked[x]
      BY <1>2, <2>2 DEF CardsTypeOK
    <3> QED BY <1>2, <2>2, <3>1, ModuleGoesOn DEF CardsInv, CardsGone
  <2> QED BY <2>1, <2>2
<1>6. ASSUME NEW d \in Call, At(d, "write")' PROVE WriteOK(d)'
  <2> At(d, "write") /\ Edits(d)' /\ GoesOn(d)
    BY <1>3, <1>6 DEF Edits
  <2> last' \in Nat /\ last' >= last /\ OldCards
    BY <1>2 DEF CardsGone
  <2>1. CASE call[d].m = m
    BY <1>2, <1>3, <2>1, WriteGoesOn DEF CardsGone
  <2>2. CASE call[d].m # m
    <3>1. PICK x \in Module \ {m} : call[d].m = x
      BY <2>2, RequestShapes DEF CardsTypeOK, Editor, Edits
    <3>2. SameCards(x) /\ (x \in modules' => x \in modules)
      BY <1>2 DEF CardsGone
    <3>3. \A k \in CardsOf(x)' : k \in CardsOf(x) /\ card'[k].content = card[k].content
      BY <3>2 DEF SameCards
    <3> QED BY <3>1, <3>2, <3>3, WriteGoesOn
  <2> QED BY <2>1, <2>2
<1>7. \A d \in Call : Edits(d)' => EditOK(d)'
  BY <1>3, EditsRemain
<1> QED BY <1>3, <1>4, <1>5, <1>6, <1>7 DEF CardsInv

LEMMA RemoveModuleStep == ASSUME CardsInv, NEW c \in Call, RemoveModule(c) PROVE CardsInv'
<1> CardsTypeOK /\ last \in Nat
  BY CardsAssumption DEF CardsInv, CardsTypeOK
<1> PICK m : call[c].m = m
  OBVIOUS
<1>1. /\ UNCHANGED <<made, last, asked>> /\ CardsGone(m) /\ modules' = modules \ {m}
      /\ call'[c] = Idle /\ \A d \in Call \ {c} : call'[d] = call[d]
      /\ call' \in [Call -> {Idle} \union Request]
  BY CardsRemoved DEF RemoveModule, End, CardsTypeOK
<1>2. \A d \in Call : Edits(d)' => At(d, "write")' = At(d, "write") /\ Edits(d) /\ GoesOn(d) /\ Remains(d)
  BY <1>1 DEF Edits, At, GoesOn, Remains, Idle
<1>3. CardsTypeOK'
  <2>1. \A k \in Cards' : card'[k] \in [module : modules', content : Content]
    BY <1>1 DEF CardsGone, CardsOf, CardsTypeOK
  <2>2. card' \in [Cards' -> [module : modules', content : Content]]
    BY <1>1, <2>1 DEF CardsGone
  <2> QED BY <1>1, <2>2 DEF CardsTypeOK, CardsGone
<1>4. ASSUME NEW x \in Module PROVE ModuleOK(x)'
  <2>1. CASE x = m
    BY <1>1, <2>1 DEF ModuleOK, CardsInv
  <2>2. CASE x # m
    BY <1>1, <2>2, ModuleGoesOn DEF CardsInv, CardsGone
  <2> QED BY <2>1, <2>2
<1>5. ASSUME NEW d \in Call, At(d, "write")' PROVE WriteOK(d)'
  <2> At(d, "write") /\ GoesOn(d)
    BY <1>2, <1>5 DEF Edits
  <2> last' \in Nat /\ last' >= last /\ OldCards
    BY <1>1 DEF CardsGone
  <2>1. CASE call[d].m = m
    BY <1>1, <2>1, WriteGoesOn DEF CardsGone
  <2>2. CASE call[d].m # m
    <3>1. PICK x \in Module \ {m} : call[d].m = x
      BY <2>2, RequestShapes DEF CardsTypeOK, Editor, Edits
    <3>2. SameCards(x) /\ (x \in modules' => x \in modules)
      BY <1>1 DEF CardsGone
    <3>3. \A k \in CardsOf(x)' : k \in CardsOf(x) /\ card'[k].content = card[k].content
      BY <3>2 DEF SameCards
    <3> QED BY <3>1, <3>2, <3>3, WriteGoesOn
  <2> QED BY <2>1, <2>2
<1>6. \A d \in Call : Edits(d)' => EditOK(d)'
  BY <1>2, EditsRemain
<1>7. \A d \in Call : ~At(d, "idle")' => call'[d].m \in made'
  BY <1>1 DEF CardsInv, At, Idle
<1> QED BY <1>3, <1>4, <1>5, <1>6, <1>7 DEF CardsInv

-----------------------------------------------------------------------------
LEMMA CardsInvInit == CardsInit => CardsInv
<1> SUFFICES ASSUME CardsInit PROVE CardsInv
  OBVIOUS
<1>1. CardsTypeOK
  <2>1. [k \in {} |-> 0] \in Given
    <3>1. [k \in {} |-> 0] \in [{} -> Content] /\ {} \in SUBSET Id
      OBVIOUS
    <3> QED BY <3>1 DEF Given
  <2> QED BY <2>1, CardsAssumption DEF CardsInit, CardsTypeOK, Nothing, Cards
<1> QED BY <1>1 DEF CardsInv, CardsInit, ModuleOK, At, Edits, Idle

LEMMA CardsInvStep == CardsInv /\ [CardsNext]_tables => CardsInv'
<1> SUFFICES ASSUME CardsInv, [CardsNext]_tables PROVE CardsInv'
  OBVIOUS
<1>1. ASSUME NEW m \in Module, NEW new \in SUBSET Content, CreateModule(m, new) PROVE CardsInv'
  BY <1>1, CreateModuleStep
<1>2. ASSUME NEW m \in modules, NEW v \in Content, CreateCard(m, v) PROVE CardsInv'
  BY <1>2, CreateCardStep
<1>3. ASSUME NEW k \in Cards, NEW v \in Content, UpdateCard(k, v) PROVE CardsInv'
  BY <1>3, UpdateCardStep
<1>4. ASSUME NEW k \in Cards, RemoveCard(k) PROVE CardsInv'
  BY <1>4, RemoveCardStep
<1>5. ASSUME NEW c \in Call, NEW m \in modules, NEW ids \in SUBSET Cards,
             NEW new \in SUBSET Content, NEW given \in Injection(ids, Content \ new),
             Ask(c, m, given, new)
      PROVE  CardsInv'
  BY <1>5, AskStep
<1>6. ASSUME NEW c \in Call, NEW m \in modules, AskRemove(c, m) PROVE CardsInv'
  BY <1>6, AskRemoveStep
<1>7. ASSUME NEW c \in Call, Step(c) PROVE CardsInv'
  BY <1>7, ListStep, WriteStep, RemoveCardsStep, RemoveModuleStep, BreaksOffStep
     DEF Step, BreaksOff
<1>8. CASE UNCHANGED tables
  <2>1. UNCHANGED <<made, modules, card, last, asked, call>>
    BY <1>8 DEF tables
  <2>2. call' \in [Call -> {Idle} \union Request]
    BY <2>1 DEF CardsInv, CardsTypeOK
  <2>3. \A d \in Call : /\ Edits(d)' = Edits(d) /\ Remains(d) /\ GoesOn(d)
                        /\ At(d, "write")' = At(d, "write") /\ At(d, "idle")' = At(d, "idle")
    BY <2>1 DEF Edits, At, Remains, GoesOn
  <2> QED BY <2>1, <2>2, <2>3, EditsRemain, TablesStay DEF CardsInv
<1> QED BY <1>1, <1>2, <1>3, <1>4, <1>5, <1>6, <1>7, <1>8 DEF CardsNext

LEMMA CardsInvariant == CardsSpec => []CardsInv
BY CardsInvInit, CardsInvStep, PTL DEF CardsSpec

\* A list of cards leaves nothing older in its module, though update reads the
\* cards before it writes: what it did not see was noted as met.
THEOREM CardsAskedAlways == CardsSpec => []CardsAsked
<1>1. CardsInv => CardsAsked
  BY DEF CardsInv, CardsTypeOK, ModuleOK, CardsAsked
<1> QED BY <1>1, CardsInvariant, PTL

\* A list that nothing overlapped shows as it was sent, ids kept.
THEOREM CardsExactAlways == CardsSpec => []CardsExact
<1>1. CardsInv => CardsExact
  BY DEF CardsInv, CardsTypeOK, ModuleOK, ExactFor, CardsExact
<1> QED BY <1>1, CardsInvariant, PTL

-----------------------------------------------------------------------------
(* Folders and their tags. An id is not used again, so of the tags a        *)
(* request goes by, those that exist are still its folder's. What it has    *)
(* read of a module's tags in the folder is stale only by what it has met.  *)

OwnTags(ts, f) == ts \subseteq 1 .. lastTag /\ \A t \in ts \cap Tags : tag[t].folder = f

WantedOK(m, f) ==
  /\ OwnTags(wanted[m, f].tags, f)
  /\ Worn(m, f) \subseteq wanted[m, f].tags
  /\ wanted[m, f].alone => Worn(m, f) = wanted[m, f].tags \cap Tags

RequestOK(r) ==
  /\ <<r.m, r.f>> \in ever
  /\ r.at # "check" => OwnTags(r.tags, r.f)
  /\ OwnTags(r.listed, r.f) /\ OwnTags(r.met, r.f) /\ r.cut \subseteq r.listed
  /\ r.at # "connect" => r.cut = {}
  /\ r.at = "cut" => Worn(r.m, r.f) \subseteq r.listed \union r.met
  /\ r.at = "connect" => Worn(r.m, r.f) \subseteq r.cut \union r.tags \union r.met

\* Of two requests for the same module and folder neither is apart.
ApartOK(c) ==
  /\ setting[c].apart => setting[c].met = {}
  /\ \A d \in Rivals(c, setting[c].m, setting[c].f) : ~setting[c].apart

Active(c) == ~Stands(c, "idle")

FoldersInv ==
  /\ FoldersTypeOK /\ TaggedWereMembers
  /\ \A m \in Filed, f \in Folder : WantedOK(m, f)
  /\ \A c \in Setter : /\ \A r \in TagRequest : setting[c] = r => RequestOK(r)
                       /\ Active(c) => ApartOK(c)

LEMMA SettingShapes ==
  ASSUME FoldersTypeOK, NEW c \in Setter
  PROVE  /\ Active(c) <=> setting[c] \in TagRequest
         /\ ~Active(c) => setting[c] = NoRequest
BY DEF FoldersTypeOK, TagRequest, Active, Stands, NoRequest

-----------------------------------------------------------------------------
(* Tags and folders come and go.                                            *)

\* Tags keep their folder, and ids are not used again.
OldTags ==
  /\ lastTag \in Nat /\ lastTag' \in Nat /\ lastTag <= lastTag'
  /\ \A t \in Tags' : t \in 1 .. lastTag => t \in Tags /\ tag'[t].folder = tag[t].folder

LEMMA OwnStay ==
  ASSUME OldTags, NEW ts, NEW f, OwnTags(ts, f)
  PROVE  OwnTags(ts, f)'
BY DEF OwnTags, OldTags

LEMMA TagsCome ==
  ASSUME FoldersInv, OldTags, tagged' = {mt \in tagged : mt[2] \in Tags'},
         setting' = setting, wanted' = wanted, ever \subseteq ever', FoldersTypeOK'
  PROVE  FoldersInv'
<1> FoldersTypeOK
  BY DEF FoldersInv
<1>1. \A mt \in tagged : mt \in Filed \X Tags /\ mt[1] \in Filed /\ mt[2] \in Tags /\ mt[2] \in 1 .. lastTag
  BY DEF FoldersTypeOK
<1>2. TaggedWereMembers'
  BY <1>1 DEF FoldersInv, TaggedWereMembers, OldTags
<1>3. ASSUME NEW m \in Filed, NEW f \in Folder
      PROVE  Worn(m, f)' = Worn(m, f) \cap Tags'
  BY <1>1 DEF Worn, TagsOf, OldTags
<1>4. ASSUME NEW m \in Filed, NEW f \in Folder PROVE WantedOK(m, f)'
  <2>1. WantedOK(m, f) /\ OwnTags(wanted[m, f].tags, f)' /\ Worn(m, f)' = Worn(m, f) \cap Tags'
    BY <1>3, OwnStay DEF FoldersInv, WantedOK
  <2>2. wanted[m, f].tags \cap Tags' \subseteq Tags
    BY DEF OldTags, FoldersInv, WantedOK, OwnTags
  <2> QED BY <2>1, <2>2 DEF WantedOK
<1>5. ASSUME NEW r \in TagRequest, RequestOK(r) PROVE RequestOK(r)'
  <2>1. r.m \in Filed /\ r.f \in Folder
    BY DEF TagRequest
  <2>2. Worn(r.m, r.f)' \subseteq Worn(r.m, r.f)
    BY <1>3, <2>1
  <2>3. \A ts : OwnTags(ts, r.f) => OwnTags(ts, r.f)'
    BY OwnStay
  <2> QED BY <1>5, <2>2, <2>3 DEF RequestOK
<1>6. \A c \in Setter : ApartOK(c)' = ApartOK(c) /\ Active(c)' = Active(c)
  BY DEF ApartOK, Rivals, Stands, Active
<1> QED BY <1>2, <1>4, <1>5, <1>6 DEF FoldersInv

LEMMA CreateFolderStep ==
  ASSUME FoldersInv, NEW f \in Folder, NEW names \in NameLists, CreateFolder(f, names)
  PROVE  FoldersInv'
<1> FoldersTypeOK
  BY DEF FoldersInv
<1>1. /\ Len(names) \in Nat /\ \A i \in 1 .. Len(names) : names[i] \in Name
      /\ \A i, j \in 1 .. Len(names) : names[i] = names[j] => i = j
  <2>1. PICK n \in 0 .. Cardinality(Name) : names \in [1 .. n -> Name]
    BY DEF NameLists, BoundedSeq, SeqOf
  <2>2. n \in Nat
    BY <2>1
  <2>3. names \in Seq(Name)
    BY <2>1, <2>2
  <2>4. Len(names) \in Nat /\ DOMAIN names = 1 .. Len(names)
    BY <2>3
  <2> QED BY <2>1, <2>4 DEF NameLists, IsInjective
<1>2. lastTag \in Nat /\ lastTag' = lastTag + Len(names) /\ lastTag' \in 0 .. MaxTags
  BY <1>1, FoldersAssumption DEF CreateFolder, FoldersTypeOK
<1>3. Tags' = Tags \union (lastTag + 1 .. lastTag') /\ Tags \subseteq 1 .. lastTag
  BY DEF CreateFolder, Tags, FoldersTypeOK
<1>4. /\ \A t \in Tags : tag'[t] = tag[t] /\ tag[t] \in [folder : folders, name : Name]
      /\ \A t \in lastTag + 1 .. lastTag' :
           /\ t \notin Tags /\ t - lastTag \in 1 .. Len(names)
           /\ tag'[t] = [folder |-> f, name |-> names[t - lastTag]]
  BY <1>1, <1>2, <1>3 DEF CreateFolder, FoldersTypeOK
<1>a. /\ \A t \in Tags' \ Tags :
           /\ tag'[t].folder = f /\ tag'[t].name = names[t - lastTag]
           /\ tag'[t] \in [folder : folders \union {f}, name : Name]
      /\ \A t \in Tags : tag'[t].folder \in folders
  <2>1. ASSUME NEW t \in Tags' \ Tags
        PROVE  /\ tag'[t].folder = f /\ tag'[t].name = names[t - lastTag]
               /\ tag'[t] \in [folder : folders \union {f}, name : Name]
    <3>1. t \in lastTag + 1 .. lastTag'
      BY <1>3
    <3>2. names[t - lastTag] \in Name /\ tag'[t] = [folder |-> f, name |-> names[t - lastTag]]
      BY <1>1, <1>4, <3>1
    <3> QED BY <3>2
  <2>2. \A t \in Tags : tag'[t].folder \in folders
    BY <1>4
  <2> QED BY <2>1, <2>2
<1>5. OldTags
  BY <1>1, <1>2, <1>3, <1>4 DEF OldTags
<1>6. tagged' = {mt \in tagged : mt[2] \in Tags'}
  BY <1>3 DEF CreateFolder, FoldersTypeOK
<1>7. f \notin folders /\ folders' = folders \union {f} /\ foldersMade' = foldersMade \union {f}
  BY DEF CreateFolder, FoldersTypeOK
<1>8. FoldersTypeOK'
  <2>1. \A t \in Tags' : tag'[t] \in [folder : folders', name : Name]
    BY <1>4, <1>7, <1>a
  <2>2. tag' \in [Tags' -> [folder : folders', name : Name]]
    BY <2>1 DEF CreateFolder, Tags
  <2>3. ASSUME NEW t \in Tags', NEW x \in Tags', t # x PROVE tag'[t] # tag'[x]
    <3>1. CASE t \in Tags /\ x \in Tags
      BY <1>4, <2>3, <3>1 DEF FoldersTypeOK
    <3>2. CASE t \in Tags /\ x \notin Tags
      BY <1>7, <1>a, <3>2
    <3>3. CASE t \notin Tags /\ x \in Tags
      BY <1>7, <1>a, <3>3
    <3>4. CASE t \notin Tags /\ x \notin Tags
      <4>1. t - lastTag # x - lastTag
        BY <1>2, <1>3, <2>3, <3>4
      <4>2. names[t - lastTag] # names[x - lastTag]
        BY <1>1, <1>3, <1>4, <3>4, <4>1
      <4> QED BY <1>a, <3>4, <4>2
    <3> QED BY <3>1, <3>2, <3>3, <3>4
  <2>4. Tags' \subseteq 1 .. lastTag'
    <3>1. \A t \in Tags : t \in 1 .. lastTag'
      BY <1>1, <1>2, <1>3
    <3>2. \A t \in lastTag + 1 .. lastTag' : t \in 1 .. lastTag'
      BY <1>2
    <3> QED BY <1>3, <3>1, <3>2
  <2> QED BY <1>2, <1>3, <1>7, <2>2, <2>3, <2>4 DEF CreateFolder, FoldersTypeOK
<1> QED BY <1>5, <1>6, <1>8, TagsCome DEF CreateFolder

\* Of tags that go the pairs go too.
LEMMA TagsDropped ==
  ASSUME FoldersTypeOK, NEW ts, DropTags(ts), UNCHANGED lastTag
  PROVE  /\ OldTags /\ Tags' = Tags \ ts /\ tagged' = {mt \in tagged : mt[2] \in Tags'}
         /\ \A t \in Tags' : tag'[t] = tag[t]
         /\ tag' \in [Tags' -> [folder : folders, name : Name]]
         /\ tagged' \subseteq Filed \X Tags'
<1>1. Tags' = Tags \ ts /\ \A t \in Tags' : tag'[t] = tag[t]
  BY DEF DropTags, Tags
<1>2. tag' \in [Tags' -> [folder : folders, name : Name]]
  BY <1>1 DEF DropTags, Tags, FoldersTypeOK
<1>3. lastTag \in Nat
  BY FoldersAssumption DEF FoldersTypeOK
<1>4. tagged' = {mt \in tagged : mt[2] \in Tags'} /\ tagged' \subseteq Filed \X Tags'
  BY <1>1 DEF DropTags, FoldersTypeOK
<1> QED BY <1>1, <1>2, <1>3, <1>4 DEF OldTags

LEMMA RemoveFolderStep ==
  ASSUME FoldersInv, NEW f \in Folder, RemoveFolder(f) PROVE FoldersInv'
<1> FoldersTypeOK
  BY DEF FoldersInv
<1>1. /\ OldTags /\ Tags' = Tags \ TagsOf(f) /\ tagged' = {mt \in tagged : mt[2] \in Tags'}
      /\ \A t \in Tags' : tag'[t] = tag[t]
      /\ tag' \in [Tags' -> [folder : folders, name : Name]]
      /\ tagged' \subseteq Filed \X Tags'
  BY TagsDropped DEF RemoveFolder
<1>2. \A t \in Tags' : tag'[t] \in [folder : folders', name : Name]
  BY <1>1 DEF RemoveFolder, TagsOf
<1>3. tag' \in [Tags' -> [folder : folders', name : Name]]
  BY <1>1, <1>2
<1>4. member' \subseteq Filed \X folders'
  BY DEF RemoveFolder, FoldersTypeOK
<1>5. FoldersTypeOK'
  BY <1>1, <1>3, <1>4 DEF RemoveFolder, FoldersTypeOK
<1> QED BY <1>1, <1>5, TagsCome DEF RemoveFolder

LEMMA BelongStep ==
  ASSUME FoldersInv, NEW pairs \in SUBSET (Filed \X folders), Belong(pairs)
  PROVE  FoldersInv'
<1> FoldersTypeOK
  BY DEF FoldersInv
<1>1. FoldersTypeOK'
  BY DEF Belong, FoldersTypeOK, Tags
<1>2. OldTags /\ tagged' = {mt \in tagged : mt[2] \in Tags'}
  BY FoldersAssumption DEF Belong, FoldersTypeOK, OldTags, Tags
<1> QED BY <1>1, <1>2, TagsCome DEF Belong

LEMMA CreateTagStep ==
  ASSUME FoldersInv, NEW f \in Folder, NEW n \in Name, CreateTag(f, n)
  PROVE  FoldersInv'
<1> FoldersTypeOK
  BY DEF FoldersInv
<1>1. lastTag \in Nat /\ lastTag' = lastTag + 1 /\ lastTag' \in 0 .. MaxTags
  BY FoldersAssumption DEF CreateTag, FoldersTypeOK
<1>2. /\ Tags' = Tags \union {lastTag'} /\ Tags \subseteq 1 .. lastTag /\ lastTag' \notin Tags
      /\ \A t \in Tags : tag'[t] = tag[t] /\ tag[t] \in [folder : folders, name : Name]
      /\ tag'[lastTag'] = [folder |-> f, name |-> n]
  BY <1>1 DEF CreateTag, Tags, FoldersTypeOK
<1>3. OldTags /\ tagged' = {mt \in tagged : mt[2] \in Tags'}
  BY <1>1, <1>2 DEF CreateTag, OldTags, FoldersTypeOK
<1>4. FoldersTypeOK'
  <2>1. ASSUME NEW t \in Tags PROVE tag'[t] # tag'[lastTag']
    <3>1. tag[t].folder = f => tag[t].name # n
      BY <1>2 DEF CreateTag, Free, TagsOf
    <3>2. tag'[t] = tag[t] /\ tag'[lastTag'].folder = f /\ tag'[lastTag'].name = n
      BY <1>2
    <3> QED BY <3>1, <3>2
  <2>2. \A t, x \in Tags' : t # x => tag'[t] # tag'[x]
    BY <1>2, <2>1 DEF FoldersTypeOK
  <2>3. \A t \in Tags' : tag'[t] \in [folder : folders, name : Name]
    BY <1>2 DEF CreateTag
  <2>4. tag' \in [Tags' -> [folder : folders, name : Name]]
    BY <2>3 DEF CreateTag, Tags
  <2>5. Tags' \subseteq 1 .. lastTag'
    BY <1>1, <1>2
  <2> QED BY <1>1, <2>2, <2>4, <2>5 DEF CreateTag, FoldersTypeOK
<1> QED BY <1>3, <1>4, TagsCome DEF CreateTag

LEMMA RenameTagStep ==
  ASSUME FoldersInv, NEW t \in Tags, NEW n \in Name, RenameTag(t, n)
  PROVE  FoldersInv'
<1> FoldersTypeOK
  BY DEF FoldersInv
<1>1. \A x \in Tags : tag[x] \in [folder : folders, name : Name]
  BY DEF FoldersTypeOK
<1>2. /\ Tags' = Tags /\ tag'[t].folder = tag[t].folder /\ tag'[t].name = n
      /\ \A x \in Tags \ {t} : tag'[x] = tag[x]
      /\ tag' \in [Tags' -> [folder : folders, name : Name]]
  BY <1>1 DEF RenameTag, Tags, FoldersTypeOK
<1>3. OldTags /\ tagged' = {mt \in tagged : mt[2] \in Tags'}
  BY <1>2, FoldersAssumption DEF RenameTag, OldTags, FoldersTypeOK
<1>4. FoldersTypeOK'
  <2>1. \A x \in Tags \ {t} : tag'[x] # tag'[t]
    BY <1>2 DEF RenameTag, Free, TagsOf
  <2>2. \A y, x \in Tags' : y # x => tag'[y] # tag'[x]
    BY <1>2, <2>1 DEF FoldersTypeOK
  <2> QED BY <1>2, <2>2 DEF RenameTag, FoldersTypeOK
<1> QED BY <1>3, <1>4, TagsCome DEF RenameTag

LEMMA DeleteTagStep ==
  ASSUME FoldersInv, NEW t \in Tags, DeleteTag(t) PROVE FoldersInv'
<1> FoldersTypeOK
  BY DEF FoldersInv
<1>1. /\ OldTags /\ Tags' = Tags \ {t} /\ tagged' = {mt \in tagged : mt[2] \in Tags'}
      /\ \A x \in Tags' : tag'[x] = tag[x]
      /\ tag' \in [Tags' -> [folder : folders, name : Name]]
      /\ tagged' \subseteq Filed \X Tags'
  BY TagsDropped DEF DeleteTag
<1>2. FoldersTypeOK'
  BY <1>1 DEF DeleteTag, FoldersTypeOK
<1> QED BY <1>1, <1>2, TagsCome DEF DeleteTag

-----------------------------------------------------------------------------
(* setModuleTags.                                                           *)

LEMMA TagIds == ASSUME FoldersTypeOK PROVE lastTag \in Nat /\ Tags \subseteq 1 .. lastTag /\ 1 .. lastTag \subseteq Tag
BY FoldersAssumption DEF FoldersTypeOK, Tag

\* A request goes on as it was, but that others may have been noted in it.
Continues(r, s) ==
  /\ s.at = r.at /\ s.m = r.m /\ s.f = r.f /\ s.tags = r.tags
  /\ s.listed = r.listed /\ s.cut = r.cut /\ r.met \subseteq s.met

LEMMA RequestGoesOn ==
  ASSUME NEW r \in TagRequest, NEW s \in TagRequest, RequestOK(r), Continues(r, s),
         UNCHANGED <<tag, lastTag, ever>>, OwnTags(s.met, s.f),
         Worn(s.m, s.f)' \subseteq Worn(s.m, s.f) \union s.met
  PROVE  RequestOK(s)'
<1>1. \A ts : OwnTags(ts, s.f)' = OwnTags(ts, s.f)
  BY DEF OwnTags, Tags
<1> QED BY <1>1 DEF RequestOK, Continues

\* Requests remain apart as long as no other comes.
StaysApart(d) ==
  /\ setting'[d].m = setting[d].m /\ setting'[d].f = setting[d].f
  /\ setting'[d].apart => setting[d].apart /\ setting'[d].met = setting[d].met

LEMMA ApartRemain ==
  ASSUME FoldersInv, \A d \in Setter : Active(d)' => Active(d) /\ StaysApart(d)
  PROVE  \A d \in Setter : Active(d)' => ApartOK(d)'
<1> SUFFICES ASSUME NEW d \in Setter, Active(d)' PROVE ApartOK(d)'
  OBVIOUS
<1>1. ApartOK(d) /\ StaysApart(d)
  BY DEF FoldersInv
<1>2. \A e \in Setter : Active(e)' /\ setting'[e].m = setting'[d].m /\ setting'[e].f = setting'[d].f
                        => Active(e) /\ setting[e].m = setting[d].m /\ setting[e].f = setting[d].f
  BY DEF StaysApart
<1> QED BY <1>1, <1>2 DEF ApartOK, Rivals, Active, StaysApart

\* Only setting changes.
LEMMA OnlySetting ==
  ASSUME FoldersInv, UNCHANGED <<folderTables, wanted>>,
         setting' \in [Setter -> {NoRequest} \union TagRequest],
         \A d \in Setter : /\ \A r \in TagRequest : setting'[d] = r => RequestOK(r)
                           /\ Active(d)' => ApartOK(d)'
  PROVE  FoldersInv'
<1>1. UNCHANGED <<foldersMade, folders, tag, lastTag, member, tagged, ever, wanted>>
  BY DEF folderTables
<1>2. FoldersTypeOK' /\ TaggedWereMembers'
  BY <1>1 DEF FoldersInv, FoldersTypeOK, TaggedWereMembers, Tags
<1>3. ASSUME NEW m \in Filed, NEW f \in Folder
      PROVE  /\ \A ts : OwnTags(ts, f)' = OwnTags(ts, f)
             /\ Worn(m, f)' = Worn(m, f) /\ Tags' = Tags
  BY <1>1 DEF OwnTags, Worn, TagsOf, Tags
<1>4. ASSUME NEW m \in Filed, NEW f \in Folder PROVE WantedOK(m, f)'
  <2>1. PICK w : wanted[m, f] = w
    OBVIOUS
  <2>2. wanted'[m, f] = w /\ WantedOK(m, f)
    BY <1>1, <2>1 DEF FoldersInv
  <2>3. OwnTags(w.tags, f)'
    BY <1>3, <2>1, <2>2 DEF WantedOK
  <2>4. OwnTags(wanted[m, f].tags, f)'
    BY <2>2, <2>3 DEF OwnTags
  <2> QED BY <1>3, <2>1, <2>2, <2>4 DEF WantedOK
<1>5. ASSUME NEW r \in TagRequest, RequestOK(r) PROVE RequestOK(r)'
  <2>1. r.m \in Filed /\ r.f \in Folder
    BY DEF TagRequest
  <2> QED BY <1>1, <1>3, <1>5, <2>1 DEF RequestOK
<1> QED BY <1>2, <1>4, <1>5 DEF FoldersInv

\* A request takes a step of its own.
LEMMA Advance ==
  ASSUME FoldersInv, NEW c \in Setter, UNCHANGED <<folderTables, wanted>>,
         NEW r \in {NoRequest} \union TagRequest, setting' = [setting EXCEPT ![c] = r],
         r # NoRequest => Active(c) /\ StaysApart(c) /\ RequestOK(r)
  PROVE  FoldersInv'
<1> FoldersTypeOK
  BY DEF FoldersInv
<1>1. /\ setting' \in [Setter -> {NoRequest} \union TagRequest] /\ setting'[c] = r
      /\ \A d \in Setter \ {c} : setting'[d] = setting[d]
  BY DEF FoldersTypeOK
<1>2. ASSUME NEW d \in Setter, Active(d)' PROVE Active(d) /\ StaysApart(d)
  BY <1>1, <1>2 DEF Active, Stands, StaysApart, NoRequest
<1>3. ASSUME NEW d \in Setter, NEW s \in TagRequest, setting'[d] = s PROVE RequestOK(s)
  BY <1>1, <1>3 DEF FoldersInv, TagRequest, NoRequest
<1> QED BY <1>1, <1>2, <1>3, ApartRemain, OnlySetting

LEMMA FinishStep ==
  ASSUME FoldersInv, NEW c \in Setter, Finish(c), UNCHANGED <<folderTables, wanted>>
  PROVE  FoldersInv'
BY Advance DEF Finish

LEMMA CheckTagsStep == ASSUME FoldersInv, NEW c \in Setter, CheckTags(c) PROVE FoldersInv'
<1> FoldersTypeOK /\ Active(c)
  BY DEF FoldersInv, CheckTags, Active, Stands
<1> PICK old : setting[c] = old
  OBVIOUS
<1>1. CASE Finish(c)
  BY <1>1, FinishStep DEF CheckTags
<1>2. CASE ~Finish(c)
  <2> DEFINE r == [old EXCEPT !.at = "list"]
  <2>1. setting' = [setting EXCEPT ![c] = r] /\ old.tags \subseteq TagsOf(old.f) /\ old.at = "check"
    BY <1>2 DEF CheckTags, FoldersTypeOK, Stands
  <2>2. old \in TagRequest /\ RequestOK(old)
    BY SettingShapes DEF FoldersInv
  <2>3. r \in TagRequest /\ setting'[c] = r
    BY <2>1, <2>2 DEF TagRequest, FoldersTypeOK
  <2>4. OwnTags(old.tags, old.f)
    BY <2>1, TagIds DEF OwnTags, TagsOf
  <2>5. RequestOK(r)
    <3>1. /\ r.at = "list" /\ r.m = old.m /\ r.f = old.f /\ r.tags = old.tags
          /\ r.listed = old.listed /\ r.cut = old.cut /\ r.met = old.met
      BY <2>2 DEF TagRequest
    <3> HIDE DEF r
    <3> QED BY <2>1, <2>2, <2>4, <3>1 DEF RequestOK
  <2>6. StaysApart(c)
    BY <2>2, <2>3 DEF StaysApart, TagRequest
  <2> QED BY <2>1, <2>3, <2>5, <2>6, Advance DEF CheckTags
<1> QED BY <1>1, <1>2

LEMMA ListTagsStep == ASSUME FoldersInv, NEW c \in Setter, ListTags(c) PROVE FoldersInv'
<1> FoldersTypeOK /\ Active(c)
  BY DEF FoldersInv, ListTags, Active, Stands
<1> PICK old : setting[c] = old
  OBVIOUS
<1> DEFINE r == [old EXCEPT !.at = "cut", !.listed = TagsOf(old.f)]
<1>1. setting' = [setting EXCEPT ![c] = r] /\ old.at = "list"
  BY DEF ListTags, FoldersTypeOK, Stands
<1>2. old \in TagRequest /\ RequestOK(old)
  BY SettingShapes DEF FoldersInv
<1>3. TagsOf(old.f) \subseteq Tag /\ OwnTags(TagsOf(old.f), old.f)
  BY TagIds DEF TagsOf, OwnTags
<1>4. r \in TagRequest /\ setting'[c] = r
  BY <1>1, <1>2, <1>3 DEF TagRequest, FoldersTypeOK
<1>5. RequestOK(r)
  BY <1>1, <1>2, <1>3 DEF RequestOK, TagRequest, Worn
<1>6. StaysApart(c)
  BY <1>2, <1>4 DEF StaysApart, TagRequest
<1> QED BY <1>1, <1>4, <1>5, <1>6, Advance DEF ListTags

LEMMA DisconnectStep == ASSUME FoldersInv, NEW c \in Setter, Disconnect(c) PROVE FoldersInv'
<1> FoldersTypeOK /\ Active(c)
  BY DEF FoldersInv, Disconnect, Active, Stands
<1> PICK old : setting[c] = old
  OBVIOUS
<1> DEFINE cut == {t \in old.listed \ old.tags : <<old.m, t>> \in tagged}
           r == [old EXCEPT !.at = "connect", !.cut = cut]
<1>1. setting' = [setting EXCEPT ![c] = r] /\ old.at = "cut"
  BY DEF Disconnect, FoldersTypeOK, Stands
<1>2. old \in TagRequest /\ RequestOK(old)
  BY SettingShapes DEF FoldersInv
<1>3. cut \subseteq Tag /\ cut \subseteq old.listed
  BY <1>2 DEF TagRequest
<1>4. Worn(old.m, old.f) \subseteq cut \union old.tags \union old.met
  BY <1>1, <1>2 DEF Worn, RequestOK
<1> HIDE DEF cut
<1>5. r \in TagRequest /\ setting'[c] = r
  BY <1>1, <1>2, <1>3 DEF TagRequest, FoldersTypeOK
<1>6. RequestOK(r)
  BY <1>1, <1>2, <1>3, <1>4 DEF RequestOK, TagRequest
<1>7. StaysApart(c)
  BY <1>2, <1>5 DEF StaysApart, TagRequest
<1> QED BY <1>1, <1>5, <1>6, <1>7, Advance DEF Disconnect

LEMMA AskTagsStep ==
  ASSUME FoldersInv, NEW c \in Setter, NEW m \in Filed, NEW f \in folders,
         NEW ts \in SUBSET Tags, AskTags(c, m, f, ts)
  PROVE  FoldersInv'
<1> FoldersTypeOK /\ f \in Folder
  BY DEF FoldersInv, FoldersTypeOK
<1> PICK alone \in BOOLEAN : alone = (Rivals(c, m, f) = {})
  OBVIOUS
<1> DEFINE begun == [at |-> "check", m |-> m, f |-> f, tags |-> ts, listed |-> {},
                     cut |-> {}, met |-> {}, apart |-> alone]
<1>1. begun \in TagRequest
  <2>1. ts \subseteq Tag
    BY TagIds
  <2> QED BY <2>1 DEF TagRequest
<1>2. /\ setting'[c] = begun /\ ~Active(c) /\ UNCHANGED <<folderTables, wanted>>
      /\ DOMAIN setting' = Setter
  BY DEF AskTags, Begin, Active, Stands
<1>3. RequestOK(begun)
  <2>1. <<m, f>> \in ever
    BY DEF AskTags, FoldersTypeOK
  <2>2. OwnTags({}, f)
    BY DEF OwnTags
  <2> QED BY <2>1, <2>2 DEF RequestOK
<1>4. ASSUME NEW d \in Setter \ {c}
      PROVE  /\ setting'[d] \in {NoRequest} \union TagRequest
             /\ Active(d)' => Active(d) /\ StaysApart(d)
             /\ Active(d) /\ setting[d].m = m /\ setting[d].f = f => ~setting'[d].apart
             /\ \A r \in TagRequest : setting'[d] = r => RequestOK(r)
  <2>1. CASE d \in Rivals(c, m, f)
    <3>1. /\ setting'[d] = [setting[d] EXCEPT !.apart = FALSE]
          /\ Active(d) /\ setting[d].m = m /\ setting[d].f = f
      BY <2>1 DEF AskTags, Begin, Rivals, Active
    <3>2. setting[d] \in TagRequest /\ RequestOK(setting[d])
      BY <3>1, SettingShapes DEF FoldersInv
    <3>3. PICK old \in TagRequest : setting[d] = old /\ RequestOK(old)
      BY <3>2
    <3>4. PICK r \in TagRequest : setting'[d] = r /\ r = [old EXCEPT !.apart = FALSE]
      BY <3>1, <3>3 DEF TagRequest
    <3>5. RequestOK(r) /\ r.m = old.m /\ r.f = old.f /\ ~r.apart
      BY <3>3, <3>4 DEF RequestOK, TagRequest
    <3> QED BY <3>1, <3>3, <3>4, <3>5 DEF StaysApart
  <2>2. CASE d \notin Rivals(c, m, f)
    <3>1. setting'[d] = setting[d] /\ ~(Active(d) /\ setting[d].m = m /\ setting[d].f = f)
      BY <2>2 DEF AskTags, Begin, Rivals, Active
    <3>2. setting[d] \in {NoRequest} \union TagRequest
      BY DEF FoldersTypeOK
    <3>3. Active(d)' = Active(d) /\ StaysApart(d)
      BY <3>1 DEF Active, Stands, StaysApart
    <3>4. \A r \in TagRequest : setting'[d] = r => RequestOK(r)
      BY <3>1 DEF FoldersInv
    <3> QED BY <3>1, <3>2, <3>3, <3>4
  <2> QED BY <2>1, <2>2
<1>5. setting' \in [Setter -> {NoRequest} \union TagRequest]
  BY <1>1, <1>2, <1>4 DEF AskTags, Begin
<1>6. ASSUME NEW d \in Setter, Active(d)' PROVE ApartOK(d)'
  <2>1. CASE d = c
    <3>1. \A e \in Setter \ {c} :
            Active(e)' /\ setting'[e].m = m /\ setting'[e].f = f => e \in Rivals(c, m, f)
      BY <1>4 DEF Rivals, Active, StaysApart
    <3>2. setting'[c].m = m /\ setting'[c].f = f /\ setting'[c].met = {} /\ setting'[c].apart = alone
      BY <1>2
    <3>3. alone => ~\E e \in Setter \ {c} : Active(e)' /\ setting'[e].m = m /\ setting'[e].f = f
      BY <3>1
    <3> QED BY <2>1, <3>2, <3>3 DEF ApartOK, Rivals, Active
  <2>2. CASE d # c
    <3>1. Active(d) /\ StaysApart(d) /\ ApartOK(d)
      BY <1>4, <1>6, <2>2 DEF FoldersInv
    <3>2. CASE setting[d].m = m /\ setting[d].f = f
      BY <1>4, <2>2, <3>1, <3>2 DEF ApartOK
    <3>3. CASE ~(setting[d].m = m /\ setting[d].f = f)
      <4>1. \A e \in Setter : Active(e)' /\ setting'[e].m = setting'[d].m /\ setting'[e].f = setting'[d].f
                              => Active(e) /\ setting[e].m = setting[d].m /\ setting[e].f = setting[d].f
        BY <1>2, <1>4, <3>1, <3>3 DEF StaysApart
      <4> QED BY <3>1, <4>1 DEF ApartOK, Rivals, Active, StaysApart
    <3> QED BY <3>2, <3>3
  <2> QED BY <2>1, <2>2
<1> QED BY <1>1, <1>2, <1>3, <1>4, <1>5, <1>6, OnlySetting

\* What a request's transaction makes of the pairs of modules and tags.
LEMMA Reworn ==
  ASSUME FoldersInv, NEW r \in TagRequest, RequestOK(r), r.at = "connect", r.tags \subseteq Tags,
         tagged' = (tagged \ ({r.m} \X r.cut)) \union ({r.m} \X r.tags), UNCHANGED tag
  PROVE  /\ Worn(r.m, r.f)' = (Worn(r.m, r.f) \ r.cut) \union r.tags
         /\ \A m \in Filed, f \in Folder :
              m # r.m \/ f # r.f => Worn(m, f)' = Worn(m, f)
<1>1. /\ \A t \in r.tags : t \in Tags /\ tag[t].folder = r.f
      /\ \A t \in r.cut \cap Tags : tag[t].folder = r.f
  BY DEF RequestOK, OwnTags
<1>2. \A m, t : <<m, t>> \in tagged' <=> \/ <<m, t>> \in tagged /\ ~(m = r.m /\ t \in r.cut)
                                         \/ m = r.m /\ t \in r.tags
  OBVIOUS
<1> QED BY <1>1, <1>2 DEF Worn, TagsOf, Tags

LEMMA ConnectStep == ASSUME FoldersInv, NEW c \in Setter, Connect(c) PROVE FoldersInv'
<1> FoldersTypeOK /\ Active(c)
  BY DEF FoldersInv, Connect, Active, Stands
<1> PICK old \in TagRequest : setting[c] = old /\ RequestOK(old) /\ old.at = "connect"
  BY SettingShapes DEF FoldersInv, Connect, Stands
<1> DEFINE m == old.m  f == old.f  ts == old.tags
<1> m \in Filed /\ f \in Folder /\ ApartOK(c)
  BY DEF TagRequest, FoldersInv
<1>1. CASE Finish(c) /\ UNCHANGED <<tagged, wanted>>
  BY <1>1, FinishStep DEF Connect, folderTables
<1>2. CASE ~(Finish(c) /\ UNCHANGED <<tagged, wanted>>)
  <2>1. /\ UNCHANGED <<foldersMade, folders, tag, lastTag, member, ever>> /\ Tags' = Tags
        /\ ts \subseteq Tags
        /\ tagged' = (tagged \ ({m} \X old.cut)) \union ({m} \X ts)
        /\ setting' = [d \in Setter |->
             IF d = c THEN NoRequest
             ELSE IF d \in Rivals(c, m, f) THEN [setting[d] EXCEPT !.met = @ \union ts]
             ELSE setting[d]]
        /\ wanted' = [wanted EXCEPT ![<<m, f>>] =
             [tags |-> ts \union old.met, alone |-> old.apart]]
    BY <1>2 DEF Connect, Tags
  <2>2. /\ Worn(m, f)' = (Worn(m, f) \ old.cut) \union ts
        /\ \A x \in Filed, g \in Folder : x # m \/ g # f => Worn(x, g)' = Worn(x, g)
    BY <2>1, Reworn
  <2>3. \A xs, g : OwnTags(xs, g)' = OwnTags(xs, g)
    BY <2>1 DEF OwnTags
  <2>4. /\ OwnTags(ts, f) /\ OwnTags(old.met, f) /\ OwnTags(old.cut, f)
        /\ Worn(m, f) \subseteq old.cut \union ts \union old.met
    BY DEF RequestOK, OwnTags
  <2>5. ts \subseteq Tag /\ old.met \subseteq Tag /\ old.apart \in BOOLEAN
    BY DEF TagRequest
  <2>6. ASSUME NEW d \in Setter
        PROVE  /\ setting'[d] \in {NoRequest} \union TagRequest
               /\ Active(d)' => Active(d) /\ StaysApart(d)
               /\ \A r \in TagRequest : setting'[d] = r => RequestOK(r)'
    <3>1. CASE d = c
      BY <2>1, <3>1 DEF Active, Stands, NoRequest, TagRequest
    <3>2. CASE d # c /\ d \in Rivals(c, m, f)
      <4>1. PICK r \in TagRequest :
              setting[d] = r /\ RequestOK(r) /\ Active(d) /\ r.m = m /\ r.f = f
        BY <3>2, SettingShapes DEF Rivals, Active, FoldersInv
      <4>2. c \in Rivals(d, r.m, r.f)
        BY <3>2, <4>1 DEF Rivals, Active
      <4>3. ~r.apart
        BY <4>1, <4>2 DEF FoldersInv, ApartOK
      <4>4. PICK s \in TagRequest : setting'[d] = s /\ s = [r EXCEPT !.met = @ \union ts]
        BY <2>1, <2>5, <3>2, <4>1 DEF TagRequest
      <4>5. Continues(r, s) /\ s.met = r.met \union ts /\ s.apart = r.apart
        BY <4>4 DEF Continues, TagRequest
      <4>6. OwnTags(s.met, s.f)
        BY <2>4, <4>1, <4>5 DEF RequestOK, Continues, OwnTags
      <4>7. Worn(s.m, s.f)' \subseteq Worn(s.m, s.f) \union s.met
        BY <2>2, <4>1, <4>5 DEF Continues
      <4>8. RequestOK(s)'
        BY <2>1, <4>1, <4>5, <4>6, <4>7, RequestGoesOn
      <4>9. StaysApart(d)
        BY <4>1, <4>3, <4>4, <4>5 DEF StaysApart, Continues
      <4> QED BY <4>1, <4>4, <4>8, <4>9
    <3>3. CASE d # c /\ d \notin Rivals(c, m, f)
      <4>1. setting'[d] = setting[d] /\ ~(Active(d) /\ setting[d].m = m /\ setting[d].f = f)
        BY <2>1, <3>3 DEF Rivals, Active
      <4>2. Active(d)' = Active(d) /\ StaysApart(d)
        BY <4>1 DEF Active, Stands, StaysApart
      <4>3. ASSUME NEW r \in TagRequest, setting'[d] = r PROVE RequestOK(r)'
        <5>1. RequestOK(r) /\ r.m \in Filed /\ r.f \in Folder /\ (r.m # m \/ r.f # f)
          BY <4>1, <4>3, SettingShapes DEF FoldersInv, TagRequest
        <5>2. Continues(r, r) /\ OwnTags(r.met, r.f) /\ Worn(r.m, r.f)' = Worn(r.m, r.f)
          BY <2>2, <5>1 DEF Continues, RequestOK
        <5> QED BY <2>1, <5>1, <5>2, RequestGoesOn
      <4>4. setting[d] \in {NoRequest} \union TagRequest
        BY DEF FoldersTypeOK
      <4> QED BY <4>1, <4>2, <4>3, <4>4
    <3> QED BY <3>1, <3>2, <3>3
  <2>7. ASSUME NEW x \in Filed, NEW g \in Folder PROVE WantedOK(x, g)'
    <3>1. CASE x = m /\ g = f
      <4>1. PICK alone \in BOOLEAN : old.apart = alone
        BY <2>5
      <4>2. PICK w : w = [tags |-> ts \union old.met, alone |-> alone]
        OBVIOUS
      <4>3. wanted'[x, g] = w
        BY <2>1, <3>1, <4>1, <4>2 DEF FoldersTypeOK
      <4>4. OwnTags(w.tags, g)'
        <5>1. OwnTags(w.tags, g)
          BY <2>4, <3>1, <4>2 DEF OwnTags
        <5> QED BY <2>3, <5>1
      <4>5. Worn(x, g)' \subseteq w.tags
        BY <2>2, <2>4, <3>1, <4>2
      <4>6. w.alone => Worn(x, g)' = w.tags \cap Tags'
        <5>1. w.alone => old.met = {}
          BY <4>1, <4>2 DEF ApartOK
        <5> QED BY <2>1, <2>2, <2>4, <3>1, <4>2, <5>1
      <4>7. OwnTags(wanted[x, g].tags, g)'
        BY <4>3, <4>4 DEF OwnTags
      <4> QED BY <4>3, <4>5, <4>6, <4>7 DEF WantedOK
    <3>2. CASE ~(x = m /\ g = f)
      <4>1. PICK w : wanted[x, g] = w
        OBVIOUS
      <4>2. wanted'[x, g] = w
        BY <2>1, <3>2, <4>1 DEF FoldersTypeOK
      <4>3. OwnTags(w.tags, g) /\ Worn(x, g) \subseteq w.tags /\ (w.alone => Worn(x, g) = w.tags \cap Tags)
        BY <4>1 DEF FoldersInv, WantedOK
      <4>4. OwnTags(wanted[x, g].tags, g)'
        BY <2>1, <4>2, <4>3 DEF OwnTags
      <4> QED BY <2>1, <2>2, <3>2, <4>2, <4>3, <4>4 DEF WantedOK
    <3> QED BY <3>1, <3>2
  <2>8. FoldersTypeOK'
    <3>1. tagged' \subseteq Filed \X Tags'
      BY <2>1 DEF FoldersTypeOK
    <3>2. wanted' \in [Filed \X Folder -> [tags : SUBSET Tag, alone : BOOLEAN]]
      BY <2>1, <2>5 DEF FoldersTypeOK
    <3>3. setting' \in [Setter -> {NoRequest} \union TagRequest]
      BY <2>1, <2>6
    <3> QED BY <2>1, <3>1, <3>2, <3>3 DEF FoldersTypeOK
  <2>9. TaggedWereMembers'
    <3>1. \A t \in ts : t \in Tags /\ tag[t].folder = f
      BY <2>1, <2>4 DEF OwnTags
    <3>2. <<m, f>> \in ever
      BY DEF RequestOK
    <3> QED BY <2>1, <3>1, <3>2 DEF FoldersInv, TaggedWereMembers
  <2>10. \A d \in Setter : Active(d)' => ApartOK(d)'
    BY <2>6, ApartRemain
  <2> QED BY <2>6, <2>7, <2>8, <2>9, <2>10 DEF FoldersInv
<1> QED BY <1>1, <1>2

-----------------------------------------------------------------------------
LEMMA FoldersInvInit == FoldersInit => FoldersInv
<1> SUFFICES ASSUME FoldersInit PROVE FoldersInv
  OBVIOUS
<1>1. FoldersTypeOK /\ Tags = {}
  BY FoldersAssumption DEF FoldersInit, FoldersTypeOK, Tags
<1>2. \A c \in Setter : ~Active(c) /\ setting[c] \notin TagRequest
  BY DEF FoldersInit, Active, Stands, NoRequest, TagRequest
<1>3. \A m \in Filed, f \in Folder : WantedOK(m, f)
  BY <1>1 DEF FoldersInit, WantedOK, OwnTags, Worn, TagsOf
<1> QED BY <1>1, <1>2, <1>3 DEF FoldersInv, FoldersInit, TaggedWereMembers

LEMMA FoldersInvStep == FoldersInv /\ [FoldersNext]_folderVars => FoldersInv'
<1> SUFFICES ASSUME FoldersInv, [FoldersNext]_folderVars PROVE FoldersInv'
  OBVIOUS
<1> FoldersTypeOK
  BY DEF FoldersInv
<1>1. ASSUME NEW f \in Folder, NEW names \in NameLists, CreateFolder(f, names) PROVE FoldersInv'
  BY <1>1, CreateFolderStep
<1>2. ASSUME NEW f \in Folder, RemoveFolder(f) PROVE FoldersInv'
  BY <1>2, RemoveFolderStep
<1>3. ASSUME NEW f \in Folder, NEW ms \in SUBSET Filed, AddModules(f, ms) \/ RemoveModules(f, ms)
      PROVE  FoldersInv'
  <2>1. /\ f \in folders => member \union (ms \X {f}) \subseteq Filed \X folders
        /\ member \ (ms \X {f}) \subseteq Filed \X folders
    BY DEF FoldersTypeOK
  <2> QED BY <1>3, <2>1, BelongStep DEF AddModules, RemoveModules
<1>4. ASSUME NEW m \in Filed, NEW fs \in SUBSET folders, SetFolder(m, fs) PROVE FoldersInv'
  <2>1. {mf \in member : mf[1] # m} \union ({m} \X fs) \subseteq Filed \X folders
    BY DEF FoldersTypeOK
  <2> QED BY <1>4, <2>1, BelongStep DEF SetFolder
<1>5. ASSUME NEW f \in Folder, NEW n \in Name, CreateTag(f, n) PROVE FoldersInv'
  BY <1>5, CreateTagStep
<1>6. ASSUME NEW t \in Tags, DeleteTag(t) \/ \E n \in Name : RenameTag(t, n) PROVE FoldersInv'
  BY <1>6, DeleteTagStep, RenameTagStep
<1>7. ASSUME NEW c \in Setter, NEW m \in Filed, NEW f \in folders, NEW ts \in SUBSET Tags,
             AskTags(c, m, f, ts)
      PROVE  FoldersInv'
  BY <1>7, AskTagsStep
<1>8. ASSUME NEW c \in Setter,
             CheckTags(c) \/ ListTags(c) \/ Disconnect(c) \/ Connect(c) \/ GivesUp(c)
      PROVE  FoldersInv'
  BY <1>8, CheckTagsStep, ListTagsStep, DisconnectStep, ConnectStep, FinishStep DEF GivesUp
<1>9. CASE UNCHANGED folderVars
  <2>1. UNCHANGED <<folderTables, wanted, setting>>
    BY <1>9 DEF folderVars, folderTables
  <2>2. \A d \in Setter : ApartOK(d)' = ApartOK(d) /\ Active(d)' = Active(d)
    BY <2>1 DEF ApartOK, Rivals, Active, Stands
  <2>3. setting' \in [Setter -> {NoRequest} \union TagRequest]
    BY <2>1 DEF FoldersTypeOK
  <2> QED BY <2>1, <2>2, <2>3, OnlySetting DEF FoldersInv
<1> QED BY <1>1, <1>2, <1>3, <1>4, <1>5, <1>6, <1>7, <1>8, <1>9 DEF FoldersNext, SetModuleTags

LEMMA FoldersInvariant == FoldersSpec => []FoldersInv
BY FoldersInvInit, FoldersInvStep, PTL DEF FoldersSpec

\* A module wears no tag of a folder that no one of the last requests asked for.
THEOREM TagsAskedAlways == FoldersSpec => []TagsAsked
<1>1. FoldersInv => TagsAsked
  BY DEF FoldersInv, FoldersTypeOK, WantedOK, TagsAsked
<1> QED BY <1>1, FoldersInvariant, PTL

\* After a request that no other overlapped a module wears just what it asked
\* for, of the tags that still exist.
THEOREM TagsExactAlways == FoldersSpec => []TagsExact
<1>1. FoldersInv => TagsExact
  BY DEF FoldersInv, FoldersTypeOK, WantedOK, TagsExact
<1> QED BY <1>1, FoldersInvariant, PTL

\* A module wears tags only of folders that it has been in.
THEOREM TaggedWereMembersAlways == FoldersSpec => []TaggedWereMembers
<1>1. FoldersInv => TaggedWereMembers
  BY DEF FoldersInv
<1> QED BY <1>1, FoldersInvariant, PTL

\* The tables of cards, folders and tags keep their types, references and unique
\* names, whatever requests overlap and wherever one breaks off.
THEOREM TypesCorrect == CardsSpec /\ FoldersSpec => []TypesOK
<1>1. CardsInv /\ FoldersInv => TypesOK
  BY DEF CardsInv, FoldersInv, TypesOK
<1> QED BY <1>1, CardsInvariant, FoldersInvariant, PTL
=============================================================================
