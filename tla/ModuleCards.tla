---------------------------- MODULE ModuleCards ----------------------------
(***************************************************************************)
(* The cards of a user's modules: what modules.service's update makes of   *)
(* the list of cards a client sends, beside single cards written through   *)
(* flashcards.service and modules being removed. Of a card this keeps the  *)
(* id, on which its study progress hangs, and the content. A list gives    *)
(* content to some ids and adds new cards; lists with an id or a content   *)
(* twice are left out. The statements that write in update's transaction   *)
(* name their rows by id and lock them, so they are one step.              *)
(***************************************************************************)
EXTENDS Integers, FiniteSets, Functions

CONSTANTS Module, Content, Call,
          MaxCards        \* bound: cards ever created

ASSUME CardsAssumption == MaxCards \in Nat /\ IsFiniteSet(Content)

VARIABLES
  made, modules,  \* the modules ever created, and those that exist
  card, last,     \* the table Flashcard, and the card created last
  call,
  asked           \* for the properties: per module, what was asked for

tables == <<made, modules, card, last, call, asked>>

Id == 1 .. MaxCards
Cards == DOMAIN card
CardsOf(m) == {k \in Cards : card[k].module = m}
Contents(ks) == {card[k].content : k \in ks}
Given == UNION {[ids -> Content] : ids \in SUBSET Id}

\* met: contents written to the module meanwhile; apart: none were, and no
\* such request was at work.
Idle == [at |-> "idle"]
Request ==
  [at : {"list", "write"}, m : Module, given : Given, new : SUBSET Content,
   change : SUBSET Id, drop : SUBSET Id, met : SUBSET Content, apart : BOOLEAN]
    \union [at : {"removeCards", "removeModule"}, m : Module]

Nothing == [given |-> [k \in {} |-> 0], new |-> {}, all |-> {}, alone |-> TRUE]

\* What is said of a module that no single list has given its cards.
Mixed(contents) == [Nothing EXCEPT !.all = contents, !.alone = FALSE]

CardsInit ==
  /\ made = {} /\ modules = {} /\ card = [k \in {} |-> 0] /\ last = 0
  /\ call = [c \in Call |-> Idle] /\ asked = [m \in Module |-> Nothing]

At(c, label) == call[c].at = label
Goto(c, label) == call' = [call EXCEPT ![c].at = label]
End(c) == call' = [call EXCEPT ![c] = Idle]

Editing(m) == {c \in Call : (At(c, "list") \/ At(c, "write")) /\ call[c].m = m}

\* One card for each of these contents, with the ids that come next.
NewIds(new) == last + 1 .. last + Cardinality(new)
Added(m, new) ==
  {cards \in [NewIds(new) -> [module : {m}, content : new]] :
     {cards[k].content : k \in NewIds(new)} = new}

Merge(f, g) == [k \in DOMAIN f \union DOMAIN g |-> IF k \in DOMAIN g THEN g[k] ELSE f[k]]

\* Contents written to a module outside of update, for the properties.
Noted(m, contents) ==
  /\ asked' = [asked EXCEPT ![m] = Mixed(@.all \union contents)]
  /\ call' = [c \in Call |->
       IF c \in Editing(m)
       THEN [call[c] EXCEPT !.met = @ \union contents, !.apart = FALSE] ELSE call[c]]

-----------------------------------------------------------------------------
\* modules.service's create.
CreateModule(m, new) ==
  /\ m \notin made /\ last + Cardinality(new) <= MaxCards
  /\ made' = made \union {m} /\ modules' = modules \union {m}
  /\ \E cards \in Added(m, new) : card' = Merge(card, cards)
  /\ last' = last + Cardinality(new)
  /\ asked' = [asked EXCEPT ![m].new = new, ![m].all = new]
  /\ UNCHANGED call

(* flashcards.service. A write whose row or module is gone by then fails.    *)

CreateCard(m, v) ==
  /\ m \in modules /\ last < MaxCards /\ last' = last + 1
  /\ card' = Merge(card, [k \in {last'} |-> [module |-> m, content |-> v]])
  /\ Noted(m, {v})
  /\ UNCHANGED <<made, modules>>

UpdateCard(k, v) ==
  /\ k \in Cards
  /\ card' = [card EXCEPT ![k].content = v]
  /\ Noted(card[k].module, {v})
  /\ UNCHANGED <<made, modules, last>>

RemoveCard(k) ==
  /\ k \in Cards
  /\ card' = Restrict(card, Cards \ {k})
  /\ Noted(card[k].module, {})
  /\ UNCHANGED <<made, modules, last>>

-----------------------------------------------------------------------------
(* update, with a list of cards.                                            *)

Ask(c, m, given, new) ==
  /\ At(c, "idle") /\ m \in modules
  /\ call' = [d \in Call |->
       IF d = c THEN [at |-> "list", m |-> m, given |-> given, new |-> new,
                      change |-> {}, drop |-> {}, met |-> {}, apart |-> Editing(m) = {}]
       ELSE IF d \in Editing(m) THEN [call[d] EXCEPT !.apart = FALSE] ELSE call[d]]
  /\ UNCHANGED <<made, modules, card, last, asked>>

\* Of the ids given, those that are the module's; the others are new cards.
OwnAny(given, listed) == DOMAIN given
Own(given, listed) == DOMAIN given \cap listed

DroppedNone(given, listed) == {}
Dropped(given, listed) == listed \ Own(given, listed)

\* The transaction begins by reading the module's cards, and sorts the list by
\* them; a card that has its content already is not written.
List(c) ==
  /\ At(c, "list")
  /\ LET listed == CardsOf(call[c].m)
         given == call[c].given
         own == Own(given, listed) IN
     call' = [call EXCEPT
       ![c].at = "write",
       ![c].given = Restrict(given, own),
       ![c].new = @ \union {given[k] : k \in DOMAIN given \ own},
       ![c].change = own \ {k \in own \cap Cards : card[k].content = given[k]},
       ![c].drop = Dropped(given, listed)]
  /\ UNCHANGED <<made, modules, card, last, asked>>

\* It fails when the module, or a card to be written, is gone by now.
Write(c) ==
  /\ At(c, "write")
  /\ LET m == call[c].m  given == call[c].given  new == call[c].new
         values == Range(given) \union new IN
     IF m \in modules /\ call[c].change \subseteq Cards
     THEN /\ last + Cardinality(new) <= MaxCards
          /\ last' = last + Cardinality(new)
          /\ \E cards \in Added(m, new) :
               card' = Merge([k \in Cards \ call[c].drop |->
                                IF k \in call[c].change
                                THEN [card[k] EXCEPT !.content = given[k]] ELSE card[k]],
                             cards)
          /\ asked' = [asked EXCEPT ![m] =
               IF call[c].apart
               THEN [given |-> given, new |-> new, all |-> values, alone |-> TRUE]
               ELSE Mixed(values \union call[c].met)]
          /\ call' = [d \in Call |->
               IF d = c THEN Idle
               ELSE IF d \in Editing(m) THEN [call[d] EXCEPT !.met = @ \union values]
               ELSE call[d]]
     ELSE End(c) /\ UNCHANGED <<card, last, asked>>
  /\ UNCHANGED <<made, modules>>

-----------------------------------------------------------------------------
(* remove: two statements, no transaction; the second cascades to cards     *)
(* that were added since.                                                   *)

AskRemove(c, m) ==
  /\ At(c, "idle") /\ m \in modules
  /\ call' = [call EXCEPT ![c] = [at |-> "removeCards", m |-> m]]
  /\ UNCHANGED <<made, modules, card, last, asked>>

RemoveCards(c) ==
  /\ At(c, "removeCards")
  /\ LET m == call[c].m IN
     /\ card' = Restrict(card, Cards \ CardsOf(m))
     /\ asked' = [asked EXCEPT ![m] = Mixed(@.all)]
     /\ call' = [d \in Call |->
          IF d = c THEN [call[d] EXCEPT !.at = "removeModule"]
          ELSE IF d \in Editing(m) THEN [call[d] EXCEPT !.apart = FALSE] ELSE call[d]]
  /\ UNCHANGED <<made, modules, last>>

RemoveModuleOnly(c) ==
  /\ At(c, "removeModule") /\ End(c)
  /\ modules' = modules \ {call[c].m}
  /\ UNCHANGED <<made, card, last, asked>>

RemoveModule(c) ==
  /\ At(c, "removeModule") /\ End(c)
  /\ modules' = modules \ {call[c].m}
  /\ card' = Restrict(card, Cards \ CardsOf(call[c].m))
  /\ UNCHANGED <<made, last, asked>>

\* A query fails, a deadlock is resolved, or the API stops.
BreaksOff(c) == ~At(c, "idle") /\ End(c) /\ UNCHANGED <<made, modules, card, last, asked>>

-----------------------------------------------------------------------------
Step(c) == List(c) \/ Write(c) \/ RemoveCards(c) \/ RemoveModule(c) \/ BreaksOff(c)

CardsNext ==
  \/ \E m \in Module, new \in SUBSET Content : CreateModule(m, new)
  \/ \E m \in modules, v \in Content : CreateCard(m, v)
  \/ \E k \in Cards : RemoveCard(k) \/ \E v \in Content : UpdateCard(k, v)
  \/ \E c \in Call :
       \/ \E m \in modules : \/ AskRemove(c, m)
                             \/ \E ids \in SUBSET Cards, new \in SUBSET Content :
                                  \E given \in Injection(ids, Content \ new) :
                                    Ask(c, m, given, new)
       \/ Step(c)

CardsSpec == CardsInit /\ [][CardsNext]_tables

-----------------------------------------------------------------------------
\* The tables keep their types; no card is without its module.
CardsTypeOK ==
  /\ modules \subseteq made /\ made \subseteq Module /\ last \in 0 .. MaxCards
  /\ Cards \subseteq 1 .. last /\ card \in [Cards -> [module : modules, content : Content]]
  /\ call \in [Call -> {Idle} \union Request]
  /\ asked \in [Module -> [given : Given, new : SUBSET Content,
                           all : SUBSET Content, alone : BOOLEAN]]

\* A module shows no content but what the last list of cards asked for, or a
\* write that overlapped the request with that list, or came since: an edit
\* leaves nothing older, though it reads the cards first and writes by id.
CardsAsked == \A m \in modules : Contents(CardsOf(m)) \subseteq asked[m].all

\* If nothing overlapped it, and nothing was written since, the list shows
\* as it was sent: the cards it names keep their ids, and with these their
\* progress, and there is one new card for each it adds; whatever other
\* modules were sent, even with ids of this one's cards.
CardsExact ==
  \A m \in modules :
    asked[m].alone =>
      LET named == DOMAIN asked[m].given IN
      /\ named \subseteq CardsOf(m)
      /\ \A k \in named : card[k].content = asked[m].given[k]
      /\ Contents(CardsOf(m) \ named) = asked[m].new
      /\ Cardinality(CardsOf(m) \ named) = Cardinality(asked[m].new)
=============================================================================
