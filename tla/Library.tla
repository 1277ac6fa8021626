------------------------------ MODULE Library ------------------------------
(***************************************************************************)
(* modules.service.ts: modules, the copies other users save of them, the   *)
(* public catalogue, and what the deletion of an account leaves of these.  *)
(* Each member of Call answers one request at a time, statement by         *)
(* statement; a request rejected before it writes is no step. Modules are  *)
(* named by the order of their creation. Of a module's content this keeps  *)
(* the name (the description is treated alike); the cards are in           *)
(* ModuleCards, folders in Folders.                                        *)
(***************************************************************************)
EXTENDS Integers, FiniteSets

CONSTANTS
  User, Name,
  Call,          \* the requests that may be handled at once
  Does,          \* Call -> the operations it may be a request for
  MaxModules,    \* bound: modules ever created
  NoUser, NotGiven

Operation == {"update", "remove", "save", "deleteAccount"}
Id == 1 .. MaxModules
NoModule == 0

ASSUME LibraryAssumption ==
  /\ IsFiniteSet(Call) /\ Does \in [Call -> SUBSET Operation]
  /\ NoUser \notin User /\ NotGiven \notin Name /\ MaxModules \in Nat

VARIABLES
  users,         \* the accounts that exist
  module,        \* the table Module: a function from the ids that exist
  last,          \* the id created last
  call           \* Call -> where it stands, with what it has read

vars == <<users, module, last, call>>

\* The last three fields are no columns. They record, for the properties,
\* whether an update changed the content of the copy, who created it, and
\* whether it was copied while its author was being deleted.
Row == [owner : User, source : {NoModule} \union Id, name : Name,
        author : User \union {NoUser}, authorName : User \union {NoUser},
        public : BOOLEAN, diverged : BOOLEAN,
        changed : BOOLEAN, writer : User, raced : BOOLEAN]

\* What update uses of the row it has read.
Provenance(row) == [marked |-> row.source = NoModule \/ row.diverged, name |-> row.name]

Idle == [at |-> "idle"]
CallState ==
  {Idle}
    \union [at : {"update"}, id : Id, read : [marked : BOOLEAN, name : Name]]
    \union [at : {"remove"}, id : Id]
    \union [at : {"copy", "insert"}, user : User, id : Id, read : Row]
    \union [at : {"name", "erase"}, user : User, named : SUBSET Id]

There == DOMAIN module

Init ==
  /\ users = User /\ module = [m \in {} |-> NoModule] /\ last = 0
  /\ call = [c \in Call |-> Idle]

-----------------------------------------------------------------------------
At(c, label) == call[c].at = label
Begin(c, op, state) ==
  At(c, "idle") /\ op \in Does[c] /\ call' = [call EXCEPT ![c] = state]
Goto(c, label) == call' = [call EXCEPT ![c].at = label]
End(c) == call' = [call EXCEPT ![c] = Idle]

\* A deletion of an account that is not committed holds the rows it has named.
Locked(ms, c) == \E d \in Call \ {c} : At(d, "erase") /\ ms \cap call[d].named # {}

Insert(row) ==
  /\ last < MaxModules /\ last' = last + 1
  /\ module' = [m \in There \union {last + 1} |-> IF m = last + 1 THEN row ELSE module[m]]

\* Deletes modules; the schema sets the source of their copies to null.
OrphanNever(row, ms) == row
Orphan(row, ms) == IF row.source \in ms THEN [row EXCEPT !.source = NoModule] ELSE row
Without(ms) == [m \in There \ ms |-> Orphan(module[m], ms)]

-----------------------------------------------------------------------------
\* create is one statement; it fails for a user whose account is gone.
Create(u, n, p) ==
  /\ u \in users
  /\ Insert([owner |-> u, source |-> NoModule, name |-> n, author |-> u,
             authorName |-> NoUser, public |-> p, diverged |-> FALSE,
             changed |-> FALSE, writer |-> u, raced |-> FALSE])
  /\ UNCHANGED <<users, call>>

\* update, remove: the module is looked up by id and owner; only its owner asks.
LookToUpdate(c, m) ==
  /\ m \in There
  /\ Begin(c, "update", [at |-> "update", id |-> m, read |-> Provenance(module[m])])
  /\ UNCHANGED <<users, module, last>>

LookToRemove(c, m) ==
  /\ m \in There
  /\ Begin(c, "remove", [at |-> "remove", id |-> m])
  /\ UNCHANGED <<users, module, last>>

\* What the request gives counts as a change of content, beside the row that
\* was read before the transaction.
Diverges(read, name, cards) ==
  /\ ~read.marked
  /\ cards \/ name \notin {NotGiven, read.name}

Changes(row, name, cards) ==
  row.source # NoModule /\ (cards \/ name \notin {NotGiven, row.name})

UpdatedReset(row, read, name, cards, public) ==
  [row EXCEPT !.name = IF name = NotGiven THEN @ ELSE name,
              !.public = public,
              !.diverged = Diverges(read, name, cards),
              !.changed = @ \/ Changes(row, name, cards)]

Updated(row, read, name, cards, public) ==
  [row EXCEPT !.name = IF name = NotGiven THEN @ ELSE name,
              !.public = public,
              !.diverged = @ \/ Diverges(read, name, cards),
              !.changed = @ \/ Changes(row, name, cards)]

\* The end of update's transaction; of a module that is gone it is P2025.
Write(c, name, cards, public) ==
  /\ At(c, "update") /\ End(c)
  /\ LET m == call[c].id IN
     \/ /\ m \in There /\ ~Locked({m}, c)
        /\ module' = [module EXCEPT ![m] = Updated(@, call[c].read, name, cards, public)]
     \/ m \notin There /\ UNCHANGED module
  /\ UNCHANGED <<users, last>>

Remove(c) ==
  /\ At(c, "remove") /\ End(c)
  /\ ~Locked({call[c].id}, c)
  /\ module' = Without({call[c].id})
  /\ UNCHANGED <<users, last>>

-----------------------------------------------------------------------------
(* saveToLibrary looks for the original, then for a copy, then makes one.   *)

FindOriginal(c, u, m) ==
  /\ m \in There /\ module[m].public /\ module[m].owner # u
  /\ Begin(c, "save", [at |-> "copy", user |-> u, id |-> m, read |-> module[m]])
  /\ UNCHANGED <<users, module, last>>

Copies(u, m) == {k \in There : module[k].owner = u /\ module[k].source = m}

FindCopySkipped(c) == At(c, "copy") /\ Goto(c, "insert") /\ UNCHANGED <<users, module, last>>

FindCopy(c) ==
  /\ At(c, "copy")
  /\ IF Copies(call[c].user, call[c].id) = {} THEN Goto(c, "insert") ELSE End(c)
  /\ UNCHANGED <<users, module, last>>

CopyNameless(u, m, read) ==
  [owner |-> u, source |-> m, name |-> read.name, author |-> read.author,
   authorName |-> NoUser, public |-> FALSE, diverged |-> FALSE,
   changed |-> FALSE, writer |-> read.writer,
   raced |-> read.raced \/ \E d \in Call : At(d, "erase") /\ call[d].user = read.author]

Copy(u, m, read) ==
  [owner |-> u, source |-> m, name |-> read.name, author |-> read.author,
   authorName |-> read.authorName, public |-> FALSE, diverged |-> FALSE,
   changed |-> FALSE, writer |-> read.writer,
   raced |-> read.raced \/ \E d \in Call : At(d, "erase") /\ call[d].user = read.author]

\* The foreign keys fail when owner, original or author is gone by now.
InsertCopy(c) ==
  /\ At(c, "insert") /\ End(c)
  /\ LET u == call[c].user  m == call[c].id  read == call[c].read IN
     IF u \in users /\ m \in There /\ read.author \in users \union {NoUser}
     THEN Insert(Copy(u, m, read))
     ELSE UNCHANGED <<module, last>>
  /\ UNCHANGED users

-----------------------------------------------------------------------------
(* deleteAccount: a check, then a transaction of two statements.            *)

AskDelete(c, u) ==
  /\ u \in users
  /\ Begin(c, "deleteAccount", [at |-> "name", user |-> u, named |-> {}])
  /\ UNCHANGED <<users, module, last>>

Authored(u) == {m \in There : module[m].author = u}

NameAuthor(c) ==
  /\ At(c, "name")
  /\ LET ms == Authored(call[c].user) IN
     /\ ~Locked(ms, c)
     /\ call' = [call EXCEPT ![c].at = "erase", ![c].named = ms]
  /\ UNCHANGED <<users, module, last>>

Owned(u) == {m \in There : module[m].owner = u}

\* The schema cascades to the user's modules and sets authors to null.
WithoutUser(row, u, named) ==
  [row EXCEPT !.author = IF @ = u THEN NoUser ELSE @,
              !.authorName = IF named THEN u ELSE @]
Erased(u, named) ==
  [m \in There \ Owned(u) |->
     WithoutUser(Orphan(module[m], Owned(u)), u, m \in named)]

\* The rows this writes: those deleted, and those that lose source or author.
Touched(u) ==
  {m \in There : \/ module[m].owner = u \/ module[m].author = u
                 \/ module[m].source \in Owned(u)}

Erase(c) ==
  /\ At(c, "erase") /\ End(c)
  /\ LET u == call[c].user IN
     \/ /\ u \in users
        /\ ~Locked(Touched(u), c)
        /\ users' = users \ {u} /\ module' = Erased(u, call[c].named)
     \/ u \notin users /\ UNCHANGED <<users, module>>
  /\ UNCHANGED last

\* Any statement fails, or the API stops: an open transaction is rolled back.
BreaksOff(c) ==
  /\ ~At(c, "idle") /\ End(c) /\ UNCHANGED <<users, module, last>>

-----------------------------------------------------------------------------
Step(c) ==
  \/ \E name \in Name \union {NotGiven}, cards, public \in BOOLEAN :
       Write(c, name, cards, public)
  \/ Remove(c) \/ FindCopy(c) \/ InsertCopy(c) \/ NameAuthor(c) \/ Erase(c)

Next ==
  \/ \E u \in User, n \in Name, p \in BOOLEAN : Create(u, n, p)
  \/ \E c \in Call :
       \/ \E m \in There :
            \/ LookToUpdate(c, m) \/ LookToRemove(c, m)
            \/ \E u \in User : FindOriginal(c, u, m)
       \/ \E u \in User : AskDelete(c, u)
       \/ Step(c) \/ BreaksOff(c)

Spec == Init /\ [][Next]_vars

-----------------------------------------------------------------------------
InCatalogueUnlessCopied(m) ==
  module[m].public /\ (module[m].source = NoModule \/ module[m].diverged)

\* findPublic: copies that show what their public source shows are left out.
InCatalogue(m) ==
  /\ module[m].public
  /\ \/ module[m].source = NoModule \/ module[m].diverged
     \/ ~module[module[m].source].public

-----------------------------------------------------------------------------
\* The tables and calls are typed; sources and authors exist, and a source is
\* older than its copies (the foreign keys and SetNull of the schema).
TypeOK ==
  /\ users \subseteq User /\ last \in 0 .. MaxModules
  /\ There \subseteq 1 .. last /\ module \in [There -> Row]
  /\ call \in [Call -> CallState]
  /\ \A m \in There :
       /\ module[m].owner \in users /\ module[m].author \in users \union {NoUser}
       /\ module[m].source \in There \union {NoModule} /\ module[m].source < m

Lineage(m) ==
  {a \in There : \A S \in SUBSET There :
     (m \in S /\ \A x \in S : module[x].source \in S \union {NoModule}) => a \in S}

\* Whatever is saved, unpublished, edited and deleted, in whatever order, a
\* public module that findPublic leaves out descends from one that it lists:
\* no public lineage vanishes from the catalogue.
ListedAncestor ==
  \A m \in There : module[m].public => \E a \in Lineage(m) : InCatalogue(a)

\* A copy is marked as diverged once an update has changed its name or given
\* it cards: update decides this by the row it read before its transaction,
\* while other updates of the copy and deletions of its source go on.
ChangeMarked ==
  \A m \in There :
    module[m].source # NoModule /\ module[m].changed => module[m].diverged

\* saveToLibrary looks for a copy before it makes one: retried or repeated
\* calls of one user leave no more copies of a module than were at work at once.
Savers == {c \in Call : "save" \in Does[c]}
CopiesBounded ==
  \A u \in User, m \in There : Cardinality(Copies(u, m)) <= Cardinality(Savers)

\* A module names the user who wrote it, by reference while he is there and by
\* name when he is gone, through copies of copies; deleteAccount writes the
\* names and then deletes the user, and a copy inserted between the two
\* statements (and copies of it) may lose its author.
AuthorKept ==
  \A m \in There :
    ~module[m].raced =>
      module[m].writer = IF module[m].author # NoUser THEN module[m].author
                         ELSE module[m].authorName
=============================================================================
