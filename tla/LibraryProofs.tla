--------------------------- MODULE LibraryProofs ---------------------------
(***************************************************************************)
(* Theorems about Library, for any users, calls and number of modules:     *)
(* types and references, that changes of copies are marked, that copies    *)
(* are bounded, that authors are kept, and that every public module has an *)
(* ancestor in the catalogue; and about Timeouts: OneCopy.                 *)
(***************************************************************************)
EXTENDS Timeouts, FiniteSetTheorems, WellFoundedInduction, TLAPS

RowOK(m) ==
  /\ module[m].owner \in users /\ module[m].author \in users \union {NoUser}
  /\ module[m].source \in There \union {NoModule} /\ module[m].source < m

Tables ==
  /\ users \subseteq User /\ last \in 0 .. MaxModules
  /\ There \subseteq 1 .. last /\ module \in [There -> Row]
  /\ \A m \in There : RowOK(m)

\* Calls name modules that existed.
CallOK(c) ==
  /\ call[c] \in CallState
  /\ At(c, "update") \/ At(c, "remove") \/ At(c, "copy") \/ At(c, "insert")
       => call[c].id \in 1 .. last

IInv == Tables /\ call \in [Call -> CallState] /\ \A c \in Call : CallOK(c)

-----------------------------------------------------------------------------
(* The statements on the table.                                             *)

LEMMA InsertTables ==
  ASSUME Tables, NEW row \in Row, Insert(row), users' = users,
         row.owner \in users, row.author \in users \union {NoUser},
         row.source \in There \union {NoModule}
  PROVE  Tables' /\ last' = last + 1 /\ There' = There \union {last + 1}
<1> DEFINE new == last + 1
<1>1. new \in Nat /\ new \notin There /\ last \in Nat /\ last' = new /\ last' \in 0 .. MaxModules
  BY LibraryAssumption DEF Tables, Insert, There
<1>2. There' = There \union {new}
  BY DEF Insert, There
<1>3. module'[new] = row /\ \A m \in There : module'[m] = module[m]
  BY <1>1 DEF Insert, There
<1>4. module' \in [There' -> Row]
  BY <1>1, <1>2, <1>3 DEF Insert, Tables, There
<1>5. There' \subseteq 1 .. last'
  BY <1>1, <1>2 DEF Tables
<1>6. ASSUME NEW m \in There' PROVE RowOK(m)'
  <2>1. CASE m = new
    <3>1. row.source < new
      <4>1. There \subseteq 1 .. last
        BY DEF Tables
      <4>2. row.source \in 1 .. last \/ row.source = 0
        BY <4>1 DEF NoModule
      <4> QED BY <1>1, <4>2
    <3> QED BY <1>2, <1>3, <2>1, <3>1 DEF RowOK
  <2>2. CASE m \in There
    BY <1>2, <1>3, <2>2 DEF RowOK, Tables
  <2> QED BY <1>2, <2>1, <2>2
<1> QED BY <1>1, <1>2, <1>4, <1>5, <1>6 DEF Tables

\* What the statements do to a row.
LEMMA OrphanRow ==
  ASSUME NEW row \in Row, NEW ms
  PROVE  LET r == Orphan(row, ms) IN
         /\ r \in Row
         /\ r.source = IF row.source \in ms THEN NoModule ELSE row.source
         /\ r.owner = row.owner /\ r.author = row.author
         /\ r.authorName = row.authorName /\ r.diverged = row.diverged
         /\ r.name = row.name /\ r.changed = row.changed
         /\ r.writer = row.writer /\ r.raced = row.raced
BY DEF Orphan, Row

LEMMA UserRow ==
  ASSUME NEW row \in Row, NEW u \in User, NEW named \in BOOLEAN
  PROVE  LET r == WithoutUser(row, u, named) IN
         /\ r \in Row
         /\ r.author = IF row.author = u THEN NoUser ELSE row.author
         /\ r.authorName = IF named THEN u ELSE row.authorName
         /\ r.owner = row.owner /\ r.source = row.source
         /\ r.diverged = row.diverged /\ r.name = row.name
         /\ r.changed = row.changed /\ r.writer = row.writer /\ r.raced = row.raced
BY DEF WithoutUser, Row

LEMMA UpdatedRow ==
  ASSUME NEW row \in Row, NEW read, NEW name \in Name \union {NotGiven},
         NEW cards \in BOOLEAN, NEW public \in BOOLEAN
  PROVE  LET r == Updated(row, read, name, cards, public) IN
         /\ r \in Row
         /\ r.name = IF name = NotGiven THEN row.name ELSE name
         /\ r.diverged = (row.diverged \/ Diverges(read, name, cards))
         /\ r.changed = (row.changed \/ Changes(row, name, cards))
         /\ r.owner = row.owner /\ r.source = row.source /\ r.author = row.author
         /\ r.authorName = row.authorName /\ r.writer = row.writer
         /\ r.raced = row.raced
BY DEF Updated, Row, Diverges, Changes

\* The deletion of modules.
LEMMA WithoutTables ==
  ASSUME Tables, NEW ms, module' = Without(ms), users' = users, last' = last
  PROVE  Tables' /\ There' = There \ ms
<1>1. There' = There \ ms /\ \A m \in There' : module'[m] = Orphan(module[m], ms)
  BY DEF Without, There
<1>2. \A m \in There : module[m] \in Row
  BY DEF Tables
<1>3. module' \in [There' -> Row]
  BY <1>1, <1>2, OrphanRow DEF Without, There
<1>4. ASSUME NEW m \in There' PROVE RowOK(m)'
  <2>1. m \in There /\ module[m] \in Row /\ RowOK(m) /\ m \in Nat
    BY <1>1, <1>2 DEF Tables
  <2>2. /\ module'[m].owner = module[m].owner /\ module'[m].author = module[m].author
        /\ module'[m].source = IF module[m].source \in ms THEN NoModule ELSE module[m].source
    BY <1>1, <2>1, OrphanRow
  <2>3. m > 0
    BY <2>1 DEF Tables
  <2> QED BY <1>1, <2>1, <2>2, <2>3 DEF RowOK, NoModule
<1> QED BY <1>1, <1>3, <1>4 DEF Tables

\* The deletion of an account.
LEMMA ErasedTables ==
  ASSUME Tables, NEW u \in User, NEW named,
         module' = Erased(u, named), users' = users \ {u}, last' = last
  PROVE  /\ Tables' /\ There' = There \ Owned(u)
         /\ \A m \in There' :
              module'[m] = WithoutUser(Orphan(module[m], Owned(u)), u, m \in named)
<1>1. /\ There' = There \ Owned(u)
      /\ \A m \in There' :
           module'[m] = WithoutUser(Orphan(module[m], Owned(u)), u, m \in named)
  BY DEF Erased, There
<1>2. \A m \in There : module[m] \in Row /\ Orphan(module[m], Owned(u)) \in Row
  BY OrphanRow DEF Tables
<1>3. module' \in [There' -> Row]
  <2>1. ASSUME NEW m \in There' PROVE module'[m] \in Row
    <3> DEFINE isNamed == m \in named
    <3>1. isNamed \in BOOLEAN /\ Orphan(module[m], Owned(u)) \in Row
      BY <1>1, <1>2
    <3>2. WithoutUser(Orphan(module[m], Owned(u)), u, isNamed) \in Row
      <4> HIDE DEF isNamed
      <4> QED BY <3>1, UserRow
    <3> QED BY <1>1, <3>2
  <2>2. module' = [m \in There' |-> module'[m]]
    BY <1>1 DEF Erased, There
  <2> QED BY <2>1, <2>2
<1>4. ASSUME NEW m \in There' PROVE RowOK(m)'
  <2>1. m \in There /\ module[m] \in Row /\ RowOK(m) /\ m \in Nat /\ m > 0
    BY <1>1, <1>2 DEF Tables
  <2>2. LET r == Orphan(module[m], Owned(u)) IN
        /\ r \in Row /\ r.owner = module[m].owner /\ r.author = module[m].author
        /\ r.source = IF module[m].source \in Owned(u) THEN NoModule ELSE module[m].source
    BY <2>1, OrphanRow
  <2>3. /\ module'[m].owner = module[m].owner
        /\ module'[m].author = IF module[m].author = u THEN NoUser ELSE module[m].author
        /\ module'[m].source = IF module[m].source \in Owned(u) THEN NoModule ELSE module[m].source
    <3> DEFINE isNamed == m \in named
    <3>1. isNamed \in BOOLEAN
      OBVIOUS
    <3>2. module'[m] = WithoutUser(Orphan(module[m], Owned(u)), u, isNamed)
      BY <1>1
    <3> HIDE DEF isNamed
    <3> QED BY <2>2, <3>1, <3>2, UserRow
  <2>4. module[m].owner # u
    BY <1>1, <2>1 DEF Owned
  <2> QED BY <1>1, <2>1, <2>3, <2>4 DEF RowOK, NoModule
<1> QED BY <1>1, <1>3, <1>4 DEF Tables

-----------------------------------------------------------------------------
(* Types and references.                                                    *)

LEMMA CallShapes ==
  ASSUME call \in [Call -> CallState], NEW c \in Call
  PROVE  /\ At(c, "update") => call[c] \in [at : {"update"}, id : Id, read : [marked : BOOLEAN, name : Name]]
         /\ At(c, "remove") => call[c] \in [at : {"remove"}, id : Id]
         /\ At(c, "copy") \/ At(c, "insert")
              => call[c] \in [at : {"copy", "insert"}, user : User, id : Id, read : Row]
         /\ At(c, "name") \/ At(c, "erase")
              => call[c] \in [at : {"name", "erase"}, user : User, named : SUBSET Id]
<1> call[c] \in CallState
  OBVIOUS
<1> QED BY DEF CallState, At, Idle

\* A call moves on, to a state that names a module that existed.
LEMMA CallMoves ==
  ASSUME IInv, NEW c \in Call, NEW s \in CallState,
         call' = [call EXCEPT ![c] = s], last' \in Nat, last' >= last,
         s.at \in {"update", "remove", "copy", "insert"} => s.id \in 1 .. last
  PROVE  call' \in [Call -> CallState] /\ \A d \in Call : CallOK(d)'
<1>1. call' \in [Call -> CallState]
  BY DEF IInv
<1>2. ASSUME NEW d \in Call PROVE CallOK(d)'
  <2> last \in Nat
    BY LibraryAssumption DEF IInv, Tables
  <2>1. CASE d = c
    BY <1>1, <2>1 DEF CallOK, At, IInv
  <2>2. CASE d # c
    <3>1. call'[d] = call[d] /\ CallOK(d)
      BY <2>2 DEF IInv
    <3> QED BY <1>1, <3>1 DEF CallOK, At
  <2> QED BY <2>1, <2>2
<1> QED BY <1>1, <1>2

\* The steps that change no table.
LEMMA CallOnly ==
  ASSUME IInv, NEW c \in Call, NEW s \in CallState,
         call' = [call EXCEPT ![c] = s], UNCHANGED <<users, module, last>>,
         s.at \in {"update", "remove", "copy", "insert"} => s.id \in 1 .. last
  PROVE  IInv'
<1>1. last \in Nat
  BY LibraryAssumption DEF IInv, Tables
<1>2. Tables'
  BY DEF IInv, Tables, There, RowOK
<1>3. last' \in Nat /\ last' >= last
  BY <1>1
<1>4. call' \in [Call -> CallState] /\ \A d \in Call : CallOK(d)'
  BY <1>3, CallMoves
<1> QED BY <1>2, <1>4 DEF IInv

LEMMA CallEnds ==
  ASSUME IInv, NEW c \in Call, End(c), last' \in Nat, last' >= last
  PROVE  call' \in [Call -> CallState] /\ \A d \in Call : CallOK(d)'
<1> Idle \in CallState /\ Idle.at = "idle"
  BY DEF CallState, Idle
<1> QED BY CallMoves DEF End

LEMMA TypesInit == Init => IInv
<1> SUFFICES ASSUME Init PROVE IInv
  OBVIOUS
<1>1. There = {} /\ module \in [There -> Row]
  BY DEF Init, There
<1>2. Tables
  BY <1>1, LibraryAssumption DEF Init, Tables
<1>3. \A c \in Call : call[c] = Idle /\ Idle \in CallState
  BY DEF Init, CallState
<1> QED BY <1>2, <1>3 DEF IInv, Init, CallOK, At, Idle

LEMMA TypesStep == IInv /\ [Next]_vars => IInv'
<1> SUFFICES ASSUME IInv, [Next]_vars PROVE IInv'
  OBVIOUS
<1> last \in Nat /\ Tables /\ call \in [Call -> CallState]
  BY LibraryAssumption DEF IInv, Tables
<1> \A m \in There : m \in Id /\ m \in 1 .. last /\ module[m] \in Row
  BY LibraryAssumption DEF Tables, Id
<1> USE DEF IInv
<1>same. ASSUME UNCHANGED <<users, module, last>> PROVE Tables'
  BY <1>same DEF Tables, There, RowOK
<1>grow. ASSUME call' = call, last' = last + 1
         PROVE  call' \in [Call -> CallState] /\ \A d \in Call : CallOK(d)'
  BY <1>grow DEF CallOK, At
<1>1. ASSUME NEW u \in User, NEW n \in Name, NEW p \in BOOLEAN, Create(u, n, p)
      PROVE IInv'
  <2> DEFINE row == [owner |-> u, source |-> NoModule, name |-> n, author |-> u,
             authorName |-> NoUser, public |-> p, diverged |-> FALSE,
             changed |-> FALSE, writer |-> u, raced |-> FALSE]
  <2>1. row \in Row /\ row.owner = u /\ row.author = u /\ row.source = NoModule
    BY DEF Row
  <2>2. Insert(row) /\ users' = users /\ call' = call /\ u \in users
    BY <1>1 DEF Create
  <2> HIDE DEF row
  <2>3. Tables' /\ last' = last + 1
    BY <2>1, <2>2, InsertTables
  <2> QED BY <1>grow, <2>2, <2>3
<1>2. ASSUME NEW c \in Call, NEW m \in There, LookToUpdate(c, m) PROVE IInv'
  <2> DEFINE s == [at |-> "update", id |-> m, read |-> Provenance(module[m])]
  <2>1. s \in CallState /\ s.id = m
    BY DEF CallState, Provenance, Row
  <2>2. call' = [call EXCEPT ![c] = s] /\ UNCHANGED <<users, module, last>>
    BY <1>2 DEF LookToUpdate, Begin
  <2> HIDE DEF s
  <2> QED BY <2>1, <2>2, CallOnly
<1>3. ASSUME NEW c \in Call, NEW m \in There, LookToRemove(c, m) PROVE IInv'
  <2> DEFINE s == [at |-> "remove", id |-> m]
  <2>1. s \in CallState /\ s.id = m
    BY DEF CallState
  <2>2. call' = [call EXCEPT ![c] = s] /\ UNCHANGED <<users, module, last>>
    BY <1>3 DEF LookToRemove, Begin
  <2> HIDE DEF s
  <2> QED BY <2>1, <2>2, CallOnly
<1>4. ASSUME NEW c \in Call, NEW m \in There, NEW u \in User, FindOriginal(c, u, m)
      PROVE IInv'
  <2> DEFINE s == [at |-> "copy", user |-> u, id |-> m, read |-> module[m]]
  <2>1. s \in CallState /\ s.id = m
    BY DEF CallState
  <2>2. call' = [call EXCEPT ![c] = s] /\ UNCHANGED <<users, module, last>>
    BY <1>4 DEF FindOriginal, Begin
  <2> HIDE DEF s
  <2> QED BY <2>1, <2>2, CallOnly
<1>5. ASSUME NEW c \in Call, NEW u \in User, AskDelete(c, u) PROVE IInv'
  <2> DEFINE s == [at |-> "name", user |-> u, named |-> {}]
  <2>1. s \in CallState /\ s.at = "name"
    BY DEF CallState
  <2>2. call' = [call EXCEPT ![c] = s] /\ UNCHANGED <<users, module, last>>
    BY <1>5 DEF AskDelete, Begin
  <2> HIDE DEF s
  <2> QED BY <2>1, <2>2, CallOnly
<1>6. ASSUME NEW c \in Call, NEW name \in Name \union {NotGiven},
             NEW cards \in BOOLEAN, NEW public \in BOOLEAN, Write(c, name, cards, public)
      PROVE IInv'
  <2> DEFINE m == call[c].id
             new == Updated(module[m], call[c].read, name, cards, public)
  <2>1. End(c) /\ UNCHANGED <<users, last>>
    BY <1>6 DEF Write
  <2>2. CASE m \notin There
    BY <1>6, <1>same, <2>1, <2>2, CallEnds DEF Write
  <2>3. CASE m \in There
    <3>1. module' = [module EXCEPT ![m] = new]
      BY <1>6, <2>3 DEF Write
    <3>2. /\ new \in Row /\ new.owner = module[m].owner
          /\ new.author = module[m].author /\ new.source = module[m].source
      BY <2>3, UpdatedRow
    <3> HIDE DEF new
    <3>3. There' = There
      BY <3>1 DEF There
    <3>4. Tables'
      <4>1. module' \in [There' -> Row]
        BY <3>1, <3>2, <3>3 DEF Tables
      <4>2. ASSUME NEW k \in There PROVE RowOK(k)'
        BY <2>1, <3>1, <3>2, <3>3 DEF RowOK, Tables
      <4> QED BY <2>1, <3>3, <4>1, <4>2 DEF Tables
    <3> QED BY <2>1, <3>4, CallEnds
  <2> QED BY <2>2, <2>3
<1>7. ASSUME NEW c \in Call, Remove(c) PROVE IInv'
  BY <1>7, CallEnds, WithoutTables DEF Remove
<1>8. ASSUME NEW c \in Call, FindCopy(c) PROVE IInv'
  <2>1. UNCHANGED <<users, module, last>>
    BY <1>8 DEF FindCopy
  <2>2. CASE End(c)
    BY <1>same, <2>1, <2>2, CallEnds
  <2>3. CASE Goto(c, "insert")
    <3> DEFINE s == [call[c] EXCEPT !.at = "insert"]
    <3>1. At(c, "copy")
      BY <1>8 DEF FindCopy
    <3>2. call[c] \in [at : {"copy", "insert"}, user : User, id : Id, read : Row]
      BY <3>1, CallShapes
    <3>3. s \in CallState /\ s.id = call[c].id
      BY <3>2 DEF CallState
    <3>4. call[c].id \in 1 .. last
      BY <3>1 DEF CallOK
    <3>5. call' = [call EXCEPT ![c] = s]
      BY <2>3 DEF Goto
    <3> HIDE DEF s
    <3> QED BY <2>1, <3>3, <3>4, <3>5, CallOnly
  <2> QED BY <1>8, <2>2, <2>3 DEF FindCopy
<1>9. ASSUME NEW c \in Call, InsertCopy(c) PROVE IInv'
  <2> DEFINE u == call[c].user  m == call[c].id  read == call[c].read
             row == Copy(u, m, read)
  <2>1. End(c) /\ users' = users
    BY <1>9 DEF InsertCopy
  <2>2. CASE UNCHANGED <<module, last>>
    BY <1>same, <2>1, <2>2, CallEnds
  <2>3. CASE u \in users /\ m \in There /\ read.author \in users \union {NoUser} /\ Insert(row)
    <3>1. call[c] \in [at : {"copy", "insert"}, user : User, id : Id, read : Row]
      BY <1>9, CallShapes DEF InsertCopy
    <3>2. read \in Row
      BY <3>1
    <3>3. row \in Row /\ row.owner = u /\ row.author = read.author /\ row.source = m
      BY <2>3, <3>1, <3>2 DEF Copy, Row
    <3> HIDE DEF row
    <3>4. Tables' /\ last' = last + 1
      BY <2>1, <2>3, <3>3, InsertTables
    <3> QED BY <2>1, <3>4, CallEnds
  <2> QED BY <1>9, <2>2, <2>3 DEF InsertCopy
<1>10. ASSUME NEW c \in Call, NameAuthor(c) PROVE IInv'
  <2> DEFINE s == [call[c] EXCEPT !.at = "erase", !.named = Authored(call[c].user)]
  <2>1. call[c] \in [at : {"name", "erase"}, user : User, named : SUBSET Id]
    BY <1>10, CallShapes DEF NameAuthor
  <2>2. Authored(call[c].user) \subseteq Id
    BY DEF Authored
  <2>3. s \in CallState /\ s.at = "erase"
    BY <2>1, <2>2 DEF CallState
  <2>4. call' = [call EXCEPT ![c] = s] /\ UNCHANGED <<users, module, last>>
    BY <1>10, <2>1 DEF NameAuthor
  <2> HIDE DEF s
  <2> QED BY <2>3, <2>4, CallOnly
<1>11. ASSUME NEW c \in Call, Erase(c) PROVE IInv'
  <2> DEFINE u == call[c].user
  <2>1. End(c) /\ last' = last
    BY <1>11 DEF Erase
  <2>2. CASE UNCHANGED <<users, module>>
    BY <1>same, <2>1, <2>2, CallEnds
  <2>3. CASE users' = users \ {u} /\ module' = Erased(u, call[c].named)
    <3>1. u \in User
      BY <1>11, CallShapes DEF Erase
    <3>2. Tables'
      BY <2>1, <2>3, <3>1, ErasedTables
    <3> QED BY <2>1, <3>2, CallEnds
  <2> QED BY <1>11, <2>2, <2>3 DEF Erase
<1>12. ASSUME NEW c \in Call, BreaksOff(c) PROVE IInv'
  BY <1>12, <1>same, CallEnds DEF BreaksOff
<1>13. CASE UNCHANGED vars
  BY <1>13, <1>same DEF vars, CallOK, At
<1> QED BY <1>1, <1>2, <1>3, <1>4, <1>5, <1>6, <1>7, <1>8, <1>9, <1>10, <1>11,
           <1>12, <1>13 DEF Next, Step

\* The tables and the calls keep their types, and every reference its row.
THEOREM LibraryTypeCorrect == Spec => []TypeOK
<1>1. Spec => []IInv
  BY TypesInit, TypesStep, PTL DEF Spec
<1>2. IInv => TypeOK
  BY DEF IInv, Tables, RowOK, TypeOK
<1> QED BY <1>1, <1>2, PTL

-----------------------------------------------------------------------------
(* Changes of copies are marked.                                            *)

\* As long as a copy is not marked, updates at work have read its name as it
\* is, and as not marked.
ReadFresh(c) ==
  At(c, "update") /\ call[c].id \in There
    => LET row == module[call[c].id]  read == call[c].read IN
       row.source # NoModule /\ ~row.diverged => ~read.marked /\ read.name = row.name

MarkInv == ChangeMarked /\ \A c \in Call : ReadFresh(c)

\* Steps that change of the modules at most the sources, to none.
LEMMA MarkKept ==
  ASSUME IInv, MarkInv,
         \A d \in Call : call'[d] = call[d] \/ ~At(d, "update")',
         \A m \in There' :
           \/ m \notin 1 .. last /\ ~module'[m].changed
           \/ /\ m \in There
              /\ module'[m].name = module[m].name
              /\ module'[m].diverged = module[m].diverged
              /\ module'[m].changed = module[m].changed
              /\ module'[m].source \in {module[m].source, NoModule}
  PROVE  MarkInv'
<1>1. ChangeMarked'
  BY DEF MarkInv, ChangeMarked
<1>2. ASSUME NEW d \in Call, At(d, "update")', call'[d].id \in There' PROVE ReadFresh(d)'
  <2>1. call'[d] = call[d] /\ At(d, "update") /\ ReadFresh(d) /\ call[d].id \in 1 .. last
    BY <1>2 DEF At, IInv, CallOK, MarkInv
  <2> QED BY <1>2, <2>1 DEF ReadFresh
<1> QED BY <1>1, <1>2 DEF MarkInv, ReadFresh

LEMMA MarkStep == IInv /\ MarkInv /\ [Next]_vars => MarkInv'
<1> SUFFICES ASSUME IInv, MarkInv, [Next]_vars PROVE MarkInv'
  OBVIOUS
<1> last \in Nat /\ Tables /\ call \in [Call -> CallState]
  BY LibraryAssumption DEF IInv, Tables
<1> \A m \in There : m \in Id /\ m \in 1 .. last /\ module[m] \in Row
  BY LibraryAssumption DEF Tables, Id
<1>end. ASSUME NEW c \in Call, End(c)
        PROVE  \A d \in Call : call'[d] = call[d] \/ ~At(d, "update")'
  BY <1>end DEF End, At, Idle
<1>goto. ASSUME NEW c \in Call, NEW s, s.at # "update", call' = [call EXCEPT ![c] = s]
         PROVE  \A d \in Call : call'[d] = call[d] \/ ~At(d, "update")'
  BY <1>goto DEF At
<1>same. ASSUME UNCHANGED module PROVE There' = There
  BY <1>same DEF There
<1>grow. ASSUME NEW row, Insert(row), ~row.changed
         PROVE  \A m \in There' : \/ m \notin 1 .. last /\ ~module'[m].changed
                                  \/ m \in There /\ module'[m] = module[m]
  <2>1. There' = There \union {last + 1} /\ last + 1 \notin There
    BY <1>grow DEF Insert, There
  <2> QED BY <1>grow, <2>1 DEF Insert, There
<1>1. ASSUME NEW u \in User, NEW n \in Name, NEW p \in BOOLEAN, Create(u, n, p)
      PROVE MarkInv'
  BY <1>1, <1>grow, MarkKept DEF Create
<1>2. ASSUME NEW c \in Call, NEW m \in There, LookToUpdate(c, m) PROVE MarkInv'
  <2>1. /\ call' = [call EXCEPT ![c] = [at |-> "update", id |-> m, read |-> Provenance(module[m])]]
        /\ UNCHANGED module /\ There' = There
    BY <1>2, <1>same DEF LookToUpdate, Begin
  <2>2. ReadFresh(c)'
    BY <2>1 DEF ReadFresh, Provenance
  <2>3. ASSUME NEW d \in Call, d # c PROVE ReadFresh(d)'
    BY <2>1, <2>3 DEF MarkInv, ReadFresh, At
  <2> QED BY <2>1, <2>2, <2>3 DEF MarkInv, ChangeMarked
<1>3. ASSUME NEW c \in Call, NEW m \in There, LookToRemove(c, m) PROVE MarkInv'
  BY <1>3, <1>goto, <1>same, MarkKept DEF LookToRemove, Begin
<1>4. ASSUME NEW c \in Call, NEW m \in There, NEW u \in User, FindOriginal(c, u, m)
      PROVE MarkInv'
  BY <1>4, <1>goto, <1>same, MarkKept DEF FindOriginal, Begin
<1>5. ASSUME NEW c \in Call, NEW u \in User, AskDelete(c, u) PROVE MarkInv'
  BY <1>5, <1>goto, <1>same, MarkKept DEF AskDelete, Begin
<1>6. ASSUME NEW c \in Call, NEW name \in Name \union {NotGiven},
             NEW cards \in BOOLEAN, NEW public \in BOOLEAN, Write(c, name, cards, public)
      PROVE MarkInv'
  <2> DEFINE m == call[c].id
             read == call[c].read
             new == Updated(module[m], read, name, cards, public)
  <2>1. End(c) /\ At(c, "update")
    BY <1>6 DEF Write
  <2>2. CASE m \notin There
    BY <1>6, <1>same, <1>end, <2>1, <2>2, MarkKept DEF Write
  <2>3. CASE m \in There
    <3>1. module' = [module EXCEPT ![m] = new]
      BY <1>6, <2>3 DEF Write
    <3>2. /\ new.name = IF name = NotGiven THEN module[m].name ELSE name
          /\ new.diverged = (module[m].diverged \/ Diverges(read, name, cards))
          /\ new.changed = (module[m].changed \/ Changes(module[m], name, cards))
          /\ new.source = module[m].source
      BY <2>3, UpdatedRow
    <3> HIDE DEF new
    <3>3. There' = There
      BY <3>1 DEF There
    <3>4. ReadFresh(c)
      BY DEF MarkInv
    <3>5. module[m].source # NoModule /\ ~new.diverged
            => /\ ~module[m].diverged /\ ~Changes(module[m], name, cards)
               /\ new.name = module[m].name
      BY <2>1, <2>3, <3>2, <3>4 DEF ReadFresh, Diverges, Changes
    <3>6. ChangeMarked'
      <4>1. ASSUME NEW k \in There', k # m
            PROVE module'[k].source # NoModule /\ module'[k].changed => module'[k].diverged
        BY <3>1, <3>3, <4>1 DEF MarkInv, ChangeMarked
      <4>2. new.source # NoModule /\ new.changed => new.diverged
        <5>1. module[m].source # NoModule /\ module[m].changed => module[m].diverged
          BY <2>3 DEF MarkInv, ChangeMarked
        <5> QED BY <3>2, <3>5, <5>1
      <4>3. module'[m] = new
        BY <2>3, <3>1 DEF There
      <4> QED BY <4>1, <4>2, <4>3 DEF ChangeMarked
    <3>7. ASSUME NEW d \in Call PROVE ReadFresh(d)'
      <4>1. CASE d = c
        BY <2>1, <4>1 DEF End, ReadFresh, At, Idle
      <4>2. CASE d # c
        <5>1. call'[d] = call[d] /\ ReadFresh(d)
          BY <2>1, <4>2 DEF End, MarkInv
        <5>2. CASE call[d].id = m
          BY <2>3, <3>1, <3>2, <3>3, <3>5, <5>1, <5>2 DEF ReadFresh, At
        <5>3. CASE call[d].id # m
          BY <3>1, <3>3, <5>1, <5>3 DEF ReadFresh, At
        <5> QED BY <5>2, <5>3
      <4> QED BY <4>1, <4>2
    <3> QED BY <3>6, <3>7 DEF MarkInv
  <2> QED BY <2>2, <2>3
<1>7. ASSUME NEW c \in Call, Remove(c) PROVE MarkInv'
  <2> DEFINE ms == {call[c].id}
  <2>1. module' = Without(ms) /\ End(c)
    BY <1>7 DEF Remove
  <2>2. There' = There \ ms /\ \A m \in There' : module'[m] = Orphan(module[m], ms)
    BY <2>1 DEF Without, There
  <2> HIDE DEF ms
  <2> QED BY <1>end, <2>1, <2>2, OrphanRow, MarkKept
<1>8. ASSUME NEW c \in Call, FindCopy(c) PROVE MarkInv'
  <2>1. ASSUME Goto(c, "insert") PROVE \A d \in Call : call'[d] = call[d] \/ ~At(d, "update")'
    <3>1. call[c] \in [at : {"copy", "insert"}, user : User, id : Id, read : Row]
      BY <1>8, CallShapes DEF FindCopy
    <3>2. call'[c].at = "insert" /\ \A d \in Call \ {c} : call'[d] = call[d]
      BY <2>1, <3>1 DEF Goto
    <3> QED BY <3>2 DEF At
  <2> QED BY <1>8, <1>same, <1>end, <2>1, MarkKept DEF FindCopy
<1>9. ASSUME NEW c \in Call, InsertCopy(c) PROVE MarkInv'
  <2>1. CASE UNCHANGED module
    BY <1>9, <1>same, <1>end, <2>1, MarkKept DEF InsertCopy
  <2>2. CASE Insert(Copy(call[c].user, call[c].id, call[c].read))
    <3>1. ~Copy(call[c].user, call[c].id, call[c].read).changed
      BY DEF Copy
    <3> QED BY <1>9, <1>grow, <1>end, <2>2, <3>1, MarkKept DEF InsertCopy
  <2> QED BY <1>9, <2>1, <2>2 DEF InsertCopy
<1>10. ASSUME NEW c \in Call, NameAuthor(c) PROVE MarkInv'
  <2>1. call[c] \in [at : {"name", "erase"}, user : User, named : SUBSET Id]
    BY <1>10, CallShapes DEF NameAuthor
  <2>2. call'[c].at = "erase" /\ \A d \in Call \ {c} : call'[d] = call[d]
    BY <1>10, <2>1 DEF NameAuthor
  <2>3. \A d \in Call : call'[d] = call[d] \/ ~At(d, "update")'
    BY <2>2 DEF At
  <2> QED BY <1>10, <1>same, <2>3, MarkKept DEF NameAuthor
<1>11. ASSUME NEW c \in Call, Erase(c) PROVE MarkInv'
  <2> DEFINE u == call[c].user
  <2>1. CASE UNCHANGED module
    BY <1>11, <1>same, <1>end, <2>1, MarkKept DEF Erase
  <2>2. CASE users' = users \ {u} /\ module' = Erased(u, call[c].named)
    <3>1. u \in User /\ last' = last
      BY <1>11, CallShapes DEF Erase
    <3>2. /\ There' = There \ Owned(u)
          /\ \A m \in There' : module'[m] =
               WithoutUser(Orphan(module[m], Owned(u)), u, m \in call[c].named)
      BY <2>2, <3>1, ErasedTables
    <3>3. ASSUME NEW m \in There'
          PROVE  /\ m \in There
                 /\ module'[m].name = module[m].name
                 /\ module'[m].diverged = module[m].diverged
                 /\ module'[m].changed = module[m].changed
                 /\ module'[m].source \in {module[m].source, NoModule}
      <4> DEFINE isNamed == m \in call[c].named
                 r == Orphan(module[m], Owned(u))
      <4>1. isNamed \in BOOLEAN
        OBVIOUS
      <4>2. r \in Row /\ r.name = module[m].name /\ r.diverged = module[m].diverged
            /\ r.changed = module[m].changed /\ r.source \in {module[m].source, NoModule}
        BY <3>2, OrphanRow
      <4>3. module'[m] = WithoutUser(r, u, isNamed)
        BY <3>2
      <4> HIDE DEF isNamed, r
      <4> QED BY <3>1, <3>2, <4>1, <4>2, <4>3, UserRow
    <3> QED BY <1>11, <1>end, <3>3, MarkKept DEF Erase
  <2> QED BY <1>11, <2>1, <2>2 DEF Erase
<1>12. ASSUME NEW c \in Call, BreaksOff(c) PROVE MarkInv'
  BY <1>12, <1>same, <1>end, MarkKept DEF BreaksOff
<1>13. CASE UNCHANGED vars
  BY <1>13, <1>same, MarkKept DEF vars
<1> QED BY <1>1, <1>2, <1>3, <1>4, <1>5, <1>6, <1>7, <1>8, <1>9, <1>10, <1>11,
           <1>12, <1>13 DEF Next, Step

\* An update that changes the content of a copy leaves it marked as diverged,
\* whatever went on since the update read it.
THEOREM ChangesAlwaysMarked == Spec => []ChangeMarked
<1>1. Init => MarkInv
  <2> SUFFICES ASSUME Init PROVE MarkInv
    OBVIOUS
  <2>1. There = {} /\ \A c \in Call : call[c] = Idle
    BY DEF Init, There
  <2> QED BY <2>1 DEF MarkInv, ChangeMarked, ReadFresh, At, Idle
<1>2. Spec => [](IInv /\ MarkInv)
  BY <1>1, TypesInit, TypesStep, MarkStep, PTL DEF Spec
<1>3. MarkInv => ChangeMarked
  BY DEF MarkInv
<1> QED BY <1>2, <1>3, PTL

-----------------------------------------------------------------------------
(* The catalogue. A source is older than its copies, so going from source   *)
(* to source ends; the oldest public ancestor is listed.                    *)

\* A set of naturals that is not empty has a least member.
LEMMA LeastId ==
  ASSUME NEW T \in SUBSET Nat, T # {}
  PROVE  \E n \in T : \A m \in T : n <= m
<1> DEFINE Upto == {1 .. n : n \in T}
<1>1. Upto \subseteq FiniteSubsetsOf(Nat) /\ Upto # {}
  <2> SUFFICES ASSUME NEW n \in T PROVE 1 .. n \in FiniteSubsetsOf(Nat)
    OBVIOUS
  <2>1. IsFiniteSet(1 .. n)
    BY FS_Interval
  <2> QED BY <2>1 DEF FiniteSubsetsOf
<1>2. PICK X \in Upto :
        \A Y \in Upto : ~(<<Y, X>> \in StrictSubsetOrdering(Nat))
  BY <1>1, FS_StrictSubsetOrderingWellFounded, WFMin
<1>3. PICK n \in T : X = 1 .. n
  BY <1>2
<1>4. ASSUME NEW m \in T, m < n PROVE FALSE
  <2>1. 1 .. m \in Upto /\ 1 .. m \subseteq 1 .. n /\ n \notin 1 .. m /\ n \in 1 .. n
    BY <1>4
  <2>2. <<1 .. m, X>> \in StrictSubsetOrdering(Nat)
    BY <2>1, <1>3 DEF StrictSubsetOrdering
  <2> QED BY <2>1, <2>2, <1>2
<1> QED BY <1>4

\* No public module is without an ancestor in the catalogue.
THEOREM ListedAncestorAlways == Spec => []ListedAncestor
<1>1. TypeOK => ListedAncestor
  <2> SUFFICES ASSUME TypeOK, NEW m \in There, module[m].public PROVE
                \E a \in Lineage(m) : InCatalogue(a)
    BY DEF ListedAncestor
  <2> DEFINE P == {a \in Lineage(m) : module[a].public}
  <2>1. m \in P
    BY DEF Lineage
  <2>2. P \subseteq Nat
    <3>1. There \subseteq Nat
      BY LibraryAssumption DEF TypeOK
    <3> QED BY <3>1 DEF Lineage
  <2>3. PICK a \in P : \A b \in P : a <= b
    BY <2>1, <2>2, LeastId
  <2>4. a \in There /\ module[a].source \in There \union {NoModule} /\ module[a].source < a
    BY DEF Lineage, TypeOK
  <2>5. CASE module[a].source = NoModule
    BY <2>5 DEF InCatalogue
  <2>6. CASE module[a].source # NoModule
    <3> DEFINE s == module[a].source
    <3>1. s \in There /\ s < a
      BY <2>4, <2>6
    <3>2. s \in Lineage(m)
      BY <2>6, <3>1 DEF Lineage
    <3>3. s \notin P
      <4> HIDE DEF s, P
      <4>1. a \in Nat /\ (s \in P => s \in Nat /\ a <= s)
        BY <2>2, <2>3
      <4> QED BY <3>1, <4>1
    <3>4. ~module[s].public
      BY <3>2, <3>3
    <3> QED BY <3>4 DEF InCatalogue
  <2> QED BY <2>5, <2>6
<1> QED BY <1>1, LibraryTypeCorrect, PTL

-----------------------------------------------------------------------------
(* Authors are kept.                                                        *)

Kept(row) ==
  ~row.raced => row.writer = IF row.author # NoUser THEN row.author ELSE row.authorName

\* Between its two statements a deletion has named every module of its user
\* but the user's own and those that raced with it.
NamedOK(c) ==
  At(c, "erase") =>
    /\ call[c].named \subseteq 1 .. last
    /\ call[c].user \in users =>
         \A m \in There :
           /\ m \in call[c].named => module[m].author = call[c].user
           /\ (module[m].author = call[c].user /\ module[m].owner # call[c].user /\ ~module[m].raced)
                => m \in call[c].named

AuthorInv ==
  /\ \A m \in There : Kept(module[m])
  /\ \A c \in Call : At(c, "copy") \/ At(c, "insert") => Kept(call[c].read)
  /\ \A c \in Call : NamedOK(c)

\* A call stands still, or has read or named what it should.
CallKeeps(d) ==
  \/ call'[d] = call[d]
  \/ ~At(d, "copy")' /\ ~At(d, "insert")' /\ ~At(d, "erase")'
  \/ (At(d, "copy")' \/ At(d, "insert")') /\ Kept(call'[d].read)
  \/ At(d, "erase")' /\ NamedOK(d)'

\* Steps that leave authors, owners and names as they are, but in new rows.
LEMMA AuthorsStay ==
  ASSUME IInv, AuthorInv, users' = users, last' \in Nat, last' >= last,
         \A d \in Call : CallKeeps(d),
         \A m \in There' :
           \/ /\ m \in There
              /\ module'[m].author = module[m].author
              /\ module'[m].authorName = module[m].authorName
              /\ module'[m].owner = module[m].owner
              /\ module'[m].writer = module[m].writer
              /\ module'[m].raced = module[m].raced
           \/ /\ m \notin 1 .. last /\ Kept(module'[m])
              /\ \A d \in Call : At(d, "erase") =>
                   \/ module'[m].author # call[d].user
                   \/ module'[m].owner = call[d].user \/ module'[m].raced
  PROVE  AuthorInv'
<1> last \in Nat
  BY LibraryAssumption DEF IInv, Tables
<1>1. \A m \in There' : Kept(module[m])'
  BY DEF AuthorInv, Kept
<1>2. ASSUME NEW d \in Call
      PROVE  (At(d, "copy")' \/ At(d, "insert")' => Kept(call[d].read)') /\ NamedOK(d)'
  <2>1. CASE call'[d] = call[d]
    <3>1. At(d, "copy")' \/ At(d, "insert")' => Kept(call[d].read)'
      BY <2>1 DEF AuthorInv, At, Kept
    <3>2. NamedOK(d) /\ (At(d, "erase")' <=> At(d, "erase"))
      BY <2>1 DEF AuthorInv, At
    <3>3. CASE At(d, "erase")
      <4>1. call'[d].named \subseteq 1 .. last /\ call'[d].named \subseteq 1 .. last'
        BY <2>1, <3>2, <3>3 DEF NamedOK
      <4>2. ASSUME call[d].user \in users, NEW m \in There'
            PROVE  /\ m \in call[d].named => module'[m].author = call[d].user
                   /\ (module'[m].author = call[d].user
                        /\ module'[m].owner # call[d].user /\ ~module'[m].raced)
                        => m \in call[d].named
        <5>1. CASE m \in There
          BY <3>2, <3>3, <4>2, <5>1 DEF NamedOK
        <5>2. CASE m \notin There
          <6>1. m \notin 1 .. last /\ call[d].named \subseteq 1 .. last
            BY <3>2, <3>3, <5>2 DEF NamedOK
          <6>2. \/ module'[m].author # call[d].user
                \/ module'[m].owner = call[d].user \/ module'[m].raced
            BY <3>3, <5>2
          <6> QED BY <6>1, <6>2
        <5> QED BY <5>1, <5>2
      <4>3. NamedOK(d)'
        BY <2>1, <4>1, <4>2 DEF NamedOK
      <4> QED BY <3>1, <4>3
    <3> QED BY <3>1, <3>2, <3>3 DEF NamedOK
  <2>2. CASE call'[d] # call[d]
    BY <2>2 DEF At, NamedOK, CallKeeps, Kept
  <2> QED BY <2>1, <2>2
<1> QED BY <1>1, <1>2 DEF AuthorInv

LEMMA AuthorStep == IInv /\ AuthorInv /\ [Next]_vars => AuthorInv'
<1> SUFFICES ASSUME IInv, AuthorInv, [Next]_vars PROVE AuthorInv'
  OBVIOUS
<1> last \in Nat /\ Tables /\ call \in [Call -> CallState]
  BY LibraryAssumption DEF IInv, Tables
<1> \A m \in There : m \in Id /\ m \in 1 .. last /\ module[m] \in Row
  BY LibraryAssumption DEF Tables, Id
<1>end. ASSUME NEW c \in Call, End(c) PROVE \A d \in Call : CallKeeps(d)
  BY <1>end DEF End, At, Idle, CallKeeps
<1>goto. ASSUME NEW c \in Call, NEW s, call' = [call EXCEPT ![c] = s],
                s.at \in {"update", "remove", "name"}
         PROVE  \A d \in Call : CallKeeps(d)
  BY <1>goto DEF At, CallKeeps
<1>copy. ASSUME NEW c \in Call, NEW s, call' = [call EXCEPT ![c] = s],
                s.at = "copy" /\ Kept(s.read)
         PROVE  \A d \in Call : CallKeeps(d)
  BY <1>copy DEF At, CallKeeps
<1>same. ASSUME UNCHANGED <<users, module, last>>
         PROVE  There' = There /\ last' \in Nat /\ last' >= last
  BY <1>same DEF There
<1>quiet. ASSUME \A d \in Call : CallKeeps(d), UNCHANGED <<users, module, last>>
          PROVE  AuthorInv'
  BY <1>quiet, <1>same, AuthorsStay
<1>grow. ASSUME NEW row, Insert(row), \A d \in Call : CallKeeps(d), users' = users,
                Kept(row),
                \A d \in Call : At(d, "erase") => row.author # call[d].user
                                  \/ row.owner = call[d].user \/ row.raced
         PROVE  AuthorInv'
  <2>1. There' = There \union {last + 1} /\ last' = last + 1
    BY <1>grow DEF Insert, There
  <2>2. last + 1 \notin 1 .. last /\ last' \in Nat /\ last' >= last
    BY <2>1
  <2>3. module'[last + 1] = row /\ \A m \in There : module'[m] = module[m]
    BY <1>grow, <2>1, <2>2 DEF Insert, There
  <2> QED BY <1>grow, <2>1, <2>2, <2>3, AuthorsStay
<1>1. ASSUME NEW u \in User, NEW n \in Name, NEW p \in BOOLEAN, Create(u, n, p)
      PROVE AuthorInv'
  <2> DEFINE row == [owner |-> u, source |-> NoModule, name |-> n, author |-> u,
             authorName |-> NoUser, public |-> p, diverged |-> FALSE,
             changed |-> FALSE, writer |-> u, raced |-> FALSE]
  <2>1. Kept(row) /\ row.author = u /\ row.owner = u
    BY LibraryAssumption DEF Kept
  <2>2. Insert(row) /\ users' = users /\ \A d \in Call : CallKeeps(d)
    BY <1>1 DEF Create, CallKeeps
  <2> HIDE DEF row
  <2> QED BY <1>grow, <2>1, <2>2
<1>2. ASSUME NEW c \in Call, NEW m \in There, LookToUpdate(c, m) PROVE AuthorInv'
  BY <1>2, <1>goto, <1>quiet DEF LookToUpdate, Begin
<1>3. ASSUME NEW c \in Call, NEW m \in There, LookToRemove(c, m) PROVE AuthorInv'
  BY <1>3, <1>goto, <1>quiet DEF LookToRemove, Begin
<1>4. ASSUME NEW c \in Call, NEW m \in There, NEW u \in User, FindOriginal(c, u, m)
      PROVE AuthorInv'
  <2> DEFINE s == [at |-> "copy", user |-> u, id |-> m, read |-> module[m]]
  <2>1. s.at = "copy" /\ Kept(s.read)
    BY DEF AuthorInv
  <2>2. call' = [call EXCEPT ![c] = s] /\ UNCHANGED <<users, module, last>>
    BY <1>4 DEF FindOriginal, Begin
  <2> HIDE DEF s
  <2> QED BY <1>copy, <1>quiet, <2>1, <2>2
<1>5. ASSUME NEW c \in Call, NEW u \in User, AskDelete(c, u) PROVE AuthorInv'
  BY <1>5, <1>goto, <1>quiet DEF AskDelete, Begin
<1>6. ASSUME NEW c \in Call, NEW name \in Name \union {NotGiven},
             NEW cards \in BOOLEAN, NEW public \in BOOLEAN, Write(c, name, cards, public)
      PROVE AuthorInv'
  <2> DEFINE m == call[c].id
             new == Updated(module[m], call[c].read, name, cards, public)
  <2>1. End(c) /\ users' = users /\ last' = last /\ last' \in Nat /\ last' >= last
    BY <1>6 DEF Write
  <2>2. CASE UNCHANGED module
    BY <1>end, <1>quiet, <2>1, <2>2
  <2>3. CASE m \in There /\ module' = [module EXCEPT ![m] = new]
    <3>1. /\ new.owner = module[m].owner /\ new.author = module[m].author
          /\ new.authorName = module[m].authorName
          /\ new.writer = module[m].writer /\ new.raced = module[m].raced
      BY <2>3, UpdatedRow
    <3> HIDE DEF new
    <3>2. There' = There /\ \A k \in There : module'[k] = IF k = m THEN new ELSE module[k]
      BY <2>3 DEF There
    <3> QED BY <1>end, <2>1, <3>1, <3>2, AuthorsStay
  <2> QED BY <1>6, <2>2, <2>3 DEF Write
<1>7. ASSUME NEW c \in Call, Remove(c) PROVE AuthorInv'
  <2> DEFINE ms == {call[c].id}
  <2>1. /\ module' = Without(ms) /\ End(c) /\ users' = users
        /\ last' \in Nat /\ last' >= last
    BY <1>7 DEF Remove
  <2>2. There' = There \ ms /\ \A m \in There' : module'[m] = Orphan(module[m], ms)
    BY <2>1 DEF Without, There
  <2> HIDE DEF ms
  <2> QED BY <1>end, <2>1, <2>2, OrphanRow, AuthorsStay
<1>8. ASSUME NEW c \in Call, FindCopy(c) PROVE AuthorInv'
  <2>1. ASSUME Goto(c, "insert") PROVE \A d \in Call : CallKeeps(d)
    <3>1. call[c] \in [at : {"copy", "insert"}, user : User, id : Id, read : Row]
          /\ Kept(call[c].read)
      BY <1>8, CallShapes DEF FindCopy, AuthorInv
    <3>2. /\ call'[c].at = "insert" /\ call'[c].read = call[c].read
          /\ \A d \in Call \ {c} : call'[d] = call[d]
      BY <2>1, <3>1 DEF Goto
    <3> QED BY <3>1, <3>2 DEF At, CallKeeps
  <2> QED BY <1>8, <1>end, <1>quiet, <2>1 DEF FindCopy
<1>9. ASSUME NEW c \in Call, InsertCopy(c) PROVE AuthorInv'
  <2> DEFINE u == call[c].user  m == call[c].id  read == call[c].read
             row == Copy(u, m, read)
  <2>1. End(c) /\ users' = users
    BY <1>9 DEF InsertCopy
  <2>2. CASE UNCHANGED <<module, last>>
    BY <1>end, <1>quiet, <2>1, <2>2
  <2>3. CASE Insert(row)
    <3>1. Kept(read)
      BY <1>9 DEF InsertCopy, AuthorInv
    <3>2. Kept(row)
      BY <3>1 DEF Kept, Copy
    <3>3. \A d \in Call : At(d, "erase") => row.author # call[d].user \/ row.raced
      BY DEF Copy
    <3> HIDE DEF row
    <3> QED BY <1>end, <1>grow, <2>1, <2>3, <3>2, <3>3
  <2> QED BY <1>9, <2>2, <2>3 DEF InsertCopy
<1>10. ASSUME NEW c \in Call, NameAuthor(c) PROVE AuthorInv'
  <2> DEFINE u == call[c].user
  <2>1. call[c] \in [at : {"name", "erase"}, user : User, named : SUBSET Id]
    BY <1>10, CallShapes DEF NameAuthor
  <2>2. /\ call'[c].at = "erase" /\ call'[c].user = u /\ call'[c].named = Authored(u)
        /\ \A d \in Call \ {c} : call'[d] = call[d]
    BY <1>10, <2>1 DEF NameAuthor
  <2>3. UNCHANGED <<users, module, last>> /\ There' = There
    BY <1>10, <1>same DEF NameAuthor
  <2>4. Authored(u) \subseteq 1 .. last
    BY DEF Authored
  <2>5. At(c, "erase")' /\ NamedOK(c)'
    <3>1. \A m \in There : m \in Authored(u) <=> module[m].author = u
      BY DEF Authored
    <3>2. At(c, "erase")' /\ call'[c].named \subseteq 1 .. last'
      BY <2>2, <2>3, <2>4 DEF At
    <3>3. ASSUME NEW m \in There'
          PROVE  /\ m \in call'[c].named => module'[m].author = call'[c].user
                 /\ (module'[m].author = call'[c].user
                      /\ module'[m].owner # call'[c].user /\ ~module'[m].raced)
                      => m \in call'[c].named
      BY <2>2, <2>3, <3>1
    <3>4. NamedOK(c)'
      BY <3>2, <3>3 DEF NamedOK
    <3> QED BY <3>2, <3>4
  <2>6. \A d \in Call : CallKeeps(d)
    BY <2>2, <2>5 DEF CallKeeps
  <2> QED BY <1>quiet, <2>3, <2>6
<1>11. ASSUME NEW c \in Call, Erase(c) PROVE AuthorInv'
  <2> DEFINE u == call[c].user  named == call[c].named
  <2>1. End(c) /\ last' = last
    BY <1>11 DEF Erase
  <2>2. CASE UNCHANGED <<users, module>>
    BY <1>end, <1>quiet, <2>1, <2>2
  <2>3. CASE u \in users /\ users' = users \ {u} /\ module' = Erased(u, named)
    <3>1. u \in User /\ At(c, "erase")
      BY <1>11, CallShapes DEF Erase
    <3>2. /\ There' = There \ Owned(u)
          /\ \A m \in There' :
               module'[m] = WithoutUser(Orphan(module[m], Owned(u)), u, m \in named)
      BY <2>1, <2>3, <3>1, ErasedTables
    <3>3. ASSUME NEW m \in There'
          PROVE  /\ m \in There /\ module[m].owner # u
                 /\ module'[m].author = IF module[m].author = u THEN NoUser ELSE module[m].author
                 /\ module'[m].authorName = IF m \in named THEN u ELSE module[m].authorName
                 /\ module'[m].owner = module[m].owner
                 /\ module'[m].writer = module[m].writer
                 /\ module'[m].raced = module[m].raced
      <4> DEFINE isNamed == m \in named  r == Orphan(module[m], Owned(u))
      <4>1. isNamed \in BOOLEAN
        OBVIOUS
      <4>2. r \in Row /\ r.author = module[m].author /\ r.authorName = module[m].authorName
            /\ r.owner = module[m].owner /\ r.writer = module[m].writer
            /\ r.raced = module[m].raced
        BY <3>2, OrphanRow
      <4>3. module'[m] = WithoutUser(r, u, isNamed)
        BY <3>2
      <4>4. m \in There /\ module[m].owner # u
        BY <3>2 DEF Owned
      <4>5. LET w == WithoutUser(r, u, isNamed) IN
            /\ w.author = IF r.author = u THEN NoUser ELSE r.author
            /\ w.authorName = IF isNamed THEN u ELSE r.authorName
            /\ w.owner = r.owner /\ w.writer = r.writer /\ w.raced = r.raced
        <5> HIDE DEF isNamed, r
        <5> QED BY <3>1, <4>1, <4>2, UserRow
      <4> QED BY <4>2, <4>3, <4>4, <4>5
    <3>4. NamedOK(c) /\ \A m \in There : Kept(module[m])
      BY DEF AuthorInv
    <3>5. ASSUME NEW m \in There' PROVE Kept(module[m])'
      BY <2>3, <3>1, <3>3, <3>4, LibraryAssumption DEF Kept, NamedOK
    <3>6. ASSUME NEW d \in Call
          PROVE  (At(d, "copy")' \/ At(d, "insert")' => Kept(call[d].read)') /\ NamedOK(d)'
      <4>1. CASE d = c
        BY <2>1, <4>1 DEF End, At, Idle, NamedOK
      <4>2. CASE d # c
        <5>1. call'[d] = call[d]
          BY <2>1, <4>2 DEF End
        <5>2. At(d, "copy")' \/ At(d, "insert")' => Kept(call[d].read)'
          BY <5>1 DEF AuthorInv, At, Kept
        <5>3. NamedOK(d)
          BY DEF AuthorInv
        <5>4. call[d].user \in users' => call[d].user \in users /\ call[d].user # u /\ call[d].user # NoUser
          BY <2>3, LibraryAssumption DEF Tables
        <5>5. ASSUME At(d, "erase"), call[d].user \in users', NEW m \in There'
              PROVE  /\ m \in call[d].named => module'[m].author = call[d].user
                     /\ (module'[m].author = call[d].user
                          /\ module'[m].owner # call[d].user /\ ~module'[m].raced)
                          => m \in call[d].named
          BY <3>3, <5>3, <5>4, <5>5 DEF NamedOK
        <5>6. NamedOK(d)'
          BY <2>1, <5>1, <5>3, <5>5 DEF NamedOK, At
        <5> QED BY <5>2, <5>6
      <4> QED BY <4>1, <4>2
    <3> QED BY <3>5, <3>6 DEF AuthorInv
  <2> QED BY <1>11, <2>2, <2>3 DEF Erase
<1>12. ASSUME NEW c \in Call, BreaksOff(c) PROVE AuthorInv'
  BY <1>12, <1>end, <1>quiet DEF BreaksOff
<1>13. CASE UNCHANGED vars
  <2>1. \A d \in Call : CallKeeps(d)
    BY <1>13 DEF vars, CallKeeps
  <2> QED BY <1>13, <1>quiet, <2>1 DEF vars
<1> QED BY <1>1, <1>2, <1>3, <1>4, <1>5, <1>6, <1>7, <1>8, <1>9, <1>10, <1>11,
           <1>12, <1>13 DEF Next, Step

\* A module names its writer, by reference or by name, through copies and
\* deletions of accounts, unless a copy of it was inserted between the two
\* statements that deleted the writer's account.
THEOREM AuthorAlwaysKept == Spec => []AuthorKept
<1>1. Init => AuthorInv
  <2> SUFFICES ASSUME Init PROVE AuthorInv
    OBVIOUS
  <2>1. There = {} /\ \A c \in Call : call[c] = Idle
    BY DEF Init, There
  <2> QED BY <2>1 DEF AuthorInv, NamedOK, At, Idle
<1>2. Spec => [](IInv /\ AuthorInv)
  BY <1>1, TypesInit, TypesStep, AuthorStep, PTL DEF Spec
<1>3. AuthorInv => AuthorKept
  BY DEF AuthorInv, AuthorKept, Kept
<1> QED BY <1>2, <1>3, PTL

-----------------------------------------------------------------------------
(* Copies are bounded.                                                      *)

\* The calls that found no copy and will insert one.
Inserting(u, m) == {c \in Call : At(c, "insert") /\ call[c].user = u /\ call[c].id = m}

CopyInv ==
  /\ \A c \in Call : At(c, "copy") \/ At(c, "insert") => c \in Savers
  /\ \A u \in User, m \in Id :
       Cardinality(Copies(u, m)) + Cardinality(Inserting(u, m)) <= Cardinality(Savers)

Counted ==
  /\ IsFiniteSet(Savers) /\ Cardinality(Savers) \in Nat
  /\ \A u, m : /\ IsFiniteSet(Copies(u, m)) /\ Cardinality(Copies(u, m)) \in Nat
               /\ IsFiniteSet(Inserting(u, m)) /\ Cardinality(Inserting(u, m)) \in Nat

LEMMA CopiesFinite == IInv => Counted
<1> SUFFICES ASSUME IInv PROVE Counted
  OBVIOUS
<1>1. IsFiniteSet(1 .. last) /\ There \subseteq 1 .. last
  BY FS_Interval, LibraryAssumption DEF IInv, Tables
<1>2. \A u, m : Copies(u, m) \subseteq 1 .. last /\ Inserting(u, m) \subseteq Call
  BY <1>1 DEF Copies, Inserting
<1>3. Savers \subseteq Call /\ IsFiniteSet(Call)
  BY LibraryAssumption DEF Savers
<1> QED BY <1>1, <1>2, <1>3, FS_Subset, FS_CardinalityType DEF Counted

\* A copy is added by the last statement of a save, and by nothing else.
Inserts(c) ==
  /\ At(c, "insert") /\ End(c) /\ call[c].id \in There /\ last + 1 \notin There
  /\ \A u \in User, m \in Id :
       Copies(u, m)' \subseteq
         Copies(u, m) \union (IF u = call[c].user /\ m = call[c].id THEN {last + 1} ELSE {})
Shrinks == \A u \in User, m \in Id : Copies(u, m)' \subseteq Copies(u, m)

LEMMA CopiesStay ==
  ASSUME \A k \in There' :
           \/ module'[k].source = NoModule
           \/ /\ k \in There /\ module'[k].owner = module[k].owner
              /\ module'[k].source \in {module[k].source, NoModule}
  PROVE  Shrinks
BY DEF Shrinks, Copies, Id, NoModule

LEMMA CopySteps ==
  ASSUME IInv, [Next]_vars
  PROVE  Shrinks \/ \E c \in Call : Inserts(c)
<1> last \in Nat /\ Tables /\ call \in [Call -> CallState] /\ last + 1 \notin There
  BY LibraryAssumption DEF IInv, Tables
<1> \A m \in There : m \in 1 .. last /\ module[m] \in Row
  BY DEF Tables
<1>same. ASSUME UNCHANGED module PROVE Shrinks
  BY <1>same DEF Shrinks, Copies, There
<1>1. ASSUME NEW u \in User, NEW n \in Name, NEW p \in BOOLEAN, Create(u, n, p)
      PROVE  Shrinks
  <2> DEFINE row == [owner |-> u, source |-> NoModule, name |-> n, author |-> u,
             authorName |-> NoUser, public |-> p, diverged |-> FALSE,
             changed |-> FALSE, writer |-> u, raced |-> FALSE]
  <2>1. Insert(row) /\ row.source = NoModule
    BY <1>1 DEF Create
  <2> HIDE DEF row
  <2>2. There' = There \union {last + 1}
    BY <2>1 DEF Insert, There
  <2>3. module'[last + 1] = row /\ \A m \in There : module'[m] = module[m]
    BY <2>1, <2>2 DEF Insert, There
  <2> QED BY <2>1, <2>2, <2>3, CopiesStay
<1>2. ASSUME NEW c \in Call, NEW name \in Name \union {NotGiven},
             NEW cards \in BOOLEAN, NEW public \in BOOLEAN, Write(c, name, cards, public)
      PROVE  Shrinks
  <2> DEFINE m == call[c].id
             new == Updated(module[m], call[c].read, name, cards, public)
  <2>1. CASE m \in There /\ module' = [module EXCEPT ![m] = new]
    <3>1. new.owner = module[m].owner /\ new.source = module[m].source
      BY <2>1, UpdatedRow
    <3> HIDE DEF new
    <3>2. There' = There /\ \A k \in There : module'[k] = IF k = m THEN new ELSE module[k]
      BY <2>1 DEF There
    <3> QED BY <3>1, <3>2, CopiesStay
  <2> QED BY <1>2, <1>same, <2>1 DEF Write
<1>3. ASSUME NEW c \in Call, Remove(c) PROVE Shrinks
  <2> DEFINE ms == {call[c].id}
  <2>1. module' = Without(ms)
    BY <1>3 DEF Remove
  <2>2. There' = There \ ms /\ \A m \in There' : module'[m] = Orphan(module[m], ms)
    BY <2>1 DEF Without, There
  <2> HIDE DEF ms
  <2> QED BY <2>2, OrphanRow, CopiesStay
<1>4. ASSUME NEW c \in Call, InsertCopy(c) PROVE Shrinks \/ Inserts(c)
  <2> DEFINE u == call[c].user  m == call[c].id
             row == Copy(u, m, call[c].read)
  <2>1. CASE m \in There /\ Insert(row)
    <3>1. row.owner = u /\ row.source = m
      BY DEF Copy
    <3> HIDE DEF row
    <3>2. There' = There \union {last + 1}
      BY <2>1 DEF Insert, There
    <3>3. module'[last + 1] = row /\ \A k \in There : module'[k] = module[k]
      BY <2>1, <3>2 DEF Insert, There
    <3> QED BY <1>4, <2>1, <3>1, <3>2, <3>3 DEF Inserts, InsertCopy, Copies
  <2> QED BY <1>4, <1>same, <2>1 DEF InsertCopy
<1>5. ASSUME NEW c \in Call, Erase(c) PROVE Shrinks
  <2> DEFINE u == call[c].user  named == call[c].named
  <2>1. CASE users' = users \ {u} /\ module' = Erased(u, named)
    <3>1. u \in User /\ last' = last
      BY <1>5, CallShapes DEF Erase
    <3>2. /\ There' = There \ Owned(u)
          /\ \A m \in There' :
               module'[m] = WithoutUser(Orphan(module[m], Owned(u)), u, m \in named)
      BY <2>1, <3>1, ErasedTables
    <3>3. ASSUME NEW m \in There'
          PROVE  /\ m \in There /\ module'[m].owner = module[m].owner
                 /\ module'[m].source \in {module[m].source, NoModule}
      <4> DEFINE isNamed == m \in named  r == Orphan(module[m], Owned(u))
      <4>1. isNamed \in BOOLEAN
        OBVIOUS
      <4>2. /\ m \in There /\ r \in Row /\ r.owner = module[m].owner
            /\ r.source \in {module[m].source, NoModule}
        BY <3>2, OrphanRow
      <4>3. module'[m] = WithoutUser(r, u, isNamed)
        BY <3>2
      <4> HIDE DEF isNamed, r
      <4> QED BY <3>1, <4>1, <4>2, <4>3, UserRow
    <3> QED BY <3>3, CopiesStay
  <2> QED BY <1>5, <1>same, <2>1 DEF Erase
<1> QED
  BY <1>same, <1>1, <1>2, <1>3, <1>4, <1>5
  DEF Next, Step, vars, LookToUpdate, LookToRemove, FindOriginal, AskDelete, FindCopy,
      NameAuthor, BreaksOff

\* A call that saves was saving, or has just found its original; it is about
\* to insert because it found no copy.
Finds(c) ==
  /\ At(c, "copy") /\ UNCHANGED module /\ \A d \in Call \ {c} : call'[d] = call[d]
  /\ Copies(call[c].user, call[c].id) = {}
  /\ call'[c].at = "insert" /\ call'[c].user = call[c].user /\ call'[c].id = call[c].id

Starts(c) ==
  /\ At(c, "idle") /\ call'[c].at = "copy" /\ c \in Savers
  /\ \A d \in Call \ {c} : call'[d] = call[d]

LEMMA SaveSteps ==
  ASSUME IInv, [Next]_vars
  PROVE  \A c \in Call : Saving(c)' =>
           \/ call'[c] = call[c]
           \/ Starts(c)
           \/ Finds(c)
<1> call \in [Call -> CallState]
  BY DEF IInv
<1> DEFINE Moves(c) == \/ call'[c] = call[c] \/ ~Saving(c)'
                       \/ Starts(c) \/ Finds(c)
           Only(c) == \A d \in Call : Moves(d)
<1> SUFFICES Only(0)
  OBVIOUS
<1>end. ASSUME NEW c \in Call, End(c) PROVE Only(0)
  BY <1>end DEF End, At, Idle, Saving
<1>goto. ASSUME NEW c \in Call, NEW s, call' = [call EXCEPT ![c] = s],
                s.at \in {"update", "remove", "name", "erase"}
         PROVE  Only(0)
  BY <1>goto DEF At, Saving
<1>same. ASSUME call' = call PROVE Only(0)
  BY <1>same
<1>1. ASSUME NEW c \in Call, NEW m \in There, NEW u \in User, FindOriginal(c, u, m)
      PROVE  Only(0)
  BY <1>1 DEF FindOriginal, Begin, Savers, Starts
<1>2. ASSUME NEW c \in Call, FindCopy(c) PROVE Only(0)
  <2>1. CASE End(c)
    BY <1>end, <2>1
  <2>2. CASE Copies(call[c].user, call[c].id) = {} /\ Goto(c, "insert")
    <3>1. call[c] \in [at : {"copy", "insert"}, user : User, id : Id, read : Row]
      BY <1>2, CallShapes DEF FindCopy
    <3>2. /\ call'[c].at = "insert" /\ call'[c].user = call[c].user
          /\ call'[c].id = call[c].id /\ \A d \in Call \ {c} : call'[d] = call[d]
      BY <2>2, <3>1 DEF Goto
    <3> QED BY <1>2, <2>2, <3>2 DEF FindCopy, Finds
  <2> QED BY <1>2, <2>1, <2>2 DEF FindCopy
<1>3. ASSUME NEW c \in Call, NameAuthor(c) PROVE Only(0)
  <2>1. call[c] \in [at : {"name", "erase"}, user : User, named : SUBSET Id]
    BY <1>3, CallShapes DEF NameAuthor
  <2>2. call'[c].at = "erase" /\ \A d \in Call \ {c} : call'[d] = call[d]
    BY <1>3, <2>1 DEF NameAuthor
  <2> QED BY <2>2 DEF At, Saving
<1>4. ASSUME NEW c \in Call, NEW m \in There, LookToUpdate(c, m) \/ LookToRemove(c, m)
      PROVE  Only(0)
  BY <1>4, <1>goto DEF LookToUpdate, LookToRemove, Begin
<1>5. ASSUME NEW c \in Call, NEW u \in User, AskDelete(c, u) PROVE Only(0)
  BY <1>5, <1>goto DEF AskDelete, Begin
<1> HIDE DEF Only
<1>6. ASSUME NEW c \in Call, Step(c) \/ BreaksOff(c) PROVE Only(0)
  BY <1>2, <1>3, <1>6, <1>end
  DEF Step, BreaksOff, Write, Remove, InsertCopy, Erase
<1> QED
  BY <1>1, <1>4, <1>5, <1>6, <1>same DEF Next, vars, Create

LEMMA CopyStep == IInv /\ CopyInv /\ [Next]_vars => CopyInv'
<1> SUFFICES ASSUME IInv, CopyInv, [Next]_vars PROVE CopyInv'
  OBVIOUS
<1> IInv' /\ Counted /\ Counted' /\ call \in [Call -> CallState]
  BY TypesStep, CopiesFinite, PTL DEF IInv
<1>1. ASSUME NEW c \in Call, At(c, "copy")' \/ At(c, "insert")' PROVE c \in Savers
  <2>1. Saving(c)'
    BY <1>1 DEF Saving
  <2>2. At(c, "copy") \/ At(c, "insert") => c \in Savers
    BY DEF CopyInv
  <2> QED BY <1>1, <2>1, <2>2, SaveSteps DEF Finds, Starts, At
<1>2. ASSUME NEW u \in User, NEW m \in Id
      PROVE  Cardinality(Copies(u, m)') + Cardinality(Inserting(u, m)') <= Cardinality(Savers)
  <2>1. Cardinality(Copies(u, m)) + Cardinality(Inserting(u, m)) <= Cardinality(Savers)
    BY DEF CopyInv
  <2>2. /\ IsFiniteSet(Copies(u, m)') /\ Cardinality(Copies(u, m)') \in Nat
        /\ IsFiniteSet(Inserting(u, m)') /\ Cardinality(Inserting(u, m)') \in Nat
    BY DEF Counted
  <2>3. CASE \E c \in Call : Finds(c) /\ call[c].user = u /\ call[c].id = m
    <3>1. Copies(u, m)' = {}
      BY <2>3 DEF Finds, Copies, There
    <3>2. Inserting(u, m)' \subseteq Savers
      BY <1>1 DEF Inserting
    <3> QED BY <2>2, <3>1, <3>2, FS_EmptySet, FS_Subset DEF Counted
  <2>4. CASE \E c \in Call : Inserts(c) /\ call[c].user = u /\ call[c].id = m
    <3>1. PICK c \in Call : Inserts(c) /\ call[c].user = u /\ call[c].id = m
      BY <2>4
    <3>2. Copies(u, m)' \subseteq Copies(u, m) \union {last + 1}
      BY <3>1 DEF Inserts
    <3>3. Inserting(u, m)' \subseteq Inserting(u, m) \ {c} /\ c \in Inserting(u, m)
      BY <3>1 DEF Inserting, Inserts, End, At, Idle
    <3>4. last + 1 \notin Copies(u, m)
      BY <3>1 DEF Inserts, Copies
    <3>5. /\ IsFiniteSet(Copies(u, m) \union {last + 1})
          /\ Cardinality(Copies(u, m) \union {last + 1}) = Cardinality(Copies(u, m)) + 1
          /\ IsFiniteSet(Inserting(u, m) \ {c})
          /\ Cardinality(Inserting(u, m) \ {c}) = Cardinality(Inserting(u, m)) - 1
      BY <3>3, <3>4, FS_AddElement, FS_RemoveElement DEF Counted
    <3>6. /\ Cardinality(Copies(u, m)') <= Cardinality(Copies(u, m)) + 1
          /\ Cardinality(Inserting(u, m)') <= Cardinality(Inserting(u, m)) - 1
      BY <3>2, <3>3, <3>5, FS_Subset
    <3> QED BY <2>1, <2>2, <3>6 DEF Counted
  <2>5. CASE \A c \in Call : Finds(c) \/ Inserts(c) => ~(call[c].user = u /\ call[c].id = m)
    <3>1. Copies(u, m)' \subseteq Copies(u, m)
      BY <2>5, CopySteps DEF Shrinks, Inserts
    <3>2. Inserting(u, m)' \subseteq Inserting(u, m)
      BY <2>5, SaveSteps DEF Inserting, Saving, At, Finds, Starts
    <3>3. /\ Cardinality(Copies(u, m)') <= Cardinality(Copies(u, m))
          /\ Cardinality(Inserting(u, m)') <= Cardinality(Inserting(u, m))
      BY <3>1, <3>2, FS_Subset DEF Counted
    <3> QED BY <2>1, <2>2, <3>3 DEF Counted
  <2> QED BY <2>3, <2>4, <2>5
<1> QED BY <1>1, <1>2 DEF CopyInv, Savers

\* Saves of one module by one user leave no more copies than calls can save at
\* once, however many are repeated.
THEOREM CopiesAlwaysBounded == Spec => []CopiesBounded
<1>1. Init => CopyInv
  <2> SUFFICES ASSUME Init PROVE CopyInv
    OBVIOUS
  <2>1. There = {} /\ \A c \in Call : call[c] = Idle
    BY DEF Init, There
  <2>2. \A u, m : Cardinality(Copies(u, m)) = 0 /\ Cardinality(Inserting(u, m)) = 0
    BY <2>1, FS_EmptySet DEF Copies, Inserting, At, Idle
  <2>3. Cardinality(Savers) \in Nat
    BY TypesInit, CopiesFinite DEF Counted
  <2> QED BY <2>1, <2>2, <2>3 DEF CopyInv, At, Idle
<1>2. Spec => [](IInv /\ CopyInv)
  BY <1>1, TypesInit, TypesStep, CopyStep, PTL DEF Spec
<1>3. IInv /\ CopyInv => CopiesBounded
  <2> SUFFICES ASSUME IInv, CopyInv, NEW u \in User, NEW m \in There
               PROVE  Cardinality(Copies(u, m)) <= Cardinality(Savers)
    BY DEF CopiesBounded
  <2>1. m \in Id
    BY LibraryAssumption DEF IInv, Tables, Id
  <2> QED BY <2>1, CopiesFinite DEF CopyInv, Counted
<1> QED BY <1>2, <1>3, PTL

-----------------------------------------------------------------------------
(* A user who waits for each answer.                                        *)

\* A user who was never told that a save was cancelled has one save at work at
\* most, has no copy of the module when it is about to insert one, and so has
\* one copy of a module at most.
OneInv ==
  /\ \A c \in told : call[c] # Idle
  /\ \A c \in Call : Saving(c) /\ c \in told => call[c].user \in late
  /\ \A c, d \in Call :
       /\ Saving(c) /\ Saving(d) /\ call[c].user = call[d].user
       /\ call[c].user \notin late
       => c = d
  /\ \A c \in Call :
       At(c, "insert") /\ call[c].user \notin late => Copies(call[c].user, call[c].id) = {}
  /\ \A u \in User \ late, m \in Id : \A j, k \in Copies(u, m) : j = k

\* A save that is at work has the user and module of the call that began it.
LEMMA SavingCalls ==
  IInv => \A c \in Call : Saving(c) => call[c].user \in User /\ call[c].id \in Id
BY CallShapes DEF IInv, Saving

LEMMA HandleKeepsOne == IInv /\ OneInv /\ Handle => OneInv'
<1> SUFFICES ASSUME IInv, OneInv, Handle PROVE OneInv'
  OBVIOUS
<1> IInv' /\ [Next]_vars /\ late' = late /\ call \in [Call -> CallState]
  BY TypesStep DEF Handle, IInv
<1>told. \A c \in told' : c \in told /\ call'[c] # Idle
  BY DEF Handle
<1>moves. ASSUME NEW c \in Call, Saving(c)'
          PROVE  \/ call'[c] = call[c] /\ Saving(c)
                 \/ Finds(c) /\ Saving(c)
                 \/ Starts(c) /\ ~Saving(c) /\ call'[c].user \notin Waiting
  BY <1>moves, SaveSteps DEF Saving, At, Finds, Starts, Handle
<1>calls. (\A c \in Call : Saving(c) => call[c].user \in User /\ call[c].id \in Id)'
  BY SavingCalls, PTL
<1>1. ASSUME NEW c \in Call, Saving(c)', c \in told' PROVE call'[c].user \in late
  <2>1. ~At(c, "idle")
    BY <1>1, <1>told DEF OneInv, IInv, CallState, At
  <2> QED BY <1>1, <1>moves, <1>told, <2>1 DEF OneInv, Finds, Starts
\* A second save begins only when the first was answered or told that it is
\* cancelled, and in the latter case the user is late.
<1>2. ASSUME NEW c \in Call, NEW d \in Call, Saving(c)', Saving(d)',
             call'[c].user = call'[d].user, call'[c].user \notin late
      PROVE  c = d
  <2>1. ASSUME NEW x \in Call, NEW y \in Call, Saving(x), Starts(y), Saving(y)',
               call'[y].user = call[x].user, call[x].user \notin late,
               call'[y].user \notin Waiting
        PROVE  FALSE
    BY <2>1 DEF OneInv, Waiting
  <2>2. CASE Saving(c) /\ Saving(d)
    BY <1>2, <1>moves, <2>2 DEF OneInv, Finds
  <2>3. ASSUME NEW x \in Call, NEW y \in Call, Saving(x), Saving(x)', Saving(y)', ~Saving(y),
               call'[y].user = call'[x].user, call'[x].user \notin late
        PROVE  FALSE
    <3>1. Starts(y) /\ call'[y].user \notin Waiting /\ x # y
      BY <1>moves, <2>3
    <3>2. call'[x] = call[x]
      BY <3>1 DEF Starts
    <3> QED BY <2>1, <2>3, <3>1, <3>2
  <2>4. CASE ~Saving(c) /\ ~Saving(d)
    <3>1. Starts(c) /\ Starts(d)
      BY <1>2, <1>moves, <2>4
    <3> QED BY <3>1 DEF Starts, At
  <2> QED BY <1>2, <2>2, <2>3, <2>4
<1>3. ASSUME NEW c \in Call, At(c, "insert")', call'[c].user \notin late
      PROVE  Copies(call[c].user, call[c].id)' = {}
  <2>1. Saving(c)'
    BY <1>3 DEF Saving
  <2>2. PICK u \in User, m \in Id : call'[c].user = u /\ call'[c].id = m
    BY <1>calls, <2>1
  <2>3. SUFFICES Copies(u, m)' = {}
    BY <2>2 DEF Copies
  <2>4. CASE Finds(c)
    BY <2>2, <2>4 DEF Finds, Copies, There
  <2>5. CASE call'[c] = call[c] /\ Saving(c)
    <3>1. Copies(u, m) = {} /\ u \notin late
      BY <1>3, <2>2, <2>5 DEF OneInv, At
    <3>2. ASSUME NEW d \in Call, Inserts(d), call[d].user = u PROVE FALSE
      <4>1. c = d
        BY <2>2, <2>5, <3>1, <3>2 DEF OneInv, Inserts, Saving
      <4> QED BY <1>3, <3>2, <4>1 DEF Inserts, End, Idle, At
    <3> QED BY <3>1, <3>2, CopySteps DEF Shrinks, Inserts
  <2> QED BY <1>3, <1>moves, <2>1, <2>4, <2>5 DEF Starts, At
<1>4. ASSUME NEW u \in User \ late, NEW m \in Id,
             NEW j \in Copies(u, m)', NEW k \in Copies(u, m)'
      PROVE  j = k
  <2>1. CASE \E c \in Call : Inserts(c) /\ call[c].user = u /\ call[c].id = m
    BY <2>1 DEF OneInv, Inserts
  <2>2. CASE ~\E c \in Call : Inserts(c) /\ call[c].user = u /\ call[c].id = m
    BY <2>2, CopySteps DEF OneInv, Shrinks, Inserts
  <2> QED BY <2>1, <2>2
<1>5. \A c \in told' : call'[c] # Idle
  BY <1>told
<1> QED
  BY <1>1, <1>2, <1>3, <1>4, <1>5 DEF OneInv

\* A time-out moves no call, and makes the user it leaves without answer late.
LEMMA TimeOutKeepsOne == ASSUME OneInv, NEW c \in Call, TimeOut(c) PROVE OneInv'
BY DEF OneInv, TimeOut, vars, Saving, At, Idle, Copies, There

\* A user whose client waits for each answer, and was never told that a save
\* was cancelled, has one copy of a module at most, for any number of calls.
THEOREM OneCopyAlways == TimedSpec => []OneCopy
<1>1. TimedInit => IInv /\ OneInv
  <2> SUFFICES ASSUME TimedInit PROVE IInv /\ OneInv
    OBVIOUS
  <2>1. There = {} /\ told = {} /\ \A c \in Call : call[c] = Idle
    BY DEF TimedInit, Init, There
  <2> QED BY <2>1, TypesInit DEF TimedInit, OneInv, Saving, At, Idle, Copies
<1>2. IInv /\ OneInv /\ [TimedNext]_timed => (IInv /\ OneInv)'
  <2> SUFFICES ASSUME IInv, OneInv, [TimedNext]_timed PROVE (IInv /\ OneInv)'
    OBVIOUS
  <2>1. [Next]_vars
    BY DEF TimedNext, Handle, TimeOut, timed
  <2>2. IInv'
    BY <2>1, TypesStep
  <2>3. OneInv'
    <3>1. CASE UNCHANGED timed
      BY <3>1 DEF timed, vars, OneInv, Saving, At, Copies, There
    <3> QED BY <3>1, HandleKeepsOne, TimeOutKeepsOne DEF TimedNext
  <2> QED BY <2>2, <2>3
<1>3. IInv /\ OneInv => OneCopy
  <2> SUFFICES ASSUME IInv, OneInv, NEW u \in User \ late, NEW m \in There
               PROVE  Cardinality(Copies(u, m)) <= 1
    BY DEF OneCopy
  <2>1. m \in Id
    BY LibraryAssumption DEF IInv, Tables, Id
  <2>2. CASE Copies(u, m) = {}
    BY <2>2, FS_EmptySet
  <2>3. CASE Copies(u, m) # {}
    <3>1. PICK k : Copies(u, m) = {k}
      BY <2>1, <2>3 DEF OneInv
    <3> QED BY <3>1, FS_Singleton
  <2> QED BY <2>2, <2>3
<1> QED BY <1>1, <1>2, <1>3, PTL DEF TimedSpec

=============================================================================
