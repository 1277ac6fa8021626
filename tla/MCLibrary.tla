----------------------------- MODULE MCLibrary -----------------------------
(***************************************************************************)
(* modules.service.ts in four parts that do not meet. Three modules ever   *)
(* are the least with a copy of a copy: first originals and copies are     *)
(* edited and deleted by two calls at once; then accounts are deleted      *)
(* while their modules, and copies of these, are saved; then two calls     *)
(* save while a third deletes, with ids for a copy too many, and the same  *)
(* behind the timeout of the requests.                                     *)
(***************************************************************************)
EXTENDS Timeouts, TLC
CONSTANTS u1, u2, u3, n1, n2, n3

MCEditDoes == <<{"save"}, {"update"}, {"update", "remove"}>>
MCAccountDoes == <<{"save", "update"}, {"deleteAccount"}, {}>>
MCSaveDoes == <<{"save"}, {"save"}, {"remove"}>>
MCDoes ==
  [c \in 1 .. 3 |-> MCEditDoes[c] \union MCAccountDoes[c] \union MCSaveDoes[c]]

VARIABLE part

Edits ==
  INSTANCE Library WITH User <- {u1, u2}, Name <- {n1, n2}, Does <- MCEditDoes,
                        MaxModules <- 3
Accounts ==
  INSTANCE Library WITH User <- {u1, u2, u3}, Name <- {n3}, Does <- MCAccountDoes,
                        MaxModules <- 3
Saves ==
  INSTANCE Library WITH User <- {u1, u2}, Name <- {n3}, Does <- MCSaveDoes
Waits ==
  INSTANCE Timeouts WITH User <- {u1, u2}, Name <- {n3}, Does <- MCSaveDoes,
                         MaxModules <- 3

MCInit ==
  /\ told = {}
  /\ \/ part = "edits" /\ Edits!Init /\ late = User
     \/ part = "accounts" /\ Accounts!Init /\ late = User
     \/ part = "saves" /\ Saves!Init /\ late = User
     \/ part = "waits" /\ Waits!Init /\ late = {}

MCNext ==
  /\ \/ /\ \/ part = "edits" /\ Edits!Next
           \/ part = "accounts" /\ Accounts!Next
           \/ part = "saves" /\ Saves!Next
        /\ UNCHANGED <<told, late>>
     \/ part = "waits" /\ Waits!TimedNext
  /\ UNCHANGED part

MCSpec == MCInit /\ [][MCNext]_<<timed, part>>
MCSymmetry == Permutations({u1, u2}) \union Permutations({n1, n2})
=============================================================================
