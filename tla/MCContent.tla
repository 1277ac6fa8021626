----------------------------- MODULE MCContent -----------------------------
(***************************************************************************)
(* What a user's modules and folders hold, in three parts that do not      *)
(* meet. "walk": four rows under two sort keys, so that ties occur on both *)
(* sides of a page boundary; limits below, at and above MaxLimit, and      *)
(* none. "cards": two cards of a module under two requests, that may each  *)
(* add another; three cards under one request, or two modules, so that a   *)
(* list can name the cards of the other. "tags": two tags under two        *)
(* requests, so that tags come and go meanwhile; three tags of a folder,   *)
(* or two of two folders, under one.                                       *)
(***************************************************************************)
EXTENDS Content, TLC
CONSTANTS m1, m2

MCLimits == {1, 2, 3, NoLimit, -1}

VARIABLE part

MCInit ==
  /\ Init /\ CardsInit /\ FoldersInit /\ part \in {"walk", "cards", "tags"}
  /\ part # "walk" => key = [i \in Item |-> Unlisted]

\* Of two that are alike, the second is created second.
InOrder(created) == created # {m2}

Walk == Next /\ UNCHANGED <<tables, folderVars>>

Edit ==
  /\ CardsNext /\ InOrder(made') /\ UNCHANGED <<vars, folderVars>>
  /\ (last' > 2 \/ m2 \in made') => \E c \in Call : call'[c] = Idle

File ==
  /\ FoldersNext /\ InOrder(foldersMade') /\ UNCHANGED <<vars, tables>>
  /\ (lastTag' > 2 \/ m2 \in foldersMade') => \E c \in Setter : setting'[c] = NoRequest
  /\ m2 \in foldersMade' => lastTag' <= 2

MCNext ==
  /\ \/ part = "walk" /\ Walk
     \/ part = "cards" /\ Edit
     \/ part = "tags" /\ File
  /\ UNCHANGED part

MCSpec == MCInit /\ [][MCNext]_<<vars, tables, folderVars, part>>
MCSymmetry == Permutations(Content) \union Permutations(Call)
=============================================================================
