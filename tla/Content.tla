------------------------------- MODULE Content -------------------------------
(***************************************************************************)
(* What a user's library holds and shows: listings, the cards of modules,  *)
(* folders and their tags. Three components that share no table.           *)
(***************************************************************************)
EXTENDS Listings, ModuleCards, Folders

-----------------------------------------------------------------------------
\* The tables keep their types and references. See ModuleCards and Folders.
TypesOK == CardsTypeOK /\ FoldersTypeOK
=============================================================================
