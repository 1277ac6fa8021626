----------------------------- MODULE MCAccounts -----------------------------
(***************************************************************************)
(* Three requests at once on one account. In one part of the instance two  *)
(* get and use tokens while the third ends the session in every way; in    *)
(* the other codes are drawn and two requests try them.                    *)
(***************************************************************************)
EXTENDS Accounts
CONSTANTS new, c1

MCSessionDoes ==
  <<{"signup", "refresh"}, {"login", "refresh"},
    {"logout", "change", "forgot", "reset"}>>
MCResetDoes == <<{"signup", "forgot", "delete"}, {"reset", "forgot"}, {"reset"}>>
MCDoes == [c \in 1 .. 3 |-> MCSessionDoes[c] \union MCResetDoes[c]]

VARIABLE part

Sessions ==
  INSTANCE Accounts WITH Does <- MCSessionDoes, Code <- {c1}, MaxAttempts <- 1,
                         AccessLife <- 1, RefreshLife <- 2
Resets == INSTANCE Accounts WITH Does <- MCResetDoes, Password <- {new}

MCInit == Init /\ part \in {"sessions", "resets"} /\ (part = "resets" => password = new)

MCNext ==
  /\ \/ part = "sessions" /\ Sessions!Next
     \/ part = "resets" /\ Resets!Next
  /\ UNCHANGED part

MCSpec == MCInit /\ [][MCNext]_<<vars, part>>
=============================================================================
