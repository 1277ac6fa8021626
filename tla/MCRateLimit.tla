----------------------------- MODULE MCRateLimit -----------------------------
(* All from one address: either two attempts on one account and one on       *)
(* another, or two requests for a reset mail, which share no counter with    *)
(* the attempts.                                                             *)
EXTENDS RateLimit
CONSTANTS ann, bob, home

Ask(kind, email) == [kind |-> kind, email |-> email, ip |-> home]
MCRequest ==
  <<Ask("login", ann), Ask("login", ann), Ask("login", bob),
    Ask("forgot", ann), Ask("forgot", ann)>>

VARIABLE made

MCInit == Init /\ made \in {{1, 2, 3}, {4, 5}}
Made == UNCHANGED made /\ \A c \in Call \ made : pc'[c] = "idle"

MCSpec == MCInit /\ [][UnbrokenNext /\ Made]_<<vars, made>> /\ Fairness
MCBrokenSpec == MCInit /\ [][Next /\ Made]_<<vars, made>> /\ Fairness
=============================================================================
