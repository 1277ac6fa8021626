----------------------------- MODULE AvatarView -----------------------------
(***************************************************************************)
(* What others see of a user's avatar: a picture or none. An upload shows a *)
(* picture of its own; one that was replaced or taken down never returns.  *)
(***************************************************************************)
CONSTANTS Picture, Blank

VARIABLES
  shown,         \* the picture seen now, or Blank
  past           \* the pictures that were shown before

Init == shown = Blank /\ past = {}

Show(p) ==
  /\ p \notin past \union {shown}
  /\ shown' = p /\ past' = past \union ({shown} \ {Blank})

Hide ==
  /\ shown # Blank
  /\ shown' = Blank /\ past' = past \union {shown}

Next == Hide \/ \E p \in Picture : Show(p)

Spec == Init /\ [][Next]_<<shown, past>>
=============================================================================
