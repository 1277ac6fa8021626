----------------------------- MODULE MCAvatars -----------------------------
(***************************************************************************)
(* What one user uploads, and one device registers: two parts that do not  *)
(* meet. Three uploads or removals at once and four files let a call fall  *)
(* behind two others; seven requests let either account log in again with  *)
(* requests of both still on their way.                                    *)
(***************************************************************************)
EXTENDS Avatars, Devices

VARIABLE part

MCInit == Init /\ DevicesInit /\ part \in {"avatar", "device"}

MCNext ==
  /\ \/ part = "avatar" /\ UnbrokenNext /\ UNCHANGED deviceVars
     \/ part = "device" /\ DevicesNext /\ UNCHANGED vars
  /\ UNCHANGED part

MCSpec == MCInit /\ [][MCNext]_<<vars, deviceVars, part>> /\ Fairness
=============================================================================
