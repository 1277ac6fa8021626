---------------------------- MODULE MCStudyLive ----------------------------
(***************************************************************************)
(* Progress under every fault and deletion: two workers, a batch that is   *)
(* partly the user's and one that cannot be read. A job whose lock ran out *)
(* may be in the hands of both workers, one waiting for the other's rows.  *)
(***************************************************************************)
EXTENDS MCStudyPipeline

MCBatches == {Mixed, Unreadable}
MCNext == Queue \/ Work \/ \E c \in Card : RemoveCard(c)
MCSpec == Init /\ [][MCNext]_vars /\ Fairness
=============================================================================
