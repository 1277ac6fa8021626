----------------------------- MODULE MCStudyTwo -----------------------------
(* Two handlers at once: a second worker process, or a job handed out again *)
(* while its first handler is still at work.                                *)
EXTENDS MCStudyPipeline

MCBatches == {Morning, Again}
\* No card is edited meanwhile: the workers contend with each other only.
MCSpec == Init /\ [][Queue \/ Work]_vars
=============================================================================
