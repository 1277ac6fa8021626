----------------------------- MODULE MCStudyOne -----------------------------
(* The deployed system: one worker process of concurrency 1.                *)
EXTENDS MCStudyPipeline

MCBatches == {Morning, Again}
=============================================================================
