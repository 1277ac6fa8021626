---------------------------- MODULE MCStudyWindow ----------------------------
(* One worker and a history window of a single answer per card, with every  *)
(* kind of batch the API accepts and cards created and patched by hand.     *)
EXTENDS MCStudyPipeline

MCBatches == {Morning, Evening, Foreign}
MCFirstCards == {1}
=============================================================================
