------------------------- MODULE MCStrengthHistory -------------------------
(* Three answers from each baseline the migration writes: enough to climb   *)
(* from 2 past the ceilings 3 (MATCH) and 4 (TEST) to 5.                    *)
EXTENDS StrengthHistory

MCBaselines == {0, 2, 5}
MCTimes == 1 .. 3
=============================================================================
