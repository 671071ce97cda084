------------------------- MODULE MCEvaluationService -------------------------
(* Three input pairs, two of which come to the same evaluation. *)
EXTENDS EvaluationService

MCEvaluationOf == [k \in Keys |-> IF k = 3 THEN 1 ELSE k]
=============================================================================
