------------------------------ MODULE MCBatches ------------------------------
(* Batches for TLC: three objects, the second of another model. *)
EXTENDS Batches

MCItems == <<"a", "b", "c">>
MCModelOf == [o \in {"a", "b", "c"} |-> IF o = "b" THEN "N" ELSE "M"]
=============================================================================
