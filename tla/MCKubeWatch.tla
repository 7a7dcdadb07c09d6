----------------------------- MODULE MCKubeWatch -----------------------------
(* KubeWatch for TLC: objects are interchangeable. *)
EXTENDS KubeWatch, TLC

Symmetry == Permutations(Uids)
=============================================================================
