----------------------------- MODULE MCProgress -----------------------------
(* Small instances of Progress. *)
EXTENDS Progress, TLC

Symmetry == Permutations(Requests)
============================================================================
