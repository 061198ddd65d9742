------------------------- MODULE MCAccountLifecycle -------------------------
(* Small instances of AccountLifecycle. *)
EXTENDS AccountLifecycle, TLC

Symmetry == Permutations(Tasks)
============================================================================
