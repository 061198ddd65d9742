-------------------------- MODULE MCSignInCounters --------------------------
(* Small instances of SignInCounters. *)
EXTENDS SignInCounters, TLC

Symmetry == Permutations(Calls)
============================================================================
