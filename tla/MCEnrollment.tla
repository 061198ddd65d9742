---------------------------- MODULE MCEnrollment ----------------------------
(* Small instances of Enrollment. *)
EXTENDS Enrollment, TLC

Symmetry == Permutations(Requests)
============================================================================
