---------------------------- MODULE MCJobProtocol ----------------------------
(* The jobs are interchangeable: only the safety run uses the symmetry. *)
EXTENDS JobProtocol, TLC

Symm == Permutations(Job)
=============================================================================
