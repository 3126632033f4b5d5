---------------------------- MODULE MCEnrollment ----------------------------
(* The small instance of Enrollment for TLC.                                *)
EXTENDS Enrollment, TLC

CONSTANTS c1, c2, c3, t1, t2

Symmetry == Permutations(Clis) \cup Permutations(Tokens)
=============================================================================
