-------------------------- MODULE MCHostDecisions ---------------------------
(* Instances of HostDecisions for TLC.                                     *)
EXTENDS HostDecisions, TLC

\* Rows, hashes and requests are interchangeable.
Symmetry == Permutations(Apps) \cup Permutations(Hashes) \cup Permutations(Requests)
=============================================================================
