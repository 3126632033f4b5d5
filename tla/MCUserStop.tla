----------------------------- MODULE MCUserStop -----------------------------
(* The small instance of UserStop for TLC.                                  *)
EXTENDS UserStop, TLC

CONSTANTS a, b, c

MCMaxRestarts == [d \in Defs |-> 1]
MCCmdOf       == [d \in Defs |-> d]

Symmetry == Permutations(Procs) \cup Permutations(RestartStates) \cup Permutations(Goroutines)
=============================================================================
