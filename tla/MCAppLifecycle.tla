--------------------------- MODULE MCAppLifecycle ---------------------------
(* Small instances of AppLifecycle for TLC: definitions a, b and c, each    *)
(* with an executable of its own.                                           *)
EXTENDS AppLifecycle, TLC

CONSTANTS a, b, c

MCMaxRestarts   == [d \in Defs |-> 1]  \* one crash-restart, then give up
MCCmdOf         == [d \in Defs |-> d]

\* Sound for the runs without liveness.
Symmetry == Permutations(Procs) \cup Permutations(RestartStates) \cup Permutations(Goroutines)

-----------------------------------------------------------------------------
(* The runs about what follows an installation begin after it, with every   *)
(* input still to spend: a is on the hub, synced, approved, and stopped.    *)
Installed ==
  /\ hub = [hash |-> a, desired |-> "stopped", approval |-> "approved"]
  /\ registering = {} /\ agent = "up"
  /\ app = [hash |-> a, approval |-> "approved", desired |-> "stopped", lastPid |-> None]
  /\ preApproved = [d \in Defs |-> 0] /\ consented = {a}
  /\ current = None /\ started = FALSE /\ watched = [p \in Procs |-> FALSE]
  /\ restarts = None
  /\ count = [r \in RestartStates |-> 0] /\ timer = [r \in RestartStates |-> "nil"]
  /\ dockerStatus = "unset" /\ syncing = FALSE
  /\ tree = [p \in Procs |-> None]
  /\ g = [w \in Goroutines |-> Idle]
  /\ inputs = 0

InstalledSpec     == Installed /\ [][Next]_vars
InstalledFairSpec == InstalledSpec /\ DaemonFairness
=============================================================================
