---------------------------- MODULE HostConsent -----------------------------
(***************************************************************************)
(* What the agent promises its host (SECURITY.md, "Host-side approval"):   *)
(* a process definition runs only after the host allowed it, whatever the  *)
(* hub sends.  Nothing here knows of syncs, commands, crashes or restarts; *)
(* AppLifecycle implements it.                                             *)
(***************************************************************************)
CONSTANTS
  Definitions,  \* definitions of processes the host could be asked to run
  Slots,        \* process trees
  Nothing       \* an empty slot

VARIABLES
  allowed,      \* definitions the host approved or imported, ever
  running       \* per slot, the definition whose tree is alive, or Nothing

Init ==
  /\ allowed = {}
  /\ running = [s \in Slots |-> Nothing]

Allow(d) ==
  /\ allowed' = allowed \cup {d}
  /\ UNCHANGED running

Start(s, d) ==
  /\ running[s] = Nothing
  /\ d \in allowed
  /\ running' = [running EXCEPT ![s] = d]
  /\ UNCHANGED allowed

End(s) ==
  /\ running[s] # Nothing
  /\ running' = [running EXCEPT ![s] = Nothing]
  /\ UNCHANGED allowed

Next ==
  \/ \E d \in Definitions : Allow(d)
  \/ \E s \in Slots, d \in Definitions : Start(s, d)
  \/ \E s \in Slots : End(s)

Spec == Init /\ [][Next]_<<allowed, running>>
=============================================================================
