---------------------------- MODULE AppLifecycle ----------------------------
(***************************************************************************)
(* The life of one app on one host: the agent daemon's bookkeeping of it   *)
(* (agent/internal/daemon), the process trees it spawns                    *)
(* (agent/internal/supervisor), and the hub row, host decisions and        *)
(* commands that drive it.                                                 *)
(*                                                                         *)
(* Every goroutine of the daemon that touches the app is an element of     *)
(* Goroutines; a step is one critical section of d.mu or one call that     *)
(* leaves the process (spawning, signalling, the container engine), so all *)
(* the interleavings the code allows between two critical sections are     *)
(* behaviours of this module.  The daemon keys all of this state by app    *)
(* ID, so apps do not meet except in preApproved.                          *)
(***************************************************************************)
EXTENDS Naturals, FiniteSets

CONSTANTS
  Defs,           \* app definitions, each identified with its hash
  ContainerDefs,  \* those whose kind is docker or compose
  MaxRestarts,    \* policyFor(def).maxRestarts, per definition
  CmdOf,          \* the executable a process definition names
  Procs,          \* process trees (a pid is not reused while it is remembered)
  RestartStates,  \* restartState objects on the heap
  Goroutines,     \* goroutines that may be working on the app at once
  Uptimes,        \* whether a run may (TRUE) or may not (FALSE) reach min_uptime
  GrandchildrenLinger, \* whether descendants may outlive the root process
  Faults,         \* which external calls may fail
  CountCap,       \* bound: a crash counter saturates here, above every MaxRestarts
  MaxImports,     \* bound: pending local imports of one definition
  MaxInputs,      \* bound: hub edits, commands, host decisions and agent crashes
  None,           \* "nil": no app, no process, no definition
  Removed         \* the hub deleted the row; its ID is never used again

ASSUME ContainerAssumption == ContainerDefs \subseteq Defs
ASSUME PolicyAssumption    == /\ MaxRestarts \in [Defs -> Nat]
                              /\ CountCap \in Nat
                              /\ \A d \in Defs : MaxRestarts[d] < CountCap
ASSUME BoundAssumption     == MaxImports \in Nat /\ MaxInputs \in Nat
ASSUME SwitchAssumption    == /\ Uptimes \subseteq BOOLEAN
                              /\ GrandchildrenLinger \in BOOLEAN
                              /\ Faults \subseteq {"spawn", "kill", "engine"}
ASSUME NoneAssumption      == /\ None \notin Defs
                              /\ None \notin Procs
                              /\ None \notin RestartStates
                              /\ None \notin [def : Defs, root : BOOLEAN]

Approvals == {"pending", "approved", "rejected"}
Desired   == {"running", "stopped"}
Verbs     == {"start", "stop", "restart"}
Labels    == {"idle", "gate", "persist", "check", "spawn", "record", "engineStart",
              "cancel", "take", "kill", "clearPid", "engineStop",
              "exitRead", "count", "arm", "timerCheck"}
Roles     == Verbs \cup {"none", "timer", "exit", "boot", "forget"}

VARIABLES
  hub,          \* the app's row on the hub: definition, desired state, approval
  registering,  \* definitions whose app_register is on its way to the hub
  agent,        \* "down", "boot" (Run before its loops start) or "up"
  app,          \* d.state.Apps[id], also what state.json holds
  preApproved,  \* d.preApproved: pending imports, per hash
  consented,    \* history: hashes the host approved or imported, ever
  current,      \* d.procs[id]
  started,      \* d.startTimes[id] is set
  restarts,     \* d.restarts[id]: the restartState object, or None
  count,        \* restartState.count
  timer,        \* restartState.timer: nil, armed, or fired and still non-nil
  dockerStatus, \* d.dockerStatus[id]
  syncing,      \* consume() is between applyAppSync and reconcile
  tree,         \* per process tree: None when gone, else what runs in it
  watched,      \* the watcher goroutine of the tree still waits for Done
  g,            \* goroutines: program counter and locals
  inputs        \* how many inputs the environment has given

outside     == <<hub, registering, agent, consented, inputs>>  \* moved by no goroutine of the app
restartVars == <<restarts, count, timer>>
procVars    == <<current, started, watched>>
vars == <<outside, app, preApproved, procVars, restartVars, dockerStatus, syncing, tree, g>>

AppStates  == [hash : Defs, approval : Approvals, desired : Desired,
               lastPid : Procs \cup {None}]
HubRows    == [hash : Defs, desired : Desired, approval : Approvals]
Trees      == [def : Defs, root : BOOLEAN]
GoroutineStates ==
  [pc : Labels, role : Roles, cmd : Defs \cup {None}, snap : Defs \cup {None},
   held : Procs \cup {None}, rs : RestartStates \cup {None}, long : BOOLEAN]

(* The daemon's tables, goroutine locals and files hold what the code's     *)
(* types and its use of them allow: a verb is never stored as a state, a   *)
(* counter never passes its cap, a pid on record is one that was spawned.  *)
TypeOK ==
  /\ hub \in HubRows \cup {None, Removed}
  /\ registering \subseteq Defs
  /\ agent \in {"down", "boot", "up"}
  /\ app \in AppStates \cup {None}
  /\ preApproved \in [Defs -> 0..MaxImports]
  /\ consented \subseteq Defs
  /\ current \in Procs \cup {None}
  /\ started \in BOOLEAN
  /\ restarts \in RestartStates \cup {None}
  /\ count \in [RestartStates -> 0..CountCap]
  /\ timer \in [RestartStates -> {"nil", "armed", "fired"}]
  /\ dockerStatus \in {"unset", "running", "notRunning"}
  /\ syncing \in BOOLEAN
  /\ tree \in [Procs -> Trees \cup {None}]
  /\ watched \in [Procs -> BOOLEAN]
  /\ g \in [Goroutines -> GoroutineStates]
  /\ inputs \in 0..MaxInputs

-----------------------------------------------------------------------------
(* Goroutines: starting one, moving one on, ending one.                    *)

Idle == [pc |-> "idle", role |-> "none", cmd |-> None, snap |-> None,
         held |-> None, rs |-> None, long |-> FALSE]

At(w, label)   == g[w].pc = label
Become(w, e)   == g' = [g EXCEPT ![w] = e]
GoTo(w, label) == Become(w, [g[w] EXCEPT !.pc = label])
Finish(w)      == Become(w, Idle)

\* `go f()`: an idle slot begins at label with the given role and process.
Go(role, label, p) ==
  \E w \in Goroutines :
    /\ At(w, "idle")
    /\ Become(w, [Idle EXCEPT !.pc = label, !.role = role, !.held = p])

OnHub == hub # None /\ hub # Removed

IsDockerKind(d) == d \in ContainerDefs

\* The daemon's copy of the app has this hash; it is container-backed.
Known(d)     == app # None /\ app.hash = d
ContainerApp == app # None /\ IsDockerKind(app.hash)

\* Proc.Alive: any process of the tree, root or grandchild.
Alive(p) == p # None /\ tree[p] # None

Wanted(a) == a # None /\ a.desired = "running" /\ a.approval = "approved"

\* A tree that nothing in the daemon or on disk refers to any more.
FreeProc(p) ==
  /\ tree[p] = None /\ ~watched[p] /\ current # p
  /\ app # None => app.lastPid # p
  /\ \A w \in Goroutines : g[w].held # p

FreeRestartState(r) ==
  /\ restarts # r /\ timer[r] # "armed"
  /\ \A w \in Goroutines : g[w].rs # r

-----------------------------------------------------------------------------
(* Process trees: what the operating system does by itself.                *)

\* The root process exits; its grandchildren may linger in the group.
RootExit(p) ==
  /\ tree[p] # None /\ tree[p].root
  /\ \/ tree' = [tree EXCEPT ![p] = None]
     \/ GrandchildrenLinger /\ tree' = [tree EXCEPT ![p].root = FALSE]
  /\ UNCHANGED <<outside, app, preApproved, procVars, restartVars, dockerStatus, syncing, g>>

\* The last grandchild of a rootless tree exits.
LingerExit(p) ==
  /\ tree[p] # None /\ ~tree[p].root
  /\ tree' = [tree EXCEPT ![p] = None]
  /\ UNCHANGED <<outside, app, preApproved, procVars, restartVars, dockerStatus, syncing, g>>

-----------------------------------------------------------------------------
(* startApp.                                                               *)

\* startApp returns an error: only the timer callback reacts, as to a crash.
StartFails(w) == IF g[w].role = "timer" THEN GoTo(w, "exitRead") ELSE Finish(w)

\* MUTANT: the approval of the snapshot is not looked at.
CheckAnyApproval(w) ==
  /\ At(w, "check")
  /\ \/ app = None /\ StartFails(w)
     \/ app # None /\ Alive(current) /\ Finish(w)
     \/ /\ app # None /\ ~Alive(current)
        /\ Become(w, [g[w] EXCEPT !.snap = app.hash,
                         !.pc = IF IsDockerKind(app.hash) THEN "engineStart" ELSE "spawn"])
  /\ UNCHANGED <<outside, app, preApproved, procVars, restartVars, dockerStatus, syncing, tree>>

\* Read the app under the lock and decide; the snapshot outlives the unlock.
Check(w) ==
  /\ At(w, "check")
  /\ \/ app = None /\ StartFails(w)
     \/ app # None /\ Alive(current) /\ Finish(w)
     \/ app # None /\ ~Alive(current) /\ app.approval # "approved" /\ StartFails(w)
     \/ /\ app # None /\ ~Alive(current) /\ app.approval = "approved"
        /\ Become(w, [g[w] EXCEPT !.snap = app.hash,
                         !.pc = IF IsDockerKind(app.hash) THEN "engineStart" ELSE "spawn"])
  /\ UNCHANGED <<outside, app, preApproved, procVars, restartVars, dockerStatus, syncing, tree>>

\* supervisor.StartProc on the snapshot, outside the lock.
Spawn(w) ==
  /\ At(w, "spawn")
  /\ \E p \in Procs :
       /\ FreeProc(p)
       /\ tree' = [tree EXCEPT ![p] = [def |-> g[w].snap, root |-> TRUE]]
       /\ Become(w, [g[w] EXCEPT !.pc = "record", !.held = p])
  /\ UNCHANGED <<outside, app, preApproved, procVars, restartVars, dockerStatus, syncing>>

SpawnFails(w) ==
  /\ At(w, "spawn") /\ "spawn" \in Faults
  /\ StartFails(w)
  /\ UNCHANGED <<outside, app, preApproved, procVars, restartVars, dockerStatus, syncing, tree>>

\* Publish the process, remember its pid on disk, start its watcher.
Record(w) ==
  /\ At(w, "record")
  /\ current' = g[w].held
  /\ started' = TRUE
  /\ watched' = [watched EXCEPT ![g[w].held] = TRUE]
  /\ app' = IF app = None THEN None ELSE [app EXCEPT !.lastPid = g[w].held]
  /\ Finish(w)
  /\ UNCHANGED <<outside, preApproved, restartVars, dockerStatus, syncing, tree>>

\* startDockerApp: the engine starts the container, or reports an error.
EngineStart(w) ==
  /\ At(w, "engineStart")
  /\ \/ dockerStatus' = "running" /\ Finish(w)
     \/ "engine" \in Faults /\ StartFails(w) /\ UNCHANGED dockerStatus
  /\ UNCHANGED <<outside, app, preApproved, procVars, restartVars, syncing, tree>>

-----------------------------------------------------------------------------
(* stopApp.                                                                *)

\* delete(d.restarts, id) with its pending timer; the count goes with it.
DropRestartState ==
  /\ restarts' = None
  /\ IF restarts = None THEN UNCHANGED <<count, timer>>
     ELSE /\ count' = [count EXCEPT ![restarts] = 0]
          /\ timer' = [timer EXCEPT ![restarts] = "nil"]

\* stopApp returns nil: a restart goes on to start.
StopSucceeds(w) ==
  Become(w, IF g[w].role = "restart"
              THEN [g[w] EXCEPT !.pc = "check", !.held = None] ELSE Idle)

Cancel(w) ==
  /\ At(w, "cancel")
  /\ DropRestartState
  /\ GoTo(w, "take")
  /\ UNCHANGED <<outside, app, preApproved, procVars, dockerStatus, syncing, tree>>

\* Take the process out of the table; from here its exit is not a crash.
Take(w) ==
  /\ At(w, "take")
  /\ current' = None /\ started' = FALSE
  /\ \/ ContainerApp /\ GoTo(w, "engineStop")
     \/ ~ContainerApp /\ current = None /\ StopSucceeds(w)
     \/ /\ ~ContainerApp /\ current # None
        /\ Become(w, [g[w] EXCEPT !.pc = "kill", !.held = current])
  /\ UNCHANGED <<outside, app, preApproved, watched, restartVars, dockerStatus, syncing, tree>>

\* Proc.Stop returned nil: the whole tree is gone.
Kill(w) ==
  /\ At(w, "kill")
  /\ tree' = [tree EXCEPT ![g[w].held] = None]
  /\ IF g[w].role = "forget" THEN Finish(w) ELSE GoTo(w, "clearPid")
  /\ UNCHANGED <<outside, app, preApproved, procVars, restartVars, dockerStatus, syncing>>

\* Proc.Stop failed (the signal was refused, the tree survived SIGKILL).
KillFails(w) ==
  /\ At(w, "kill") /\ "kill" \in Faults /\ tree[g[w].held] # None
  /\ Finish(w)
  /\ UNCHANGED <<outside, app, preApproved, procVars, restartVars, dockerStatus, syncing, tree>>

\* Forget whatever pid is on record now.
ClearPid(w) ==
  /\ At(w, "clearPid")
  /\ app' = IF app = None THEN None ELSE [app EXCEPT !.lastPid = None]
  /\ StopSucceeds(w)
  /\ UNCHANGED <<outside, preApproved, procVars, restartVars, dockerStatus, syncing, tree>>

\* stopDockerApp.
EngineStop(w) ==
  /\ At(w, "engineStop")
  /\ \/ dockerStatus' = "notRunning" /\ StopSucceeds(w)
     \/ "engine" \in Faults /\ Finish(w) /\ UNCHANGED dockerStatus
  /\ UNCHANGED <<outside, app, preApproved, procVars, restartVars, syncing, tree>>

-----------------------------------------------------------------------------
(* Exits, crash-restart and its timer.                                     *)

\* MUTANT: every exit counts, also of a process that stopApp has taken.
WatcherWakesAlways(p) ==
  /\ watched[p]
  /\ tree[p] # None => ~tree[p].root
  /\ watched' = [watched EXCEPT ![p] = FALSE]
  /\ current' = IF current = p THEN None ELSE current
  /\ Go("exit", "exitRead", p)
  /\ UNCHANGED <<outside, app, preApproved, started, restartVars, dockerStatus, syncing, tree>>

\* MUTANT: the dead process is left in the table.
WatcherWakesLeavesEntry(p) ==
  /\ watched[p]
  /\ tree[p] # None => ~tree[p].root
  /\ watched' = [watched EXCEPT ![p] = FALSE]
  /\ IF current = p THEN Go("exit", "exitRead", None) ELSE UNCHANGED g
  /\ UNCHANGED <<outside, app, preApproved, current, started, restartVars, dockerStatus, syncing, tree>>

\* The watcher sees Done: only the process still in the table counts.
WatcherWakes(p) ==
  /\ watched[p]
  /\ tree[p] # None => ~tree[p].root
  /\ watched' = [watched EXCEPT ![p] = FALSE]
  /\ \/ current = p /\ current' = None /\ Go("exit", "exitRead", p)
     \/ current # p /\ UNCHANGED <<current, g>>
  /\ UNCHANGED <<outside, app, preApproved, started, restartVars, dockerStatus, syncing, tree>>

\* handleUnexpectedExit, first critical section and the policy on its snapshot.
ExitRead(w) ==
  /\ At(w, "exitRead")
  /\ started' = FALSE
  /\ \/ ~(Wanted(app) /\ MaxRestarts[app.hash] > 0) /\ Finish(w)
     \/ /\ Wanted(app) /\ MaxRestarts[app.hash] > 0
        /\ \E long \in IF started THEN Uptimes ELSE {FALSE} :
             Become(w, [g[w] EXCEPT !.pc = "count", !.snap = app.hash, !.long = long])
  /\ UNCHANGED <<outside, app, preApproved, current, watched, restartVars, dockerStatus, syncing, tree>>

\* MUTANT: the counter is never compared with max_restarts.
CountForever(w) ==
  /\ At(w, "count")
  /\ \E r \in IF restarts = None THEN {x \in RestartStates : FreeRestartState(x)} ELSE {restarts} :
       LET base == IF restarts = None \/ g[w].long THEN 0 ELSE count[r]
           n    == IF base < CountCap THEN base + 1 ELSE base
       IN  /\ restarts' = r
           /\ count' = [count EXCEPT ![r] = n]
           /\ timer' = IF restarts = None THEN [timer EXCEPT ![r] = "nil"] ELSE timer
           /\ Become(w, [g[w] EXCEPT !.pc = "arm", !.rs = r])
  /\ UNCHANGED <<outside, app, preApproved, procVars, dockerStatus, syncing, tree>>

\* Second critical section: count the crash, give up past max_restarts.
Count(w) ==
  /\ At(w, "count")
  /\ \E r \in IF restarts = None THEN {x \in RestartStates : FreeRestartState(x)} ELSE {restarts} :
       LET base == IF restarts = None \/ g[w].long THEN 0 ELSE count[r]
           n    == IF base < CountCap THEN base + 1 ELSE base
       IN  /\ restarts' = r
           /\ count' = [count EXCEPT ![r] = n]
           /\ timer' = IF restarts = None THEN [timer EXCEPT ![r] = "nil"] ELSE timer
           /\ \/ n > MaxRestarts[g[w].snap] /\ Finish(w)
              \/ /\ n <= MaxRestarts[g[w].snap]
                 /\ Become(w, [g[w] EXCEPT !.pc = "arm", !.rs = r])
  /\ UNCHANGED <<outside, app, preApproved, procVars, dockerStatus, syncing, tree>>

\* Third critical section: replace the pending timer, if any.
Arm(w) ==
  /\ At(w, "arm")
  /\ timer' = [timer EXCEPT ![g[w].rs] = "armed"]
  /\ Finish(w)
  /\ UNCHANGED <<outside, app, preApproved, procVars, restarts, count, dockerStatus, syncing, tree>>

\* The backoff delay elapses.  The field keeps pointing at the fired timer.
Fire(r) ==
  /\ timer[r] = "armed"
  /\ timer' = [timer EXCEPT ![r] = "fired"]
  /\ Go("timer", "timerCheck", None)
  /\ UNCHANGED <<outside, app, preApproved, procVars, restarts, count, dockerStatus, syncing, tree>>

TimerCheck(w) ==
  /\ At(w, "timerCheck")
  /\ IF Wanted(app) THEN GoTo(w, "check") ELSE Finish(w)
  /\ UNCHANGED <<outside, app, preApproved, procVars, restartVars, dockerStatus, syncing, tree>>

-----------------------------------------------------------------------------
(* app_sync: applyAppSync, then reconcile, both on the consume goroutine.   *)

\* A sync that carries the hash the agent already has.
SyncKeeps ==
  /\ OnHub /\ Known(hub.hash)
  /\ app' = [app EXCEPT !.desired = hub.desired]
  /\ UNCHANGED <<preApproved, current, restartVars, g>>

\* MUTANT: a changed definition inherits the approval of the one it replaces.
SyncAdoptsApproval ==
  /\ OnHub /\ ~Known(hub.hash)
  /\ app' = [hash     |-> hub.hash,
             approval |-> IF app # None THEN app.approval
                          ELSE IF IsDockerKind(hub.hash) THEN "approved" ELSE "pending",
             desired  |-> hub.desired,
             lastPid  |-> None]
  /\ UNCHANGED <<preApproved, current, restartVars, g>>

\* A new app or a changed definition: approval starts over.
SyncAdopts ==
  /\ OnHub /\ ~Known(hub.hash)
  /\ LET imported == preApproved[hub.hash] > 0 IN
       /\ preApproved' = [preApproved EXCEPT ![hub.hash] = IF imported THEN @ - 1 ELSE @]
       /\ app' = [hash     |-> hub.hash,
                  approval |-> IF imported \/ IsDockerKind(hub.hash) THEN "approved" ELSE "pending",
                  desired  |-> hub.desired,
                  lastPid  |-> None]
  /\ UNCHANGED <<current, restartVars, g>>

\* The app was removed on the hub: stop and forget.
SyncForgets ==
  /\ ~OnHub /\ app # None
  /\ app' = None /\ current' = None
  /\ DropRestartState
  /\ IF current = None THEN UNCHANGED g ELSE Go("forget", "kill", current)
  /\ UNCHANGED preApproved

ApplyAppSync ==
  /\ agent = "up" /\ ~syncing
  /\ syncing' = TRUE
  /\ \/ SyncKeeps
     \/ SyncAdopts
     \/ SyncForgets
     \/ ~OnHub /\ app = None /\ UNCHANGED <<app, preApproved, current, restartVars, g>>
  /\ UNCHANGED <<outside, started, watched, dockerStatus, tree>>

Running == IF IsDockerKind(app.hash) THEN dockerStatus = "running" ELSE Alive(current)

\* MUTANT: reconcile starts what is missing but stops nothing.
ReconcileStarts ==
  /\ agent = "up" /\ syncing
  /\ syncing' = FALSE
  /\ LET starts == /\ Wanted(app) /\ ~Running
                   /\ restarts # None => timer[restarts] = "nil"
     IN  IF starts THEN Go("start", "check", None) ELSE UNCHANGED g
  /\ UNCHANGED <<outside, app, preApproved, procVars, restartVars, dockerStatus, tree>>

\* Never start while restartState.timer is set: a backoff may be in flight.
Reconcile ==
  /\ agent = "up" /\ syncing
  /\ syncing' = FALSE
  /\ LET approved == app # None /\ app.approval = "approved"
         starts   == /\ approved /\ app.desired = "running" /\ ~Running
                     /\ restarts # None => timer[restarts] = "nil"
         stops    == approved /\ app.desired = "stopped" /\ Running
     IN  \/ starts /\ Go("start", "check", None)
         \/ stops /\ Go("stop", "cancel", None)
         \/ ~starts /\ ~stops /\ UNCHANGED g
  /\ UNCHANGED <<outside, app, preApproved, procVars, restartVars, dockerStatus, tree>>

-----------------------------------------------------------------------------
(* execute: one hub command, on a goroutine of its own.                    *)

\* Unknown app, stale hash or no approval: refused.
Gate(w) ==
  /\ At(w, "gate")
  /\ IF Known(g[w].cmd) /\ app.approval = "approved"
       THEN GoTo(w, "persist") ELSE Finish(w)
  /\ UNCHANGED <<outside, app, preApproved, procVars, restartVars, dockerStatus, syncing, tree>>

\* MUTANT: the verb is stored where the desired state belongs.
PersistVerb(w) ==
  /\ At(w, "persist")
  /\ app' = IF app = None THEN None ELSE [app EXCEPT !.desired = g[w].role]
  /\ GoTo(w, IF g[w].role = "start" THEN "check" ELSE "cancel")
  /\ UNCHANGED <<outside, preApproved, procVars, restartVars, dockerStatus, syncing, tree>>

PersistDesired(w) ==
  /\ At(w, "persist")
  /\ app' = IF app = None THEN None
            ELSE [app EXCEPT !.desired = IF g[w].role = "stop" THEN "stopped" ELSE "running"]
  /\ GoTo(w, IF g[w].role = "start" THEN "check" ELSE "cancel")
  /\ UNCHANGED <<outside, preApproved, procVars, restartVars, dockerStatus, syncing, tree>>

-----------------------------------------------------------------------------
(* Boot and crash of the agent.                                            *)

\* Run up to its loops: reap the tree on record, forget it, then resurrect.
\* ReapOrphan kills only a live root whose executable is the definition's.
Boot ==
  /\ agent = "down" /\ agent' = "boot"
  /\ LET process == app # None /\ ~IsDockerKind(app.hash)
         reaps   == /\ process /\ app.lastPid # None
                    /\ tree[app.lastPid] # None /\ tree[app.lastPid].root
                    /\ CmdOf[tree[app.lastPid].def] = CmdOf[app.hash]
     IN  /\ app'  = IF process THEN [app EXCEPT !.lastPid = None] ELSE app
         /\ tree' = IF reaps THEN [tree EXCEPT ![app.lastPid] = None] ELSE tree
  /\ IF Wanted(app) THEN Go("boot", "check", None) ELSE UNCHANGED g
  /\ UNCHANGED <<hub, registering, consented, inputs, preApproved, procVars, restartVars, dockerStatus, syncing>>

BootDone ==
  /\ agent = "boot" /\ \A w \in Goroutines : g[w].role # "boot"
  /\ agent' = "up"
  /\ UNCHANGED <<hub, registering, consented, inputs, app, preApproved, procVars, restartVars,
                 dockerStatus, syncing, tree, g>>

\* The daemon dies; its children and state.json survive (unix).
Crash ==
  /\ agent # "down" /\ agent' = "down"
  /\ inputs < MaxInputs /\ inputs' = inputs + 1
  /\ preApproved' = [d \in Defs |-> 0]
  /\ current' = None /\ started' = FALSE /\ watched' = [p \in Procs |-> FALSE]
  /\ restarts' = None
  /\ count' = [r \in RestartStates |-> 0] /\ timer' = [r \in RestartStates |-> "nil"]
  /\ dockerStatus' = "unset" /\ syncing' = FALSE
  /\ g' = [w \in Goroutines |-> Idle]
  /\ UNCHANGED <<hub, registering, consented, app, tree>>

-----------------------------------------------------------------------------
(* What the hub, its users and the host's CLI do.                          *)

Input == inputs < MaxInputs /\ inputs' = inputs + 1

\* The dashboard creates the app, or replaces its definition: a definition
\* with another hash is pending again.
HubEdits(d) ==
  /\ Input
  /\ hub # Removed
  /\ hub' = [hash     |-> d,
             desired  |-> IF hub = None THEN "stopped" ELSE hub.desired,
             approval |-> IF hub # None /\ hub.hash = d THEN hub.approval ELSE "pending"]
  /\ UNCHANGED <<registering, agent, consented, app, preApproved, procVars, restartVars,
                 dockerStatus, syncing, tree, g>>

HubRemoves ==
  /\ Input
  /\ OnHub /\ hub' = Removed
  /\ UNCHANGED <<registering, agent, consented, app, preApproved, procVars, restartVars,
                 dockerStatus, syncing, tree, g>>

\* An app_register arrives: a definition the system does not have yet becomes
\* an approved row.  (Beside another definition it is another app's row.)
HubRegisters(d) ==
  /\ d \in registering
  /\ registering' = registering \ {d}
  /\ hub' = IF hub = None THEN [hash |-> d, desired |-> "stopped", approval |-> "approved"] ELSE hub
  /\ UNCHANGED <<agent, consented, inputs, app, preApproved, procVars, restartVars,
                 dockerStatus, syncing, tree, g>>

\* An approval_event arrives: the row takes over what the agent decided about
\* the definition it carries; any other is stale and ignored.
HubHearsApproval ==
  /\ OnHub /\ Known(hub.hash)
  /\ hub' = [hub EXCEPT !.approval = app.approval]
  /\ UNCHANGED <<registering, agent, consented, inputs, app, preApproved, procVars, restartVars,
                 dockerStatus, syncing, tree, g>>

\* A command request for an app whose row is approved: start and stop move the
\* row's desired state; the frame reaches the agent between two syncs, or never.
HubCommands(verb) ==
  /\ Input
  /\ OnHub /\ hub.approval = "approved"
  /\ hub' = [hub EXCEPT !.desired = CASE verb = "start" -> "running"
                                      [] verb = "stop"  -> "stopped"
                                      [] OTHER          -> @]
  /\ \/ /\ agent = "up" /\ ~syncing
        /\ \E w \in Goroutines :
             /\ At(w, "idle")
             /\ Become(w, [Idle EXCEPT !.pc = "gate", !.role = verb, !.cmd = hub.hash])
     \/ UNCHANGED g
  /\ UNCHANGED <<registering, agent, consented, app, preApproved, procVars, restartVars,
                 dockerStatus, syncing, tree>>

\* `breakerbox-agent apps approve | reject`, as the spool loop applies it.
HostDecides(approval) ==
  /\ Input
  /\ agent = "up" /\ app # None
  /\ app' = [app EXCEPT !.approval = approval]
  /\ consented' = IF approval = "approved" THEN consented \cup {app.hash} ELSE consented
  /\ UNCHANGED <<hub, registering, agent, preApproved, procVars, restartVars, dockerStatus, syncing, tree, g>>

\* `breakerbox-agent apps import`: the import is the approval, and asks the hub
\* to register the definition.
HostImports(d) ==
  /\ Input
  /\ agent = "up" /\ preApproved[d] < MaxImports
  /\ preApproved' = [preApproved EXCEPT ![d] = @ + 1]
  /\ consented' = consented \cup {d}
  /\ registering' = registering \cup {d}
  /\ UNCHANGED <<hub, agent, app, procVars, restartVars, dockerStatus, syncing, tree, g>>

\* dockerLoop publishes what the engine last reported for a container app.
PollDocker ==
  /\ agent = "up" /\ ContainerApp
  /\ dockerStatus' \in {"running", "notRunning"}
  /\ UNCHANGED <<outside, app, preApproved, procVars, restartVars, syncing, tree, g>>

-----------------------------------------------------------------------------
Init ==
  /\ hub = None /\ registering = {} /\ agent = "down" /\ app = None
  /\ preApproved = [d \in Defs |-> 0] /\ consented = {}
  /\ current = None /\ started = FALSE /\ watched = [p \in Procs |-> FALSE]
  /\ restarts = None
  /\ count = [r \in RestartStates |-> 0] /\ timer = [r \in RestartStates |-> "nil"]
  /\ dockerStatus = "unset" /\ syncing = FALSE
  /\ tree = [p \in Procs |-> None]
  /\ g = [w \in Goroutines |-> Idle]
  /\ inputs = 0

\* What the daemon's goroutine w does next.
GoroutineStep(w) ==
  \/ Check(w) \/ Spawn(w) \/ SpawnFails(w) \/ Record(w) \/ EngineStart(w)
  \/ Cancel(w) \/ Take(w) \/ Kill(w) \/ KillFails(w) \/ ClearPid(w) \/ EngineStop(w)
  \/ ExitRead(w) \/ Count(w) \/ Arm(w) \/ TimerCheck(w)
  \/ Gate(w) \/ PersistDesired(w)

DaemonStep ==
  \/ \E w \in Goroutines : GoroutineStep(w)
  \/ \E p \in Procs : WatcherWakes(p)
  \/ \E r \in RestartStates : Fire(r)
  \/ ApplyAppSync \/ Reconcile \/ Boot \/ BootDone \/ PollDocker

Environment ==
  \/ \E p \in Procs : RootExit(p) \/ LingerExit(p)
  \/ \E d \in Defs : HubEdits(d) \/ HubRegisters(d) \/ HostImports(d)
  \/ HubRemoves \/ HubHearsApproval
  \/ \E verb \in Verbs : HubCommands(verb)
  \/ \E approval \in {"approved", "rejected"} : HostDecides(approval)
  \/ Crash

Next == DaemonStep \/ Environment

Spec == Init /\ [][Next]_vars

\* Goroutines run, timers fire, a dead process is noticed, a booting agent
\* comes up.  Strong fairness where the model's Goroutines bound the code's
\* unbounded goroutines, so that a full table only delays.
DaemonFairness ==
  /\ \A w \in Goroutines : WF_vars(GoroutineStep(w))
  /\ \A p \in Procs : SF_vars(WatcherWakes(p))
  /\ \A r \in RestartStates : SF_vars(Fire(r))
  /\ SF_vars(Reconcile) /\ WF_vars(Boot) /\ WF_vars(BootDone)

FairSpec == Spec /\ DaemonFairness

-----------------------------------------------------------------------------
(* Safety.                                                                 *)

(* SECURITY.md: an agent does not execute a definition whose hash was not  *)
(* approved on the host.  Whatever the hub syncs or commands, and however  *)
(* approvals, syncs, crashes and restarts interleave with a startApp that  *)
(* is already past its check, every tree on the host runs a process        *)
(* definition that the host once approved or imported.                     *)
RunsOnlyConsented ==
  \A p \in Procs : tree[p] # None => tree[p].def \in consented \ ContainerDefs

\* What the host sees: the definition that each process tree runs.
RunningDefs == [p \in Procs |-> IF tree[p] = None THEN None ELSE tree[p].def]

(* The same promise as a specification of its own: each step of the agent  *)
(* allows a definition, starts an allowed one, ends one, or does nothing   *)
(* the host would notice.                                                  *)
Consent == INSTANCE HostConsent WITH
  Definitions <- Defs, Slots <- Procs, Nothing <- None,
  allowed <- consented,
  running <- RunningDefs

ImplementsConsent == Consent!Spec

(* A process handle has one owner: the process table, or the one goroutine *)
(* that has spawned it, stops it, or handles its exit.  So startApp's      *)
(* watcher and stopApp never both handle one exit: a stop is never taken   *)
(* for a crash, and no crash is counted twice.                             *)
OneOwner ==
  /\ \A w \in Goroutines : g[w].held # None => g[w].held # current
  /\ \A v, w \in Goroutines : g[v].held = g[w].held /\ g[v].held # None => v = w

(* The process in the table has a watcher that has not woken yet, so the   *)
(* daemon cannot miss its exit, whoever published or replaced it.          *)
TableIsWatched == current # None => watched[current]

-----------------------------------------------------------------------------
(* Liveness.                                                               *)

(* restart.go gives up past max_restarts: an app that always dies before   *)
(* min_uptime is spawned only finitely often, once app_syncs cease.        *)
CrashLoopEnds ==
  <>[]~syncing => <>[][\A w \in Goroutines : ~Spawn(w)]_vars

(* reconcile heals a stop the agent missed: while app_syncs keep coming,   *)
(* the process in the table of an approved app whose row says stopped is   *)
(* in the end dead, whatever starts, timers and exits were in flight.  A   *)
(* tree that a second concurrent start has overwritten in the table        *)
(* (startApp checks and records in different critical sections) is not     *)
(* meant: no stop finds it, and it runs on until it ends by itself.        *)
StopConverges ==
  []<>syncing =>
  <>[](OnHub /\ Known(hub.hash) /\ app.approval = "approved" /\ hub.desired = "stopped"
         => ~Alive(current))

=============================================================================
