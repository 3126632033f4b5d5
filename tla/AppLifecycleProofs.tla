------------------------- MODULE AppLifecycleProofs -------------------------
(***************************************************************************)
(* What AppLifecycle's runs check on small instances, proved for every     *)
(* value of its constants: type correctness, that only consented           *)
(* definitions run, that process handles have one owner and the process    *)
(* table is watched, and that the agent implements HostConsent.            *)
(*                                                                         *)
(* Nearly every action moves one goroutine to a new record with Become, so *)
(* the lemmas of the first part say what Become and its wrappers preserve; *)
(* the lemmas after it go through the actions of Next once per invariant.  *)
(***************************************************************************)
EXTENDS AppLifecycle, TLAPS

-----------------------------------------------------------------------------
(* Type correctness.                                                       *)

\* What a goroutine past startApp's check carries: the definition it will
\* spawn, and then the process it has spawned.
LocalsOK ==
  \A w \in Goroutines : /\ At(w, "spawn") => g[w].snap \in Defs
                        /\ At(w, "record") => g[w].held \in Procs

GoroutinesOK == g \in [Goroutines -> GoroutineStates] /\ LocalsOK

TypeInv == TypeOK /\ LocalsOK

(* A goroutine may become any well-typed record that carries what its      *)
(* label needs.                                                            *)
LEMMA BecomeOK ==
  ASSUME GoroutinesOK, NEW w \in Goroutines, NEW e \in GoroutineStates, Become(w, e),
         e.pc = "spawn" => e.snap \in Defs,
         e.pc = "record" => e.held \in Procs
  PROVE  GoroutinesOK'
BY DEF GoroutinesOK, LocalsOK, Become, At

(* An idle goroutine carries nothing.                                      *)
LEMMA IdleOK == Idle \in GoroutineStates /\ Idle.pc = "idle"
BY DEF Idle, GoroutineStates, Labels, Roles

(* A goroutine may always end.                                             *)
LEMMA FinishOK ==
  ASSUME GoroutinesOK, NEW w \in Goroutines, Finish(w)
  PROVE  GoroutinesOK'
BY BecomeOK, IdleOK DEF Finish

(* Moving on to a label that needs no local keeps the goroutines typed.    *)
LEMMA GoToOK ==
  ASSUME GoroutinesOK, NEW w \in Goroutines, NEW label \in Labels \ {"spawn", "record"},
         GoTo(w, label)
  PROVE  GoroutinesOK'
<1>1. [g[w] EXCEPT !.pc = label] \in GoroutineStates
  BY DEF GoroutinesOK, GoroutineStates
<1>2. [g[w] EXCEPT !.pc = label].pc = label
  BY DEF GoroutinesOK, GoroutineStates
<1>3. QED BY <1>1, <1>2, BecomeOK DEF GoTo

(* So does `go f()`, starting an idle goroutine at such a label.           *)
LEMMA GoOK ==
  ASSUME GoroutinesOK, NEW role \in Roles, NEW label \in Labels \ {"spawn", "record"},
         NEW p \in Procs \cup {None}, Go(role, label, p)
  PROVE  GoroutinesOK'
<1>1. PICK w \in Goroutines : Become(w, [Idle EXCEPT !.pc = label, !.role = role, !.held = p])
  BY DEF Go
<1>2. /\ [Idle EXCEPT !.pc = label, !.role = role, !.held = p] \in GoroutineStates
      /\ [Idle EXCEPT !.pc = label, !.role = role, !.held = p].pc = label
  BY DEF Idle, GoroutineStates
<1>3. QED BY <1>1, <1>2, BecomeOK

(* startApp returning an error ends the goroutine, or turns to the exit.   *)
LEMMA StartFailsOK ==
  ASSUME GoroutinesOK, NEW w \in Goroutines, StartFails(w)
  PROVE  GoroutinesOK'
BY FinishOK, GoToOK DEF StartFails, Labels

(* stopApp returning nil ends the goroutine, or restarts the app.          *)
LEMMA StopSucceedsOK ==
  ASSUME GoroutinesOK, NEW w \in Goroutines, StopSucceeds(w)
  PROVE  GoroutinesOK'
<1>1. /\ [g[w] EXCEPT !.pc = "check", !.held = None] \in GoroutineStates
      /\ [g[w] EXCEPT !.pc = "check", !.held = None].pc = "check"
  BY DEF GoroutinesOK, GoroutineStates, Labels
<1>2. QED BY <1>1, BecomeOK, IdleOK DEF StopSucceeds

(* Dropping the restart state leaves its fields typed.                     *)
LEMMA DropRestartStateOK ==
  ASSUME TypeOK, DropRestartState
  PROVE  /\ restarts' \in RestartStates \cup {None}
         /\ count' \in [RestartStates -> 0..CountCap]
         /\ timer' \in [RestartStates -> {"nil", "armed", "fired"}]
<1>1. 0 \in 0..CountCap
  BY PolicyAssumption
<1>2. QED BY <1>1 DEF DropRestartState, TypeOK

(* Every step of a goroutine of the daemon keeps the types.                *)
LEMMA GoroutineStepTypes ==
  ASSUME TypeInv, NEW w \in Goroutines, GoroutineStep(w)
  PROVE  TypeInv'
<1> USE DEF TypeInv, TypeOK, GoroutinesOK, outside, procVars, restartVars
<1>0. GoroutinesOK
  OBVIOUS
<1>1. CASE Check(w)
  <2>1. GoroutinesOK'
    <3>1. CASE app # None /\ app.approval = "approved"
               /\ Become(w, [g[w] EXCEPT !.snap = app.hash,
                         !.pc = IF IsDockerKind(app.hash) THEN "engineStart" ELSE "spawn"])
      <4> DEFINE e == [g[w] EXCEPT !.snap = app.hash,
                         !.pc = IF IsDockerKind(app.hash) THEN "engineStart" ELSE "spawn"]
      <4>1. e \in GoroutineStates /\ e.snap \in Defs /\ e.pc # "record"
        BY <1>0, <3>1 DEF AppStates, GoroutineStates, Labels
      <4>2. QED BY <1>0, <3>1, <4>1, BecomeOK
    <3>2. QED BY <1>0, <1>1, <3>1, StartFailsOK, FinishOK DEF Check
  <2>2. QED BY <1>1, <2>1 DEF Check
<1>2. CASE Spawn(w)
  <2>1. PICK p \in Procs :
          /\ tree' = [tree EXCEPT ![p] = [def |-> g[w].snap, root |-> TRUE]]
          /\ Become(w, [g[w] EXCEPT !.pc = "record", !.held = p])
    BY <1>2 DEF Spawn
  <2>2. GoroutinesOK'
    <3> DEFINE e == [g[w] EXCEPT !.pc = "record", !.held = p]
    <3>1. e \in GoroutineStates /\ e.pc = "record" /\ e.held \in Procs
      BY <1>0 DEF GoroutineStates, Labels
    <3>2. QED BY <1>0, <2>1, <3>1, BecomeOK
  <2>3. tree' \in [Procs -> Trees \cup {None}]
    BY <1>2, <2>1 DEF Spawn, LocalsOK, Trees
  <2>4. QED BY <1>2, <2>2, <2>3 DEF Spawn
<1>3. CASE SpawnFails(w)
  BY <1>0, <1>3, StartFailsOK DEF SpawnFails
<1>4. CASE Record(w)
  <2>1. GoroutinesOK' /\ g[w].held \in Procs
    BY <1>0, <1>4, FinishOK DEF Record, LocalsOK
  <2>2. app' \in AppStates \cup {None}
    BY <1>4, <2>1 DEF Record, AppStates
  <2>3. QED BY <1>4, <2>1, <2>2 DEF Record
<1>5. CASE EngineStart(w)
  <2>1. GoroutinesOK'
    BY <1>0, <1>5, StartFailsOK, FinishOK DEF EngineStart
  <2>2. QED BY <1>5, <2>1 DEF EngineStart
<1>6. CASE Cancel(w)
  <2>1. GoroutinesOK'
    BY <1>0, <1>6, GoToOK DEF Cancel, Labels
  <2>2. QED BY <1>6, <2>1, DropRestartStateOK DEF Cancel
<1>7. CASE Take(w)
  <2>1. GoroutinesOK'
    <3>1. CASE current # None /\ Become(w, [g[w] EXCEPT !.pc = "kill", !.held = current])
      <4> DEFINE e == [g[w] EXCEPT !.pc = "kill", !.held = current]
      <4>1. e \in GoroutineStates /\ e.pc = "kill"
        BY <1>0 DEF GoroutineStates, Labels
      <4>2. QED BY <1>0, <3>1, <4>1, BecomeOK
    <3>2. QED BY <1>0, <1>7, <3>1, GoToOK, StopSucceedsOK DEF Take, Labels
  <2>2. QED BY <1>7, <2>1 DEF Take
<1>8. CASE Kill(w)
  <2>1. GoroutinesOK'
    BY <1>0, <1>8, GoToOK, FinishOK DEF Kill, Labels
  <2>2. QED BY <1>8, <2>1 DEF Kill
<1>9. CASE KillFails(w)
  BY <1>0, <1>9, FinishOK DEF KillFails
<1>10. CASE ClearPid(w)
  <2>1. GoroutinesOK'
    BY <1>0, <1>10, StopSucceedsOK DEF ClearPid
  <2>2. QED BY <1>10, <2>1 DEF ClearPid, AppStates
<1>11. CASE EngineStop(w)
  <2>1. GoroutinesOK'
    BY <1>0, <1>11, StopSucceedsOK, FinishOK DEF EngineStop
  <2>2. QED BY <1>11, <2>1 DEF EngineStop
<1>12. CASE ExitRead(w)
  <2>1. GoroutinesOK'
    <3>1. ASSUME app # None, NEW long \in BOOLEAN,
                 Become(w, [g[w] EXCEPT !.pc = "count", !.snap = app.hash, !.long = long])
          PROVE  GoroutinesOK'
      <4> DEFINE e == [g[w] EXCEPT !.pc = "count", !.snap = app.hash, !.long = long]
      <4>1. e \in GoroutineStates /\ e.pc = "count"
        BY <1>0, <3>1 DEF AppStates, GoroutineStates, Labels
      <4>2. QED BY <1>0, <3>1, <4>1, BecomeOK
    <3>2. QED BY <1>0, <1>12, <3>1, FinishOK, SwitchAssumption DEF ExitRead, Wanted
  <2>2. QED BY <1>12, <2>1 DEF ExitRead
<1>13. CASE Count(w)
  <2>1. PICK r \in RestartStates, n \in 0..CountCap :
          /\ restarts' = r
          /\ count' = [count EXCEPT ![r] = n]
          /\ timer' = IF restarts = None THEN [timer EXCEPT ![r] = "nil"] ELSE timer
          /\ Finish(w) \/ Become(w, [g[w] EXCEPT !.pc = "arm", !.rs = r])
    <3>1. PICK r \in RestartStates :
            LET base == IF restarts = None \/ g[w].long THEN 0 ELSE count[r]
                n    == IF base < CountCap THEN base + 1 ELSE base
            IN  /\ restarts' = r
                /\ count' = [count EXCEPT ![r] = n]
                /\ timer' = IF restarts = None THEN [timer EXCEPT ![r] = "nil"] ELSE timer
                /\ Finish(w) \/ Become(w, [g[w] EXCEPT !.pc = "arm", !.rs = r])
      BY <1>13 DEF Count
    <3> DEFINE base == IF restarts = None \/ g[w].long THEN 0 ELSE count[r]
               n    == IF base < CountCap THEN base + 1 ELSE base
    <3>2. base \in 0..CountCap
      BY PolicyAssumption
    <3>3. n \in 0..CountCap
      BY <3>2, PolicyAssumption
    <3>4. QED BY <3>1, <3>3
  <2>2. GoroutinesOK'
    <3> DEFINE e == [g[w] EXCEPT !.pc = "arm", !.rs = r]
    <3>1. e \in GoroutineStates /\ e.pc = "arm"
      BY <1>0 DEF GoroutineStates, Labels
    <3>2. QED BY <1>0, <2>1, <3>1, BecomeOK, FinishOK
  <2>3. QED BY <1>13, <2>1, <2>2 DEF Count
<1>14. CASE Arm(w)
  <2>1. GoroutinesOK'
    BY <1>0, <1>14, FinishOK DEF Arm
  <2>2. QED BY <1>14, <2>1 DEF Arm
<1>15. CASE TimerCheck(w)
  <2>1. GoroutinesOK'
    BY <1>0, <1>15, GoToOK, FinishOK DEF TimerCheck, Labels
  <2>2. QED BY <1>15, <2>1 DEF TimerCheck
<1>16. CASE Gate(w)
  <2>1. GoroutinesOK'
    BY <1>0, <1>16, GoToOK, FinishOK DEF Gate, Labels
  <2>2. QED BY <1>16, <2>1 DEF Gate
<1>17. CASE PersistDesired(w)
  <2>1. GoroutinesOK'
    BY <1>0, <1>17, GoToOK DEF PersistDesired, Labels
  <2>2. QED BY <1>17, <2>1 DEF PersistDesired, AppStates, Desired
<1>18. QED
  BY <1>1, <1>2, <1>3, <1>4, <1>5, <1>6, <1>7, <1>8, <1>9, <1>10, <1>11, <1>12,
     <1>13, <1>14, <1>15, <1>16, <1>17 DEF GoroutineStep

(* Every other step keeps the types: syncs, exits, timers, boot and crash, *)
(* the hub and the host.                                                   *)
LEMMA OtherStepTypes ==
  ASSUME TypeInv, Next, ~(\E w \in Goroutines : GoroutineStep(w))
  PROVE  TypeInv'
<1> USE DEF TypeInv, TypeOK, GoroutinesOK, outside, procVars, restartVars
<1>0. GoroutinesOK
  OBVIOUS
<1>1. ASSUME NEW p \in Procs, WatcherWakes(p) PROVE TypeInv'
  <2>1. GoroutinesOK'
    <3>1. CASE Go("exit", "exitRead", p)
      BY <1>0, <3>1, GoOK DEF Labels, Roles
    <3>2. CASE UNCHANGED g
      BY <1>0, <3>2 DEF LocalsOK, At
    <3>3. QED BY <1>1, <3>1, <3>2 DEF WatcherWakes
  <2>2. QED BY <1>1, <2>1 DEF WatcherWakes
<1>2. ASSUME NEW r \in RestartStates, Fire(r) PROVE TypeInv'
  <2>1. GoroutinesOK'
    BY <1>0, <1>2, GoOK DEF Fire, Labels, Roles
  <2>2. QED BY <1>2, <2>1 DEF Fire
<1>3. CASE ApplyAppSync
  <2>1. CASE SyncKeeps
    <3>1. app' \in AppStates \cup {None}
      BY <2>1 DEF SyncKeeps, OnHub, Known, AppStates, HubRows
    <3>2. QED BY <1>3, <2>1, <3>1 DEF ApplyAppSync, SyncKeeps, LocalsOK, At
  <2>2. CASE SyncAdopts
    <3>1. hub \in HubRows
      BY <2>2 DEF SyncAdopts, OnHub
    <3>2. app' \in AppStates
      BY <2>2, <3>1 DEF SyncAdopts, AppStates, HubRows, Approvals
    <3>3. preApproved' \in [Defs -> 0..MaxImports]
      <4> DEFINE old == preApproved[hub.hash]
      <4>1. old \in 0..MaxImports
        BY <3>1 DEF HubRows
      <4>2. (IF old > 0 THEN old - 1 ELSE old) \in 0..MaxImports
        BY <4>1, BoundAssumption
      <4>3. preApproved' = [preApproved EXCEPT ![hub.hash] = IF old > 0 THEN old - 1 ELSE old]
        BY <2>2 DEF SyncAdopts
      <4>4. QED BY <4>2, <4>3
    <3>4. QED BY <1>3, <2>2, <3>2, <3>3 DEF ApplyAppSync, SyncAdopts, LocalsOK, At
  <2>3. CASE SyncForgets
    <3>1. GoroutinesOK'
      <4>1. CASE current = None
        BY <1>0, <2>3, <4>1 DEF SyncForgets, LocalsOK, At
      <4>2. CASE current # None
        BY <1>0, <2>3, <4>2, GoOK DEF SyncForgets, Labels, Roles
      <4>3. QED BY <4>1, <4>2
    <3>2. QED BY <1>3, <2>3, <3>1, DropRestartStateOK DEF ApplyAppSync, SyncForgets
  <2>4. CASE UNCHANGED <<app, preApproved, current, restartVars, g>>
    BY <1>3, <2>4 DEF ApplyAppSync, LocalsOK, At
  <2>5. QED BY <1>3, <2>1, <2>2, <2>3, <2>4 DEF ApplyAppSync
<1>4. CASE Reconcile
  <2>1. GoroutinesOK'
    <3>1. CASE Go("start", "check", None)
      BY <1>0, <3>1, GoOK DEF Labels, Roles, Verbs
    <3>2. CASE Go("stop", "cancel", None)
      BY <1>0, <3>2, GoOK DEF Labels, Roles, Verbs
    <3>3. CASE UNCHANGED g
      BY <1>0, <3>3 DEF LocalsOK, At
    <3>4. QED BY <1>4, <3>1, <3>2, <3>3 DEF Reconcile
  <2>2. QED BY <1>4, <2>1 DEF Reconcile
<1>5. CASE Boot
  <2>1. GoroutinesOK'
    <3>1. CASE Go("boot", "check", None)
      BY <1>0, <3>1, GoOK DEF Labels, Roles
    <3>2. CASE UNCHANGED g
      BY <1>0, <3>2 DEF LocalsOK, At
    <3>3. QED BY <1>5, <3>1, <3>2 DEF Boot
  <2>2. app' \in AppStates \cup {None} /\ tree' \in [Procs -> Trees \cup {None}]
    BY <1>5 DEF Boot, AppStates
  <2>3. QED BY <1>5, <2>1, <2>2 DEF Boot
<1>6. CASE BootDone
  BY <1>6 DEF BootDone, LocalsOK, At
<1>7. CASE PollDocker
  BY <1>7 DEF PollDocker, LocalsOK, At
<1>8. ASSUME NEW p \in Procs, RootExit(p) \/ LingerExit(p) PROVE TypeInv'
  BY <1>8 DEF RootExit, LingerExit, Trees, LocalsOK, At
<1>9. ASSUME Input PROVE inputs' \in 0..MaxInputs
  BY <1>9, BoundAssumption DEF Input
<1>10. ASSUME NEW d \in Defs, HubEdits(d) PROVE TypeInv'
  BY <1>9, <1>10 DEF HubEdits, HubRows, Desired, Approvals, LocalsOK, At
<1>11. CASE HubRemoves \/ HubHearsApproval
  BY <1>9, <1>11 DEF HubRemoves, HubHearsApproval, OnHub, Known, HubRows, AppStates, LocalsOK, At
<1>12. ASSUME NEW verb \in Verbs, HubCommands(verb) PROVE TypeInv'
  <2>1. hub' \in HubRows
    BY <1>12 DEF HubCommands, OnHub, HubRows, Desired
  <2>2. GoroutinesOK'
    <3>1. ASSUME NEW w \in Goroutines,
                 Become(w, [Idle EXCEPT !.pc = "gate", !.role = verb, !.cmd = hub.hash])
          PROVE  GoroutinesOK'
      <4> DEFINE e == [Idle EXCEPT !.pc = "gate", !.role = verb, !.cmd = hub.hash]
      <4>1. hub.hash \in Defs
        BY <1>12 DEF HubCommands, OnHub, HubRows
      <4>2. e \in GoroutineStates /\ e.pc = "gate"
        BY <4>1 DEF Idle, GoroutineStates, Labels, Roles
      <4>3. QED BY <1>0, <3>1, <4>2, BecomeOK
    <3>2. CASE UNCHANGED g
      BY <1>0, <3>2 DEF LocalsOK, At
    <3>3. QED BY <1>12, <3>1, <3>2 DEF HubCommands
  <2>3. QED BY <1>9, <1>12, <2>1, <2>2 DEF HubCommands
<1>13. ASSUME NEW approval \in {"approved", "rejected"}, HostDecides(approval) PROVE TypeInv'
  <2>1. app' \in AppStates /\ consented' \subseteq Defs
    BY <1>13 DEF HostDecides, AppStates, Approvals
  <2>2. QED BY <1>9, <1>13, <2>1 DEF HostDecides, LocalsOK, At
<1>14. ASSUME NEW d \in Defs, HostImports(d) PROVE TypeInv'
  <2>1. preApproved[d] + 1 \in 0..MaxImports
    BY <1>14, BoundAssumption DEF HostImports
  <2>2. QED BY <1>9, <1>14, <2>1 DEF HostImports, LocalsOK, At
<1>15. ASSUME NEW d \in Defs, HubRegisters(d) PROVE TypeInv'
  BY <1>15 DEF HubRegisters, HubRows, Desired, Approvals, LocalsOK, At
<1>16. CASE Crash
  <2>1. 0 \in 0..MaxImports /\ 0 \in 0..CountCap
    BY BoundAssumption, PolicyAssumption
  <2>2. GoroutinesOK'
    BY <1>16, IdleOK DEF Crash, LocalsOK, At
  <2>3. inputs' \in 0..MaxInputs
    BY <1>16, BoundAssumption DEF Crash
  <2>4. QED BY <1>16, <2>1, <2>2, <2>3 DEF Crash
<1>17. QED
  BY <1>1, <1>2, <1>3, <1>4, <1>5, <1>6, <1>7, <1>8, <1>10, <1>11, <1>12, <1>13,
     <1>14, <1>15, <1>16 DEF Next, DaemonStep, Environment

(* The daemon starts out typed.                                            *)
LEMMA InitTypes == Init => TypeInv
<1>1. 0 \in 0..MaxImports /\ 0 \in 0..CountCap /\ 0 \in 0..MaxInputs
  BY BoundAssumption, PolicyAssumption
<1>2. QED BY <1>1, IdleOK DEF Init, TypeInv, TypeOK, LocalsOK, At

(* The types are an invariant, together with what a goroutine about to     *)
(* spawn or to record carries.                                             *)
LEMMA TypeInvariant == Spec => []TypeInv
<1>1. TypeInv /\ [Next]_vars => TypeInv'
  <2> SUFFICES ASSUME TypeInv, [Next]_vars PROVE TypeInv'
    OBVIOUS
  <2>1. CASE Next
    BY <2>1, GoroutineStepTypes, OtherStepTypes
  <2>2. CASE UNCHANGED vars
    BY <2>2 DEF vars, outside, procVars, restartVars, TypeInv, TypeOK, LocalsOK, At
  <2>3. QED BY <2>1, <2>2
<1>2. QED BY InitTypes, <1>1, PTL DEF Spec

(* Every variable of the daemon keeps its type in every reachable state.   *)
THEOREM TypeCorrect == Spec => []TypeOK
<1>1. TypeInv => TypeOK
  BY DEF TypeInv
<1>2. QED BY <1>1, TypeInvariant, PTL

-----------------------------------------------------------------------------
(* Which steps move what.                                                  *)

\* No goroutine gets to spawn in this step, and none takes a handle.
SpawnsKept  == \A v \in Goroutines : At(v, "spawn")' => At(v, "spawn") /\ g'[v].snap = g[v].snap
HandlesKept == \A v \in Goroutines : g'[v].held \in {None, g[v].held}
Quiet       == SpawnsKept /\ HandlesKept

(* The helpers that move a goroutine are quiet.                            *)
LEMMA QuietMoves ==
  ASSUME TypeInv, NEW w \in Goroutines,
         \/ Finish(w)
         \/ \E label \in Labels \ {"spawn"} : GoTo(w, label)
         \/ StartFails(w) \/ StopSucceeds(w)
  PROVE  Quiet
<1> USE DEF Quiet, SpawnsKept, HandlesKept, At, TypeInv, TypeOK, GoroutineStates
<1>1. CASE Finish(w)
  BY <1>1 DEF Finish, Become, Idle
<1>2. ASSUME NEW label \in Labels \ {"spawn"}, GoTo(w, label) PROVE Quiet
  BY <1>2 DEF GoTo, Become
<1>3. CASE StartFails(w)
  BY <1>1, <1>2, <1>3 DEF StartFails, Labels
<1>4. CASE StopSucceeds(w)
  BY <1>4 DEF StopSucceeds, Become, Idle
<1>5. QED BY <1>1, <1>2, <1>3, <1>4

(* A new goroutine starts at neither spawn nor with a handle, unless given *)
(* one.                                                                    *)
LEMMA QuietGo ==
  ASSUME TypeInv, NEW role \in Roles, NEW label \in Labels \ {"spawn"},
         NEW p \in Procs \cup {None}, Go(role, label, p)
  PROVE  SpawnsKept /\ (p = None => Quiet)
BY DEF Go, Become, Idle, Quiet, SpawnsKept, HandlesKept, At, TypeInv, TypeOK, GoroutineStates

(* Of a goroutine's steps, only startApp's check may lead to a spawn, and  *)
(* only the spawn itself and stopApp's take acquire a handle.              *)
LEMMA GoroutineMoves ==
  ASSUME TypeInv, NEW w \in Goroutines, GoroutineStep(w)
  PROVE  Check(w) \/ Spawn(w) \/ Take(w) \/ Quiet
<1>1. CASE SpawnFails(w) \/ Record(w) \/ EngineStart(w) \/ Cancel(w) \/ Kill(w) \/ KillFails(w)
  BY <1>1, QuietMoves DEF SpawnFails, Record, EngineStart, Cancel, Kill, KillFails, Labels
<1>2. CASE ClearPid(w) \/ EngineStop(w) \/ TimerCheck(w) \/ Gate(w) \/ PersistDesired(w) \/ Arm(w)
  BY <1>2, QuietMoves DEF ClearPid, EngineStop, TimerCheck, Gate, PersistDesired, Arm, Labels
<1>3. CASE ExitRead(w)
  <2>1. ASSUME NEW long,
               Become(w, [g[w] EXCEPT !.pc = "count", !.snap = app.hash, !.long = long])
        PROVE  Quiet
    BY <2>1 DEF Become, Quiet, SpawnsKept, HandlesKept, At, TypeInv, TypeOK, GoroutineStates
  <2>2. QED BY <1>3, <2>1, QuietMoves DEF ExitRead
<1>4. CASE Count(w)
  <2>1. ASSUME NEW r, Become(w, [g[w] EXCEPT !.pc = "arm", !.rs = r]) PROVE Quiet
    BY <2>1 DEF Become, Quiet, SpawnsKept, HandlesKept, At, TypeInv, TypeOK, GoroutineStates
  <2>2. QED BY <1>4, <2>1, QuietMoves DEF Count
<1>5. QED BY <1>1, <1>2, <1>3, <1>4 DEF GoroutineStep

(* Of all others, only a watcher and a removal hand a process to a new     *)
(* goroutine.                                                              *)
LEMMA OtherMoves ==
  ASSUME TypeInv, Next, ~(\E w \in Goroutines : GoroutineStep(w))
  PROVE  \/ Quiet
         \/ SpawnsKept /\ \E p \in Procs : WatcherWakes(p)
         \/ SpawnsKept /\ ApplyAppSync /\ SyncForgets
<1>1. ASSUME UNCHANGED g PROVE Quiet
  BY <1>1 DEF Quiet, SpawnsKept, HandlesKept, At
<1>2. ASSUME NEW p \in Procs, WatcherWakes(p) PROVE SpawnsKept \/ UNCHANGED g
  BY <1>2, QuietGo DEF WatcherWakes, Labels, Roles
<1>3. ASSUME NEW r \in RestartStates, Fire(r) PROVE Quiet
  BY <1>3, QuietGo DEF Fire, Labels, Roles
<1>4. CASE ApplyAppSync
  <2>1. SyncForgets \/ UNCHANGED g
    BY <1>4 DEF ApplyAppSync, SyncKeeps, SyncAdopts
  <2>2. CASE SyncForgets
    BY <1>1, <1>4, <2>2, QuietGo DEF SyncForgets, Labels, Roles, TypeInv, TypeOK
  <2>3. QED BY <1>1, <2>1, <2>2
<1>5. CASE Reconcile
  BY <1>1, <1>5, QuietGo DEF Reconcile, Labels, Roles, Verbs
<1>6. CASE Boot
  BY <1>1, <1>6, QuietGo DEF Boot, Labels, Roles
<1>7. CASE BootDone \/ PollDocker \/ HubRemoves \/ HubHearsApproval
  BY <1>1, <1>7 DEF BootDone, PollDocker, HubRemoves, HubHearsApproval
<1>8. ASSUME NEW p \in Procs, RootExit(p) \/ LingerExit(p) PROVE Quiet
  BY <1>1, <1>8 DEF RootExit, LingerExit
<1>9. ASSUME NEW d \in Defs, HubEdits(d) \/ HubRegisters(d) \/ HostImports(d) PROVE Quiet
  BY <1>1, <1>9 DEF HubEdits, HubRegisters, HostImports
<1>10. ASSUME NEW verb \in Verbs, HubCommands(verb) PROVE Quiet
  <2>1. ASSUME NEW w \in Goroutines,
               Become(w, [Idle EXCEPT !.pc = "gate", !.role = verb, !.cmd = hub.hash])
        PROVE  Quiet
    BY <2>1 DEF Become, Idle, Quiet, SpawnsKept, HandlesKept, At, TypeInv, TypeOK, GoroutineStates
  <2>2. QED BY <1>1, <1>10, <2>1 DEF HubCommands
<1>11. ASSUME NEW approval \in {"approved", "rejected"}, HostDecides(approval) PROVE Quiet
  BY <1>1, <1>11 DEF HostDecides
<1>12. CASE Crash
  BY <1>12 DEF Crash, Idle, Quiet, SpawnsKept, HandlesKept, At
<1>13. QED
  BY <1>1, <1>2, <1>3, <1>4, <1>5, <1>6, <1>7, <1>8, <1>9, <1>10, <1>11, <1>12
  DEF Next, DaemonStep, Environment


\* Every tree of the next state runs now, and what it runs now.
TreesKept == \A p \in Procs : tree'[p] # None => tree[p] # None /\ tree'[p].def = tree[p].def

(* Only a spawn puts a process tree on the host.                           *)
LEMMA TreeMoves ==
  ASSUME TypeInv, Next
  PROVE  TreesKept \/ \E w \in Goroutines : Spawn(w)
<1>1. ASSUME UNCHANGED tree PROVE TreesKept
  BY <1>1 DEF TreesKept
<1>2. ASSUME NEW w \in Goroutines, GoroutineStep(w) PROVE TreesKept \/ Spawn(w)
  <2>1. CASE Kill(w)
    BY <2>1 DEF Kill, TreesKept, TypeInv, TypeOK
  <2>2. CASE UNCHANGED tree
    BY <1>1, <2>2
  <2>3. QED
    BY <1>2, <2>1, <2>2 DEF GoroutineStep, Check, SpawnFails, Record, EngineStart, Cancel, Take,
       KillFails, ClearPid, EngineStop, ExitRead, Count, Arm, TimerCheck, Gate, PersistDesired
<1>3. ASSUME NEW p \in Procs, RootExit(p) \/ LingerExit(p) PROVE TreesKept
  BY <1>3 DEF RootExit, LingerExit, TreesKept, TypeInv, TypeOK, Trees
<1>4. CASE Boot
  BY <1>4 DEF Boot, TreesKept, TypeInv, TypeOK
<1>5. CASE BootDone \/ PollDocker \/ ApplyAppSync \/ Reconcile
  BY <1>1, <1>5 DEF BootDone, PollDocker, ApplyAppSync, Reconcile
<1>6. CASE HubRemoves \/ HubHearsApproval \/ Crash
  BY <1>1, <1>6 DEF HubRemoves, HubHearsApproval, Crash
<1>7. ASSUME NEW p \in Procs, WatcherWakes(p) PROVE TreesKept
  BY <1>1, <1>7 DEF WatcherWakes
<1>8. ASSUME NEW r \in RestartStates, Fire(r) PROVE TreesKept
  BY <1>1, <1>8 DEF Fire
<1>9. ASSUME NEW d \in Defs, HubEdits(d) \/ HubRegisters(d) \/ HostImports(d) PROVE TreesKept
  BY <1>1, <1>9 DEF HubEdits, HubRegisters, HostImports
<1>10. ASSUME NEW verb \in Verbs, HubCommands(verb) PROVE TreesKept
  BY <1>1, <1>10 DEF HubCommands
<1>11. ASSUME NEW approval \in {"approved", "rejected"}, HostDecides(approval) PROVE TreesKept
  BY <1>1, <1>11 DEF HostDecides
<1>12. QED
  BY <1>2, <1>3, <1>4, <1>5, <1>6, <1>7, <1>8, <1>9, <1>10, <1>11
  DEF Next, DaemonStep, Environment

(* Of the process table, only a record publishes a process; every other    *)
(* step keeps the entry with its watcher, or clears it.                    *)
LEMMA TableMoves ==
  ASSUME TypeInv, Next
  PROVE  \/ current' = None
         \/ current' = current /\ watched'[current] = watched[current]
         \/ \E w \in Goroutines : Record(w)
<1> DEFINE Goal == \/ current' = None
                   \/ current' = current /\ watched'[current] = watched[current]
                   \/ \E w \in Goroutines : Record(w)
<1>1. ASSUME UNCHANGED <<current, watched>> PROVE Goal
  BY <1>1
<1>2. ASSUME NEW w \in Goroutines, GoroutineStep(w) PROVE Goal
  <2>1. Record(w) \/ Take(w) \/ UNCHANGED <<current, watched>>
    BY <1>2 DEF GoroutineStep, Check, Spawn, SpawnFails, EngineStart, Cancel, Kill, KillFails,
       ClearPid, EngineStop, ExitRead, Count, Arm, TimerCheck, Gate, PersistDesired, procVars
  <2>2. QED BY <1>1, <2>1 DEF Take
<1>3. ASSUME NEW p \in Procs, WatcherWakes(p) PROVE Goal
  BY <1>3 DEF WatcherWakes, TypeInv, TypeOK
<1>4. CASE ApplyAppSync \/ Crash
  BY <1>4 DEF ApplyAppSync, SyncKeeps, SyncAdopts, SyncForgets, Crash
<1>5. CASE Reconcile \/ Boot \/ BootDone \/ PollDocker \/ HubRemoves \/ HubHearsApproval
  BY <1>1, <1>5 DEF Reconcile, Boot, BootDone, PollDocker, HubRemoves, HubHearsApproval,
     procVars
<1>6. ASSUME NEW r \in RestartStates, Fire(r) PROVE Goal
  BY <1>1, <1>6 DEF Fire, procVars
<1>7. ASSUME NEW p \in Procs, RootExit(p) \/ LingerExit(p) PROVE Goal
  BY <1>1, <1>7 DEF RootExit, LingerExit, procVars
<1>8. ASSUME NEW d \in Defs, HubEdits(d) \/ HubRegisters(d) \/ HostImports(d) PROVE Goal
  BY <1>1, <1>8 DEF HubEdits, HubRegisters, HostImports, procVars
<1>9. ASSUME NEW verb \in Verbs, HubCommands(verb) PROVE Goal
  BY <1>1, <1>9 DEF HubCommands, procVars
<1>10. ASSUME NEW approval \in {"approved", "rejected"}, HostDecides(approval) PROVE Goal
  BY <1>1, <1>10 DEF HostDecides, procVars
<1>11. QED
  BY <1>2, <1>3, <1>4, <1>5, <1>6, <1>7, <1>8, <1>9, <1>10 DEF Next, DaemonStep, Environment

-----------------------------------------------------------------------------
(* Consent.                                                                *)

\* Where consent travels from the host's decision to a process tree: a pending
\* import, an approved process definition, the snapshot startApp acts on.
ImportsConsented  == \A d \in Defs : preApproved[d] > 0 => d \in consented
ApprovalConsented == app # None /\ app.approval = "approved"
                       => app.hash \in consented \cup ContainerDefs
SpawnsConsented   == \A w \in Goroutines :
                       At(w, "spawn") => g[w].snap \in consented \ ContainerDefs

ConsentInv == /\ ImportsConsented
              /\ ApprovalConsented
              /\ SpawnsConsented
              /\ RunsOnlyConsented

(* Consent is never lost, and imports and approvals come from nowhere      *)
(* else: a sync approves a process definition only against an import, and  *)
(* nothing but the sync and the host's decisions changes an approval.      *)
LEMMA ApprovalStep ==
  ASSUME TypeInv, ImportsConsented, ApprovalConsented, Next
  PROVE  consented \subseteq consented' /\ ImportsConsented' /\ ApprovalConsented'
<1> DEFINE Goal == consented \subseteq consented' /\ ImportsConsented' /\ ApprovalConsented'
<1> USE DEF ImportsConsented, ApprovalConsented, outside
<1>1. ASSUME UNCHANGED <<consented, preApproved>>,
             \/ app' = None
             \/ app # None /\ app' # None /\ app'.hash = app.hash /\ app'.approval = app.approval
      PROVE  Goal
  BY <1>1
<1>2. ASSUME UNCHANGED <<consented, preApproved, app>> PROVE Goal
  BY <1>2
<1>3. ASSUME NEW w \in Goroutines, GoroutineStep(w) PROVE Goal
  <2>1. CASE Record(w) \/ ClearPid(w) \/ PersistDesired(w)
    BY <1>1, <2>1 DEF Record, ClearPid, PersistDesired, TypeInv, TypeOK, AppStates
  <2>2. CASE UNCHANGED <<consented, preApproved, app>>
    BY <1>2, <2>2
  <2>3. QED
    BY <1>3, <2>1, <2>2 DEF GoroutineStep, Check, Spawn, SpawnFails, EngineStart, Cancel, Take,
       Kill, KillFails, EngineStop, ExitRead, Count, Arm, TimerCheck, Gate
<1>4. CASE ApplyAppSync
  <2>1. CASE SyncKeeps
    BY <1>1, <1>4, <2>1 DEF ApplyAppSync, SyncKeeps, Known, TypeInv, TypeOK, AppStates
  <2>2. CASE SyncAdopts
    <3>1. hub.hash \in Defs
      BY <2>2 DEF SyncAdopts, OnHub, TypeInv, TypeOK, HubRows
    <3>2. \A d \in Defs : preApproved[d] \in 0..MaxImports
      BY DEF TypeInv, TypeOK
    <3>3. ImportsConsented'
      BY <1>4, <2>2, <3>1, <3>2, BoundAssumption DEF ApplyAppSync, SyncAdopts, TypeInv, TypeOK
    <3>4. ApprovalConsented'
      BY <1>4, <2>2, <3>1 DEF ApplyAppSync, SyncAdopts, IsDockerKind
    <3>5. QED BY <1>4, <3>3, <3>4 DEF ApplyAppSync
  <2>3. CASE SyncForgets
    BY <1>1, <1>4, <2>3 DEF ApplyAppSync, SyncForgets
  <2>4. QED BY <1>2, <1>4, <2>1, <2>2, <2>3 DEF ApplyAppSync
<1>5. CASE Boot
  BY <1>1, <1>2, <1>5 DEF Boot, TypeInv, TypeOK, AppStates
<1>6. CASE Crash
  BY <1>6 DEF Crash
<1>7. ASSUME NEW approval \in {"approved", "rejected"}, HostDecides(approval) PROVE Goal
  BY <1>7 DEF HostDecides, TypeInv, TypeOK, AppStates
<1>8. ASSUME NEW d \in Defs, HostImports(d) PROVE Goal
  BY <1>8 DEF HostImports, TypeInv, TypeOK
<1>9. CASE BootDone \/ PollDocker \/ Reconcile \/ HubRemoves \/ HubHearsApproval
  BY <1>2, <1>9 DEF BootDone, PollDocker, Reconcile, HubRemoves, HubHearsApproval
<1>10. ASSUME NEW p \in Procs, WatcherWakes(p) \/ RootExit(p) \/ LingerExit(p) PROVE Goal
  BY <1>2, <1>10 DEF WatcherWakes, RootExit, LingerExit
<1>11. ASSUME NEW r \in RestartStates, Fire(r) PROVE Goal
  BY <1>2, <1>11 DEF Fire
<1>12. ASSUME NEW d \in Defs, HubEdits(d) \/ HubRegisters(d) PROVE Goal
  BY <1>2, <1>12 DEF HubEdits, HubRegisters
<1>13. ASSUME NEW verb \in Verbs, HubCommands(verb) PROVE Goal
  BY <1>2, <1>13 DEF HubCommands
<1>14. QED
  BY <1>3, <1>4, <1>5, <1>6, <1>7, <1>8, <1>9, <1>10, <1>11, <1>12, <1>13
  DEF Next, DaemonStep, Environment

(* startApp's check lets only approved definitions through, and a snapshot *)
(* taken under an approval stays consented even if the approval is         *)
(* withdrawn or the definition replaced before the spawn.                  *)
LEMMA SpawnStep ==
  ASSUME TypeInv, ConsentInv, Next
  PROVE  SpawnsConsented' /\ RunsOnlyConsented'
<1>1. consented \subseteq consented'
  BY ApprovalStep DEF ConsentInv
<1>2. ASSUME SpawnsKept PROVE SpawnsConsented'
  BY <1>1, <1>2 DEF SpawnsKept, SpawnsConsented, ConsentInv, At
<1>3. ASSUME NEW w \in Goroutines, Check(w) PROVE SpawnsConsented'
  <2>1. CASE app # None /\ app.approval = "approved"
             /\ Become(w, [g[w] EXCEPT !.snap = app.hash,
                         !.pc = IF IsDockerKind(app.hash) THEN "engineStart" ELSE "spawn"])
    BY <1>1, <2>1 DEF Become, SpawnsConsented, ApprovalConsented, ConsentInv, At,
       IsDockerKind, TypeInv, TypeOK, GoroutineStates
  <2>2. QED BY <1>2, <1>3, <2>1, QuietMoves DEF Check, Quiet
<1>4. ASSUME NEW w \in Goroutines, Spawn(w) \/ Take(w) PROVE SpawnsKept
  <2>1. ASSUME NEW p, Become(w, [g[w] EXCEPT !.pc = "record", !.held = p]) PROVE SpawnsKept
    BY <2>1 DEF Become, SpawnsKept, At, TypeInv, TypeOK, GoroutineStates
  <2>2. ASSUME Become(w, [g[w] EXCEPT !.pc = "kill", !.held = current]) PROVE SpawnsKept
    BY <2>2 DEF Become, SpawnsKept, At, TypeInv, TypeOK, GoroutineStates
  <2>3. QED BY <1>4, <2>1, <2>2, QuietMoves DEF Spawn, Take, Quiet, Labels
<1>5. SpawnsConsented'
  BY <1>2, <1>3, <1>4, GoroutineMoves, OtherMoves DEF Quiet
<1>6. ASSUME NEW w \in Goroutines, Spawn(w) PROVE RunsOnlyConsented'
  BY <1>1, <1>6 DEF Spawn, RunsOnlyConsented, SpawnsConsented, ConsentInv, At, TypeInv, TypeOK
<1>7. ASSUME TreesKept PROVE RunsOnlyConsented'
  BY <1>1, <1>7 DEF TreesKept, RunsOnlyConsented, ConsentInv
<1>8. QED BY <1>5, <1>6, <1>7, TreeMoves

(* The way from the host's decision to a process tree is consented         *)
(* throughout.                                                             *)
LEMMA ConsentCorrect == Spec => []ConsentInv
<1>1. Init => ConsentInv
  BY DEF Init, ConsentInv, ImportsConsented, ApprovalConsented, SpawnsConsented,
     RunsOnlyConsented, At, Idle
<1>2. TypeInv /\ ConsentInv /\ [Next]_vars => ConsentInv'
  <2> SUFFICES ASSUME TypeInv, ConsentInv, [Next]_vars PROVE ConsentInv'
    OBVIOUS
  <2>1. CASE Next
    BY <2>1, ApprovalStep, SpawnStep DEF ConsentInv
  <2>2. CASE UNCHANGED vars
    BY <2>2 DEF vars, outside, procVars, restartVars, ConsentInv, ImportsConsented,
       ApprovalConsented, SpawnsConsented, RunsOnlyConsented, At
  <2>3. QED BY <2>1, <2>2
<1>3. QED BY <1>1, <1>2, TypeInvariant, PTL DEF Spec

(* Every process tree the daemon leaves on the host, in any state of any   *)
(* behaviour, runs a process definition that the host approved or imported.*)
THEOREM ConsentTheorem == Spec => []RunsOnlyConsented
<1>1. ConsentInv => RunsOnlyConsented
  BY DEF ConsentInv
<1>2. QED BY <1>1, ConsentCorrect, PTL

-----------------------------------------------------------------------------
(* Ownership of process handles.                                           *)

OwnerInv == OneOwner /\ TableIsWatched

(* A handle moves from its spawn to the table, and from the table to the   *)
(* one goroutine that stops it or handles its exit.                        *)
LEMMA OwnerStep ==
  ASSUME TypeInv, OneOwner, Next
  PROVE  OneOwner'
<1> USE DEF OneOwner, TypeInv, TypeOK, GoroutineStates
<1>1. ASSUME HandlesKept, current' \in {None, current} PROVE OneOwner'
  BY <1>1 DEF HandlesKept
<1>2. ASSUME NEW w \in Goroutines, Record(w) PROVE OneOwner'
  BY <1>2 DEF Record, Finish, Become, Idle
<1>3. ASSUME NEW w \in Goroutines, Spawn(w) PROVE OneOwner'
  <2>1. PICK p \in Procs :
          FreeProc(p) /\ Become(w, [g[w] EXCEPT !.pc = "record", !.held = p])
    BY <1>3 DEF Spawn
  <2>2. current' = current
    BY <1>3 DEF Spawn, procVars
  <2>3. QED BY <2>1, <2>2 DEF FreeProc, Become
<1>4. ASSUME NEW w \in Goroutines, Take(w) PROVE OneOwner'
  <2>1. CASE current # None /\ Become(w, [g[w] EXCEPT !.pc = "kill", !.held = current])
    BY <1>4, <2>1 DEF Take, Become
  <2>2. QED BY <1>1, <1>4, <2>1, QuietMoves DEF Take, Quiet, Labels
<1>5. ASSUME NEW p \in Procs, WatcherWakes(p) PROVE OneOwner'
  <2>1. CASE current = p /\ current' = None /\ Go("exit", "exitRead", p)
    BY <2>1 DEF Go, Become, Idle
  <2>2. CASE UNCHANGED <<current, g>>
    BY <2>2
  <2>3. QED BY <1>5, <2>1, <2>2 DEF WatcherWakes
<1>6. CASE SyncForgets
  <2>1. CASE Go("forget", "kill", current)
    BY <1>6, <2>1 DEF SyncForgets, Go, Become, Idle
  <2>2. CASE UNCHANGED g
    BY <1>6, <2>2 DEF SyncForgets
  <2>3. QED BY <1>6, <2>1, <2>2 DEF SyncForgets
<1>7. ASSUME NEW w \in Goroutines, Check(w) PROVE OneOwner'
  <2>1. ASSUME Become(w, [g[w] EXCEPT !.snap = app.hash,
                         !.pc = IF IsDockerKind(app.hash) THEN "engineStart" ELSE "spawn"])
        PROVE  HandlesKept
    BY <2>1 DEF Become, HandlesKept
  <2>2. HandlesKept
    BY <1>7, <2>1, QuietMoves DEF Check, Quiet
  <2>3. QED BY <1>1, <1>7, <2>2 DEF Check, procVars
<1>8. CASE Quiet
  BY <1>1, <1>2, <1>8, TableMoves DEF Quiet
<1>9. QED
  BY <1>2, <1>3, <1>4, <1>5, <1>6, <1>7, <1>8, GoroutineMoves, OtherMoves

(* What a goroutine publishes it also watches, and the watcher that wakes  *)
(* clears the entry it watched.                                            *)
LEMMA WatchStep ==
  ASSUME TypeInv, TableIsWatched, Next
  PROVE  TableIsWatched'
<1>1. ASSUME NEW w \in Goroutines, Record(w) PROVE TableIsWatched'
  BY <1>1 DEF Record, TableIsWatched, TypeInv, TypeOK, LocalsOK
<1>2. QED BY <1>1, TableMoves DEF TableIsWatched

(* Both hold together in every reachable state.                            *)
LEMMA OwnerCorrect == Spec => []OwnerInv
<1>1. Init => OwnerInv
  BY DEF Init, OwnerInv, OneOwner, TableIsWatched, Idle
<1>2. TypeInv /\ OwnerInv /\ [Next]_vars => OwnerInv'
  <2> SUFFICES ASSUME TypeInv, OwnerInv, [Next]_vars PROVE OwnerInv'
    OBVIOUS
  <2>1. CASE Next
    BY <2>1, OwnerStep, WatchStep DEF OwnerInv
  <2>2. CASE UNCHANGED vars
    BY <2>2 DEF vars, procVars, OwnerInv, OneOwner, TableIsWatched
  <2>3. QED BY <2>1, <2>2
<1>3. QED BY <1>1, <1>2, TypeInvariant, PTL DEF Spec

(* stopApp and the watcher never handle the same exit, with any number of  *)
(* goroutines and processes.                                               *)
THEOREM OwnerTheorem == Spec => []OneOwner
<1>1. OwnerInv => OneOwner
  BY DEF OwnerInv
<1>2. QED BY <1>1, OwnerCorrect, PTL

(* The exit of the process in the table is always going to be noticed.     *)
THEOREM WatchedTheorem == Spec => []TableIsWatched
<1>1. OwnerInv => TableIsWatched
  BY DEF OwnerInv
<1>2. QED BY <1>1, OwnerCorrect, PTL

-----------------------------------------------------------------------------
(* The agent implements HostConsent.                                       *)

(* A step that keeps the trees ends at most one of them.                   *)
LEMMA TreesEnd ==
  ASSUME TypeInv, UNCHANGED consented,
         \/ UNCHANGED tree
         \/ \E p \in Procs : tree' = [tree EXCEPT ![p] = None]
         \/ \E p \in Procs : tree[p] # None /\ tree' = [tree EXCEPT ![p].root = FALSE]
  PROVE  [Consent!Next]_<<consented, RunningDefs>>
<1> USE DEF TypeInv, TypeOK, RunningDefs
<1>1. CASE UNCHANGED tree
  BY <1>1
<1>2. ASSUME NEW p \in Procs, tree' = [tree EXCEPT ![p] = None]
      PROVE  [Consent!Next]_<<consented, RunningDefs>>
  <2>1. RunningDefs' = [RunningDefs EXCEPT ![p] = None]
    BY <1>2
  <2>2. CASE RunningDefs[p] = None
    <3>1. UNCHANGED RunningDefs
      BY <2>1, <2>2
    <3>2. QED BY <3>1
  <2>3. CASE RunningDefs[p] # None
    <3>1. Consent!End(p)
      BY <2>1, <2>3 DEF Consent!End
    <3>2. QED BY <3>1 DEF Consent!Next
  <2>4. QED BY <2>2, <2>3
<1>3. ASSUME NEW p \in Procs, tree[p] # None, tree' = [tree EXCEPT ![p].root = FALSE]
      PROVE  UNCHANGED RunningDefs
  <2> DEFINE t == [tree[p] EXCEPT !.root = FALSE]
  <2>1. t \in [def : Defs, root : BOOLEAN] /\ t.def = tree[p].def
    BY <1>3 DEF Trees
  <2>2. t # None
    BY <2>1, NoneAssumption
  <2>3. \A q \in Procs : tree'[q] = IF q = p THEN t ELSE tree[q]
    BY <1>3
  <2>4. QED BY <1>3, <2>1, <2>2, <2>3
<1>4. QED BY <1>1, <1>2, <1>3

(* Each step of the agent and its environment is a step of HostConsent: a  *)
(* decision of the host allows, a spawn starts what is allowed, and every  *)
(* other step ends at most one process.                                    *)
LEMMA ConsentStep ==
  ASSUME TypeInv, ConsentInv, Next
  PROVE  [Consent!Next]_<<consented, RunningDefs>>
<1> DEFINE Goal == [Consent!Next]_<<consented, RunningDefs>>
<1>1. ASSUME UNCHANGED <<consented, tree>> PROVE Goal
  BY <1>1, TreesEnd
<1>2. ASSUME NEW w \in Goroutines, Spawn(w) PROVE Goal
  <2>1. PICK p \in Procs :
          tree[p] = None /\ tree' = [tree EXCEPT ![p] = [def |-> g[w].snap, root |-> TRUE]]
    BY <1>2 DEF Spawn, FreeProc
  <2>2. g[w].snap \in consented /\ g[w].snap \in Defs /\ g[w].snap # None
    BY <1>2, NoneAssumption DEF Spawn, ConsentInv, SpawnsConsented, TypeInv, TypeOK
  <2>3. RunningDefs' = [RunningDefs EXCEPT ![p] = g[w].snap] /\ RunningDefs[p] = None
    <3>1. [def |-> g[w].snap, root |-> TRUE] \in [def : Defs, root : BOOLEAN]
      BY <2>2
    <3>2. [def |-> g[w].snap, root |-> TRUE] # None
      BY <3>1, NoneAssumption
    <3>3. QED BY <2>1, <3>2 DEF RunningDefs, TypeInv, TypeOK
  <2>4. Consent!Start(p, g[w].snap)
    BY <1>2, <2>2, <2>3 DEF Consent!Start, Spawn, outside
  <2>5. QED BY <2>2, <2>4 DEF Consent!Next
<1>3. ASSUME NEW w \in Goroutines, GoroutineStep(w) PROVE Goal
  <2>1. CASE Kill(w)
    <3>1. tree' = [tree EXCEPT ![g[w].held] = None] /\ UNCHANGED consented
      BY <2>1 DEF Kill, outside
    <3>2. CASE g[w].held \in Procs
      BY <3>1, <3>2, TreesEnd
    <3>3. CASE g[w].held \notin Procs
      BY <1>1, <3>1, <3>3 DEF TypeInv, TypeOK
    <3>4. QED BY <3>2, <3>3
  <2>2. CASE UNCHANGED <<consented, tree>>
    BY <1>1, <2>2
  <2>3. QED
    BY <1>2, <1>3, <2>1, <2>2 DEF GoroutineStep, Check, SpawnFails, Record, EngineStart, Cancel,
       Take, KillFails, ClearPid, EngineStop, ExitRead, Count, Arm, TimerCheck, Gate,
       PersistDesired, outside
<1>4. ASSUME NEW p \in Procs, RootExit(p) \/ LingerExit(p) PROVE Goal
  BY <1>4, TreesEnd DEF RootExit, LingerExit, outside
<1>5. CASE Boot
  <2>1. UNCHANGED tree \/ \E p \in Procs : tree' = [tree EXCEPT ![p] = None]
    BY <1>5 DEF Boot, TypeInv, TypeOK, AppStates
  <2>2. QED BY <1>5, <2>1, TreesEnd DEF Boot
<1>6. ASSUME NEW d \in Defs, UNCHANGED tree, consented' = consented \cup {d} PROVE Goal
  BY <1>6 DEF Consent!Next, Consent!Allow, RunningDefs
<1>7. ASSUME NEW approval \in {"approved", "rejected"}, HostDecides(approval) PROVE Goal
  BY <1>1, <1>6, <1>7 DEF HostDecides, TypeInv, TypeOK, AppStates
<1>8. ASSUME NEW d \in Defs, HubEdits(d) \/ HubRegisters(d) \/ HostImports(d) PROVE Goal
  BY <1>1, <1>6, <1>8 DEF HubEdits, HubRegisters, HostImports
<1>9. CASE BootDone \/ PollDocker \/ ApplyAppSync \/ Reconcile
  BY <1>1, <1>9 DEF BootDone, PollDocker, ApplyAppSync, Reconcile, outside
<1>10. CASE HubRemoves \/ HubHearsApproval \/ Crash
  BY <1>1, <1>10 DEF HubRemoves, HubHearsApproval, Crash
<1>11. ASSUME NEW p \in Procs, WatcherWakes(p) PROVE Goal
  BY <1>1, <1>11 DEF WatcherWakes, outside
<1>12. ASSUME NEW r \in RestartStates, Fire(r) PROVE Goal
  BY <1>1, <1>12 DEF Fire, outside
<1>13. ASSUME NEW verb \in Verbs, HubCommands(verb) PROVE Goal
  BY <1>1, <1>13 DEF HubCommands
<1>14. QED
  BY <1>3, <1>4, <1>5, <1>7, <1>8, <1>9, <1>10, <1>11, <1>12, <1>13
  DEF Next, DaemonStep, Environment

(* Seen from the host, the whole daemon, with its races, crashes and       *)
(* restarts, does no more than HostConsent allows.                         *)
THEOREM RefinementTheorem == Spec => ImplementsConsent
<1>1. Init => Consent!Init
  BY DEF Init, Consent!Init, RunningDefs
<1>2. TypeInv /\ ConsentInv /\ [Next]_vars => [Consent!Next]_<<consented, RunningDefs>>
  <2> SUFFICES ASSUME TypeInv, ConsentInv, [Next]_vars
               PROVE  [Consent!Next]_<<consented, RunningDefs>>
    OBVIOUS
  <2>1. CASE UNCHANGED vars
    BY <2>1 DEF vars, outside, RunningDefs
  <2>2. QED BY <2>1, ConsentStep
<1>3. QED
  BY <1>1, <1>2, TypeInvariant, ConsentCorrect, PTL DEF Spec, ImplementsConsent, Consent!Spec
=============================================================================
