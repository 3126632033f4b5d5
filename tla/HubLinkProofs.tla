--------------------------- MODULE HubLinkProofs ---------------------------
(***************************************************************************)
(* What HubLink's run checks of the registry and of the status it is shown *)
(* as, proved for every number of connections and timers: the connection   *)
(* in use is the registered one, the status follows the registry, and the  *)
(* safety half of the offline page (whose liveness TLC checks): an outage  *)
(* that is owed a page is always in some hook's or timer's hands.          *)
(***************************************************************************)
EXTENDS HubLink, TLAPS

-----------------------------------------------------------------------------
(* Type correctness.                                                       *)

\* The timer in offlineAt is counting or has just fired: the ones past their
\* delete have been forgotten, and only an idle one is armed.
EntryIsAlive == entry \in Timers => timer[entry] \in {"armed", "fired"}

TypeInv == TypeOK /\ EntryIsAlive

(* Fetching the record for a status keeps the types.                       *)
LEMMA FindStatusTypes ==
  ASSUME TypeInv, NEW k \in Conns, NEW from \in Places, NEW saving \in Places,
         NEW failed \in Places, FindStatus(k, from, saving, failed)
  PROVE  TypeInv'
<1>1. overtaken' \in BOOLEAN
  BY DEF TypeInv, TypeOK, FindStatus
<1>2. faults' \in 0..MaxFaults
  BY FaultAssumption DEF TypeInv, TypeOK, FindStatus, Fault
<1>3. found' \in [Conns -> Statuses] /\ handler' \in [Conns -> Places]
  BY DEF TypeInv, TypeOK, FindStatus, Goes
<1>4. UNCHANGED <<wire, reg, loaded, greeted, status, enabled, notifier, owed>>
  BY DEF FindStatus
<1>5. QED
  BY <1>1, <1>2, <1>3, <1>4 DEF TypeInv, TypeOK, EntryIsAlive, wire, notifier

(* Saving a status keeps the types, whichever places it goes to.           *)
LEMMA SaveStatusTypes ==
  ASSUME TypeInv, NEW k \in Conns, NEW s \in Statuses, NEW saving \in Places,
         NEW hook \in Places, NEW failed \in Places,
         SaveStatus(k, s, saving, hook, failed)
  PROVE  TypeInv'
<1>1. overtaken' \in BOOLEAN /\ owed' \in BOOLEAN
  BY DEF TypeInv, TypeOK, SaveStatus
<1>2. faults' \in 0..MaxFaults
  BY FaultAssumption DEF TypeInv, TypeOK, SaveStatus, Fault
<1>3. /\ status' \in Statuses /\ handler' \in [Conns -> Places]
      /\ found' \in [Conns -> Statuses]
  BY DEF TypeInv, TypeOK, SaveStatus, Goes, Leaves, Statuses
<1>4. UNCHANGED <<wire, reg, loaded, greeted, enabled, notifier>>
  BY DEF SaveStatus
<1>5. QED
  BY <1>1, <1>2, <1>3, <1>4 DEF TypeInv, TypeOK, EntryIsAlive, wire, notifier

(* Every step of a connection's handler keeps the types.                   *)
LEMMA ServeTypes ==
  ASSUME TypeInv, NEW k \in Conns, Serve(k)
  PROVE  TypeInv'
<1> USE NoneAssumption, FaultAssumption
    DEF TypeInv, TypeOK, EntryIsAlive, Places, Statuses, wire, notifier, history, Goes, Fault
<1>1. CASE Register(k)
  BY <1>1 DEF Register
<1>2. CASE SetOnline(k)
  BY <1>2, FindStatusTypes, SaveStatusTypes DEF SetOnline
<1>3. CASE OnlineHook(k)
  BY <1>3 DEF OnlineHook, Disarm
<1>4. CASE Hello(k)
  <2>1. overtaken' \in BOOLEAN /\ owed' \in BOOLEAN
    BY <1>4 DEF Hello
  <2>2. /\ status' \in Statuses /\ handler' \in [Conns -> Places]
        /\ faults' \in 0..MaxFaults /\ greeted' \subseteq Conns
        /\ UNCHANGED <<wire, reg, loaded, found, enabled, notifier>>
    BY <1>4 DEF Hello, HelloLeaves, Leaves
  <2>3. QED BY <2>1, <2>2
<1>5. CASE Leave(k)
  BY <1>5 DEF Leave
<1>6. CASE Remove(k)
  BY <1>6 DEF Remove
<1>7. CASE SetOffline(k)
  BY <1>7, FindStatusTypes, SaveStatusTypes DEF SetOffline
<1>8. CASE OfflineHook(k)
  BY <1>8 DEF OfflineHook
<1>9. QED
  BY <1>1, <1>2, <1>3, <1>4, <1>5, <1>6, <1>7, <1>8 DEF Serve

(* Every step keeps the types.                                             *)
LEMMA StepTypes ==
  ASSUME TypeInv, [Next]_vars
  PROVE  TypeInv'
<1> USE NoneAssumption, FaultAssumption
    DEF TypeInv, TypeOK, EntryIsAlive, Places, Statuses, wire, hub, notifier, history, Goes, Fault
<1>1. ASSUME NEW k \in Conns, Dial(k) PROVE TypeInv'
  BY <1>1 DEF Dial
<1>2. ASSUME NEW t \in Timers, Tick(t) PROVE TypeInv'
  <2>1. CASE TimerFires(t)
    BY <2>1 DEF TimerFires, TimerGoes
  <2>2. CASE TimerClears(t)
    BY <2>2 DEF TimerClears, TimerGoes
  <2>3. CASE TimerChecks(t)
    BY <2>3 DEF TimerChecks, TimerGoes
  <2>4. CASE TimerPages(t)
    BY <2>4 DEF TimerPages, TimerGoes
  <2>5. QED BY <1>2, <2>1, <2>2, <2>3, <2>4 DEF Tick
<1>3. CASE Break
  BY <1>3 DEF Break
<1>4. CASE Superseded
  BY <1>4 DEF Superseded
<1>5. CASE HubRestart
  <2>1. /\ overtaken' \in BOOLEAN /\ notified' \in BOOLEAN /\ owed' \in BOOLEAN
        /\ enabled' \in BOOLEAN
    BY <1>5 DEF HubRestart
  <2>2. faults' \in 0..MaxFaults
    BY <1>5 DEF HubRestart
  <2>3. /\ link' = None /\ cut' = {} /\ reg' = None /\ entry' = None
        /\ handler' = [k \in Conns |-> "idle"] /\ timer' = [t \in Timers |-> "idle"]
        /\ loaded' = [k \in Conns |-> "offline"] /\ found' = [k \in Conns |-> "offline"]
        /\ greeted' = {} /\ UNCHANGED status
    BY <1>5 DEF HubRestart
  <2>4. QED BY <2>1, <2>2, <2>3
<1>6. CASE Toggle
  <2>1. enabled' \in BOOLEAN
    BY <1>6 DEF Toggle
  <2>2. faults' \in 0..MaxFaults /\ UNCHANGED <<wire, hub, status, notifier, history>>
    BY <1>6 DEF Toggle
  <2>3. QED BY <2>1, <2>2
<1>7. CASE UNCHANGED vars
  BY <1>7 DEF vars
<1>8. QED
  BY <1>1, <1>2, <1>3, <1>4, <1>5, <1>6, <1>7, ServeTypes DEF Next

(* The types, with what the entry of offlineAt points to, hold throughout. *)
LEMMA TypeInvariant == Spec => []TypeInv
<1>1. Init => TypeInv
  <2> SUFFICES ASSUME Init PROVE TypeInv
    OBVIOUS
  <2>1. overtaken \in BOOLEAN /\ enabled \in BOOLEAN /\ notified \in BOOLEAN /\ owed \in BOOLEAN
    BY DEF Init
  <2>2. faults \in 0..MaxFaults
    BY FaultAssumption DEF Init
  <2>3. entry = None /\ timer \in [Timers -> {"idle", "armed", "fired", "check", "mark"}]
    BY DEF Init
  <2>4. QED
    BY <2>1, <2>2, <2>3, NoneAssumption DEF Init, TypeInv, TypeOK, EntryIsAlive, Places, Statuses
<1>2. TypeInv /\ [Next]_vars => TypeInv'
  BY StepTypes
<1>3. QED BY <1>1, <1>2, PTL DEF Spec

(* Every variable stays in its range, and the timer in offlineAt is alive. *)
THEOREM TypeCorrect == Spec => []TypeOK
<1>1. TypeInv => TypeOK
  BY DEF TypeInv
<1>2. QED BY <1>1, TypeInvariant, PTL

-----------------------------------------------------------------------------
(* The registry.                                                           *)

\* The connection in use, until it is closed, is on the way through serveWS
\* that ends only with its read failing, and is the registered one from
\* registry.add on.  The places are what makes the invariant inductive: none
\* of them is past `defer registry.remove`.
LinkInv ==
  \A k \in Conns \ cut : link = k =>
    /\ handler[k] \in {"loaded", "online", "savingOnline", "onlineHook", "serving", "helloHook"}
    /\ handler[k] # "loaded" => reg = k

(* No handler's step parts the connection in use from the registry.        *)
LEMMA ServeLink ==
  ASSUME TypeInv, LinkInv, NEW k \in Conns, Serve(k)
  PROVE  LinkInv'
<1> USE NoneAssumption DEF TypeInv, TypeOK, LinkInv, Places, wire, notifier, Goes
<1>1. CASE Register(k)
  BY <1>1 DEF Register
<1>2. CASE SetOnline(k)
  BY <1>2 DEF SetOnline, FindStatus, SaveStatus
<1>3. CASE OnlineHook(k)
  BY <1>3 DEF OnlineHook
<1>4. CASE Hello(k)
  BY <1>4 DEF Hello
<1>5. CASE Leave(k)
  BY <1>5 DEF Leave
<1>6. CASE Remove(k)
  BY <1>6 DEF Remove
<1>7. CASE SetOffline(k)
  BY <1>7 DEF SetOffline, FindStatus, SaveStatus
<1>8. CASE OfflineHook(k)
  BY <1>8 DEF OfflineHook
<1>9. QED
  BY <1>1, <1>2, <1>3, <1>4, <1>5, <1>6, <1>7, <1>8 DEF Serve

(* The connection the agent is using, once registered and until it is      *)
(* closed, is the one the hub dispatches commands to: an old connection's  *)
(* deferred registry.remove never takes its place.                         *)
THEOREM LiveIsRegisteredTheorem == Spec => []LiveIsRegistered
<1>1. Init => LinkInv
  BY NoneAssumption DEF Init, LinkInv
<1>2. TypeInv /\ LinkInv /\ [Next]_vars => LinkInv'
  <2> SUFFICES ASSUME TypeInv, LinkInv, [Next]_vars PROVE LinkInv'
    OBVIOUS
  <2> USE NoneAssumption DEF LinkInv, wire, hub
  <2>1. ASSUME NEW k \in Conns, Dial(k) PROVE LinkInv'
    BY <2>1 DEF Dial, Goes, TypeInv, TypeOK
  <2>2. ASSUME NEW t \in Timers, Tick(t) PROVE LinkInv'
    BY <2>2 DEF Tick, TimerFires, TimerClears, TimerChecks, TimerPages
  <2>3. CASE Break \/ Superseded \/ HubRestart \/ Toggle
    BY <2>3 DEF Break, Superseded, HubRestart, Toggle
  <2>4. CASE UNCHANGED vars
    BY <2>4 DEF vars
  <2>5. QED BY <2>1, <2>2, <2>3, <2>4, ServeLink DEF Next
<1>3. LinkInv => LiveIsRegistered
  BY DEF LinkInv, LiveIsRegistered
<1>4. QED BY <1>1, <1>2, <1>3, TypeInvariant, PTL DEF Spec

-----------------------------------------------------------------------------
(* The status.                                                             *)

\* The status the registry asks for, and the places of a handler on its way to
\* write it: about to fetch the record, or holding one that was fetched.
Due    == IF reg = None THEN "offline" ELSE "online"
Finds  == IF reg = None THEN "offline" ELSE "online"
Saves  == IF reg = None THEN "savingOffline" ELSE "savingOnline"

\* Unless something overtook it, the status is the one that is due, or some
\* handler will write it for certain: the record it fetched, or is about to
\* fetch, holds the other status, so the save does not leave the row alone.
StatusInv ==
  ~overtaken =>
    \/ status = Due
    \/ \E k \in Conns : handler[k] = Finds
    \/ \E k \in Conns : handler[k] = Saves /\ found[k] # Due

(* A find leaves the status due, or in the hands of a handler.             *)
LEMMA FindStatusInv ==
  ASSUME TypeInv, StatusInv, NEW k \in Conns,
         \/ FindStatus(k, "online", "savingOnline", "serving")
         \/ FindStatus(k, "offline", "savingOffline", "idle")
  PROVE  StatusInv'
<1>1. SUFFICES ASSUME ~overtaken', status' # Due'
               PROVE  \E j \in Conns :
                        \/ handler'[j] = Finds'
                        \/ handler'[j] = Saves' /\ found'[j] # Due'
  BY DEF StatusInv
<1>2. UNCHANGED <<reg, status, overtaken>>
  BY <1>1 DEF FindStatus
<1>3. Due' = Due /\ Finds' = Finds /\ Saves' = Saves
  BY <1>2 DEF Due, Finds, Saves
<1>4. PICK j \in Conns : handler[j] = Finds \/ (handler[j] = Saves /\ found[j] # Due)
  BY <1>1, <1>2, <1>3 DEF StatusInv
<1>5. CASE j # k
  BY <1>1, <1>3, <1>4, <1>5 DEF FindStatus, Goes, TypeInv, TypeOK
<1>6. CASE j = k
  <2>1. handler[k] = Finds /\ handler'[k] = Saves
    BY <1>1, <1>4, <1>6 DEF FindStatus, Goes, TypeInv, TypeOK, Finds, Saves
  <2>2. found'[k] = status
    BY <1>1 DEF FindStatus, TypeInv, TypeOK
  <2>3. QED BY <1>1, <1>2, <1>3, <2>1, <2>2
<1>7. QED BY <1>5, <1>6

(* A save leaves the status due, or in the hands of a handler.             *)
LEMMA SaveStatusInv ==
  ASSUME TypeInv, StatusInv, NEW k \in Conns,
         \/ SaveStatus(k, "online", "savingOnline", "onlineHook", "serving")
         \/ SaveStatus(k, "offline", "savingOffline", "offlineHook", "idle")
  PROVE  StatusInv'
<1>1. SUFFICES ASSUME ~overtaken', status' # Due'
               PROVE  \E j \in Conns :
                        \/ handler'[j] = Finds'
                        \/ handler'[j] = Saves' /\ found'[j] # Due'
  BY DEF StatusInv
<1>2. ~overtaken /\ UNCHANGED reg /\ handler[k] = Saves /\ status' \in Leaves(Due, found[k])
  BY <1>1 DEF SaveStatus, Overtakes, Due, Saves, Goes
<1>3. Due' = Due /\ Finds' = Finds /\ Saves' = Saves
  BY <1>2 DEF Due, Finds, Saves
<1>4. found[k] = Due /\ status' = status
  BY <1>1, <1>2, <1>3 DEF Leaves
<1>5. PICK j \in Conns : handler[j] = Finds \/ (handler[j] = Saves /\ found[j] # Due)
  BY <1>1, <1>2, <1>3, <1>4 DEF StatusInv
<1>6. j # k
  BY <1>2, <1>4, <1>5 DEF Finds, Saves
<1>7. QED
  BY <1>3, <1>5, <1>6 DEF SaveStatus, Goes, TypeInv, TypeOK

(* A handler's step leaves the status due, or in the hands of a handler.   *)
LEMMA ServeStatus ==
  ASSUME TypeInv, StatusInv, NEW k \in Conns, Serve(k)
  PROVE  StatusInv'
<1> USE NoneAssumption DEF TypeInv, TypeOK, StatusInv, Due, Finds, Saves, Places, wire,
      notifier, history, Goes
<1>1. CASE Register(k)
  BY <1>1 DEF Register
<1>2. CASE SetOnline(k)
  BY <1>2, FindStatusInv, SaveStatusInv DEF SetOnline
<1>3. CASE OnlineHook(k)
  BY <1>3 DEF OnlineHook
<1>4. CASE Hello(k)
  <2>1. SUFFICES ASSUME ~overtaken', status' # Due'
                 PROVE  \E j \in Conns :
                          \/ handler'[j] = Finds'
                          \/ handler'[j] = Saves' /\ found'[j] # Due'
    OBVIOUS
  <2>2. ~overtaken /\ UNCHANGED <<reg, found>>
    BY <1>4, <2>1 DEF Hello
  <2>3. status # Due
    BY <1>4, <2>1 DEF Hello, HelloLeaves, Leaves, Overtakes, Statuses
  <2>4. QED BY <1>4, <2>2, <2>3 DEF Hello
<1>5. CASE Leave(k)
  BY <1>5 DEF Leave
<1>6. CASE Remove(k)
  BY <1>6 DEF Remove
<1>7. CASE SetOffline(k)
  BY <1>7, FindStatusInv, SaveStatusInv DEF SetOffline
<1>8. CASE OfflineHook(k)
  BY <1>8 DEF OfflineHook
<1>9. QED
  BY <1>1, <1>2, <1>3, <1>4, <1>5, <1>6, <1>7, <1>8 DEF Serve

(* Once the saves under way are done, the status shown is the registry's,  *)
(* however the finds and saves of the handlers interleave, unless since    *)
(* the registry last changed a handler that changed it earlier saved the   *)
(* other status, a find or save failed, or the hub restarted.              *)
THEOREM StatusTheorem == Spec => []StatusFollowsRegistry
<1>1. Init => StatusInv
  BY DEF Init, StatusInv, Due
<1>2. TypeInv /\ StatusInv /\ [Next]_vars => StatusInv'
  <2> SUFFICES ASSUME TypeInv, StatusInv, [Next]_vars PROVE StatusInv'
    OBVIOUS
  <2> USE DEF StatusInv, Due, Finds, Saves, hub, history
  <2>1. ASSUME NEW k \in Conns, Dial(k) PROVE StatusInv'
    BY <2>1 DEF Dial, Goes, TypeInv, TypeOK
  <2>2. ASSUME NEW t \in Timers, Tick(t) PROVE StatusInv'
    BY <2>2 DEF Tick, TimerFires, TimerClears, TimerChecks, TimerPages
  <2>3. CASE HubRestart
    BY <2>3, Zenon DEF HubRestart
  <2>4. CASE Break \/ Superseded \/ Toggle
    BY <2>4 DEF Break, Superseded, Toggle
  <2>5. CASE UNCHANGED vars
    BY <2>5 DEF vars
  <2>6. QED BY <2>1, <2>2, <2>3, <2>4, <2>5, ServeStatus DEF Next
<1>3. TypeInv /\ StatusInv => StatusFollowsRegistry
  BY DEF TypeInv, TypeOK, Statuses, StatusInv, Due, Finds, Saves, StatusFollowsRegistry
<1>4. QED BY <1>1, <1>2, <1>3, TypeInvariant, PTL DEF Spec

-----------------------------------------------------------------------------
(* The offline page.                                                       *)

\* An outage that is owed a page is in the hands of a hook that has yet to see
\* it, or of a grace timer on its way to the check that will: the timer in
\* offlineAt, or one that a later callback deleted from there.
OutageIsInHand ==
  owed =>
    \/ \E k \in Conns : handler[k] = "offlineHook"
    \/ \E t \in Timers : timer[t] # "idle"

\* While it is owed the row says "offline", and no online hook can run before a
\* save of "online" has ended the outage: none is pending, and every record a
\* handler holds was fetched as "offline", so saving it writes the row.
OwedInv ==
  owed =>
    /\ status = "offline"
    /\ \A k \in Conns :
         /\ handler[k] \notin {"onlineHook", "helloHook"}
         /\ loaded[k] = "offline"
         /\ handler[k] = "savingOnline" => found[k] = "offline"

\* serveWS's record is forgotten with the loop that reads it.
LoadedInv ==
  \A k \in Conns :
    handler[k] \in {"idle", "leaving", "offline", "savingOffline", "offlineHook"}
      => loaded[k] = "offline"

OutageInv == OutageIsInHand /\ OwedInv /\ LoadedInv

(* A find or save of a status lets go of no outage.                        *)
LEMMA SetStatusOutage ==
  ASSUME TypeInv, OutageInv, NEW k \in Conns, SetOnline(k) \/ SetOffline(k)
  PROVE  OutageInv'
<1> USE DEF TypeInv, TypeOK, Goes, Places, Statuses, notifier
<1>1. LoadedInv'
  BY DEF OutageInv, LoadedInv, SetOnline, SetOffline, FindStatus, SaveStatus
<1>2. ASSUME owed' PROVE OwedInv' /\ OutageIsInHand'
  <2>1. CASE FindStatus(k, "online", "savingOnline", "serving")
    BY <1>2, <2>1 DEF OutageInv, OwedInv, OutageIsInHand, FindStatus
  <2>2. CASE FindStatus(k, "offline", "savingOffline", "idle")
    BY <1>2, <2>2 DEF OutageInv, OwedInv, OutageIsInHand, FindStatus
  <2>3. CASE SaveStatus(k, "online", "savingOnline", "onlineHook", "serving")
    BY <1>2, <2>3 DEF OutageInv, OwedInv, OutageIsInHand, SaveStatus, Leaves
  <2>4. CASE SaveStatus(k, "offline", "savingOffline", "offlineHook", "idle")
    <3>1. CASE owed
      BY <1>2, <2>4, <3>1 DEF OutageInv, OwedInv, OutageIsInHand, SaveStatus, Leaves
    <3>2. CASE ~owed
      <4>1. /\ status' = "offline" /\ Alone(k) /\ UNCHANGED loaded
            /\ handler[k] = "savingOffline" /\ handler' = [handler EXCEPT ![k] = "offlineHook"]
        BY <1>2, <2>4, <3>2 DEF SaveStatus
      <4>2. \A j \in Conns \ {k} : handler[j] = "idle"
        BY <4>1 DEF Alone
      <4>3. QED
        BY <4>1, <4>2 DEF OutageInv, OwedInv, OutageIsInHand, LoadedInv
    <3>3. QED BY <3>1, <3>2
  <2>5. QED BY <2>1, <2>2, <2>3, <2>4 DEF SetOnline, SetOffline
<1>3. QED BY <1>1, <1>2 DEF OutageInv, OwedInv, OutageIsInHand

(* No handler's step lets go of an outage.                                 *)
LEMMA ServeOutage ==
  ASSUME TypeInv, OutageInv, NEW k \in Conns, Serve(k)
  PROVE  OutageInv'
<1> USE NoneAssumption DEF TypeInv, TypeOK, EntryIsAlive, OutageInv, OutageIsInHand, OwedInv,
      LoadedInv, Places, Statuses, wire, notifier, history, Goes
<1>1. CASE Register(k)
  BY <1>1 DEF Register
<1>2. CASE SetOnline(k) \/ SetOffline(k)
  BY <1>2, SetStatusOutage
<1>3. CASE OnlineHook(k)
  <2>1. ~owed /\ ~owed'
    BY <1>3 DEF OnlineHook
  <2>2. LoadedInv'
    BY <1>3 DEF OnlineHook
  <2>3. QED BY <2>1, <2>2
<1>4. CASE Hello(k)
  <2>1. LoadedInv'
    BY <1>4 DEF Hello
  <2>2. ASSUME owed' PROVE OwedInv' /\ OutageIsInHand'
    <3>1. owed /\ Goes(k, "serving", "serving")
          /\ UNCHANGED <<status, wire, reg, loaded, found, notifier>>
      BY <1>4, <2>2 DEF Hello, HelloLeaves, Leaves
    <3>2. QED BY <2>2, <3>1
  <2>3. QED BY <2>1, <2>2
<1>5. CASE Leave(k)
  BY <1>5 DEF Leave
<1>6. CASE Remove(k)
  BY <1>6 DEF Remove
<1>7. CASE OfflineHook(k)
  BY <1>7 DEF OfflineHook
<1>8. QED
  BY <1>1, <1>2, <1>3, <1>4, <1>5, <1>6, <1>7 DEF Serve

(* An outage saved while no other connection had a handler left stays, until *)
(* it is paged, with a hook or a grace timer: no online hook and no callback *)
(* of an earlier outage lets go of it.  What the liveness property           *)
(* OutageIsPaged needs besides fairness.                                     *)
THEOREM OutageTheorem == Spec => []OutageIsInHand
<1>1. Init => OutageInv
  BY DEF Init, OutageInv, OutageIsInHand, OwedInv, LoadedInv
<1>2. TypeInv /\ OutageInv /\ [Next]_vars => OutageInv'
  <2> SUFFICES ASSUME TypeInv, OutageInv, [Next]_vars PROVE OutageInv'
    OBVIOUS
  <2> USE DEF OutageInv, OutageIsInHand, OwedInv, LoadedInv, TypeInv, TypeOK, hub, notifier, history
  <2>1. ASSUME NEW k \in Conns, Dial(k) PROVE OutageInv'
    BY <2>1 DEF Dial, Goes
  <2>2. ASSUME NEW t \in Timers, Tick(t) PROVE OutageInv'
    <3>1. UNCHANGED <<hub, status>>
      BY <2>2 DEF Tick, TimerFires, TimerClears, TimerChecks, TimerPages
    <3>2. owed' => owed /\ \E u \in Timers : timer'[u] # "idle"
      BY <2>2 DEF Tick, TimerGoes, TimerFires, TimerClears, TimerChecks, TimerPages
    <3>3. QED BY <3>1, <3>2
  <2>3. CASE HubRestart
    <3>1. ~owed' /\ loaded' = [k \in Conns |-> "offline"]
      BY <2>3, Zenon DEF HubRestart
    <3>2. QED BY <3>1
  <2>4. CASE Break \/ Superseded \/ Toggle
    BY <2>4 DEF Break, Superseded, Toggle
  <2>5. CASE UNCHANGED vars
    BY <2>5 DEF vars
  <2>6. QED BY <2>1, <2>2, <2>3, <2>4, <2>5, ServeOutage DEF Next
<1>3. OutageInv => OutageIsInHand
  BY DEF OutageInv
<1>4. QED BY <1>1, <1>2, <1>3, TypeInvariant, PTL DEF Spec
=============================================================================
