------------------------------- MODULE HubLink ------------------------------
(***************************************************************************)
(* One agent's connections to the hub, the status the hub keeps of its     *)
(* system, and the page sent when it stays away: serveWS, onHello and the  *)
(* registry (hub/internal/agenthub), onSystemUpdate (hub/internal/notify), *)
(* and the reconnect loop of the agent (agent/internal/daemon).            *)
(*                                                                         *)
(* Each connection has a handler goroutine on the hub.  It changes the     *)
(* registry under a lock, fetches the record, saves it, and runs the hooks *)
(* of the save in separate steps: handlers of an old and a new connection  *)
(* interleave, and one's save may rest on a record fetched before          *)
(* another's.                                                              *)
(***************************************************************************)
EXTENDS Naturals, FiniteSets

CONSTANTS
  Conns,      \* connections that can be in progress at a time
  Timers,     \* grace timers that can be alive at a time
  MaxFaults,  \* bound: lost connections, hub restarts, failed saves, toggled settings
  None        \* no connection, no timer

ASSUME NoneAssumption == None \notin Conns \cup Timers
ASSUME FaultAssumption == MaxFaults \in Nat

VARIABLES
  link,      \* agent: the connection d.Run is using
  cut,       \* connections whose next read fails on the hub
  reg,       \* r.conns[systemID]
  handler,   \* where each connection's serveWS is
  loaded,    \* the status in the record serveWS fetched before Accept
  found,     \* the status in the record setSystemStatus fetched
  greeted,   \* connections whose hello has been read
  status,    \* systems.status
  enabled,   \* settings.notify_system_offline, with an endpoint
  entry,     \* n.offlineAt[id]
  timer,     \* where each grace timer is
  notified,  \* n.notified[id]
  overtaken, \* history: since the registry last changed, a save of the other status,
             \* a failed one or a restart
  owed,      \* history: a page is owed for the outage
  faults

wire     == <<link, cut>>
hub      == <<reg, handler, loaded, found, greeted>>
notifier == <<entry, timer, notified>>
history  == <<overtaken, owed>>
vars     == <<wire, hub, status, enabled, notifier, history, faults>>

Statuses == {"online", "offline"}
Places == {"idle", "loaded", "online", "savingOnline", "onlineHook", "serving",
           "helloHook", "leaving", "offline", "savingOffline", "offlineHook"}

\* Every variable stays in its range; a timer in offlineAt is alive.
TypeOK ==
  /\ link \in Conns \cup {None} /\ cut \subseteq Conns
  /\ reg \in Conns \cup {None}
  /\ handler \in [Conns -> Places]
  /\ loaded \in [Conns -> Statuses] /\ found \in [Conns -> Statuses]
  /\ greeted \subseteq Conns /\ status \in Statuses
  /\ entry \in Timers => timer[entry] # "idle"
  /\ entry \in Timers \cup {None}
  /\ timer \in [Timers -> {"idle", "armed", "fired", "check", "mark"}]
  /\ enabled \in BOOLEAN /\ notified \in BOOLEAN /\ overtaken \in BOOLEAN /\ owed \in BOOLEAN
  /\ faults \in 0..MaxFaults

Init ==
  /\ link = None /\ cut = {} /\ reg = None
  /\ handler = [k \in Conns |-> "idle"]
  /\ loaded = [k \in Conns |-> "offline"] /\ found = loaded /\ greeted = {}
  /\ status = "offline" /\ enabled = TRUE
  /\ entry = None /\ timer = [t \in Timers |-> "idle"] /\ notified = FALSE
  /\ overtaken = FALSE /\ owed = FALSE
  /\ faults = 0

Fault == faults < MaxFaults /\ faults' = faults + 1

Goes(k, from, to) == handler[k] = from /\ handler' = [handler EXCEPT ![k] = to]

-----------------------------------------------------------------------------
(* The agent and the network.                                              *)

\* Run dials again as soon as consume returns; serveWS checks the signature
\* and has fetched the record.
Dial(k) ==
  /\ link = None /\ Goes(k, "idle", "loaded")
  /\ link' = k /\ cut' = cut \ {k}
  /\ loaded' = [loaded EXCEPT ![k] = status]
  /\ UNCHANGED <<reg, found, greeted, status, enabled, notifier, history, faults>>

\* The agent stops, or its connection breaks: the hub learns of it from a read.
Break ==
  /\ Fault /\ link # None
  /\ link' = None /\ cut' = cut \cup {link}
  /\ UNCHANGED <<hub, status, enabled, notifier, history>>

\* The agent reads the close of a connection that another one superseded.
Superseded ==
  /\ link \in cut /\ link' = None
  /\ UNCHANGED <<cut, hub, status, enabled, notifier, history, faults>>

-----------------------------------------------------------------------------
(* The registry and the record.                                            *)

\* registry.add closes the connection it replaces.
Register(k) ==
  /\ Goes(k, "loaded", "online")
  /\ reg' = k /\ cut' = cut \cup ({reg} \ {None})
  /\ overtaken' = FALSE
  /\ UNCHANGED <<link, loaded, found, greeted, status, enabled, notifier, owed, faults>>

\* The statuses that setting `s` on a record fetched as `had` and saving it can
\* leave in the row: a save that writes only the fields it changed leaves the
\* row alone when `had` is `s`.
Leaves(s, had) == {s} \cup (IF had = s THEN {status} ELSE {})

\* The registry has changed since the handler that sets `s` changed it.
Overtakes(s) == (s = "online") # (reg # None)

\* No other connection has a handler left: none of their hooks is to come.
Alone(k) == \A j \in Conns \ {k} : handler[j] = "idle"

\* setSystemStatus, FindRecordById: it returns on an error.
FindStatus(k, from, saving, failed) ==
  /\ \/ Goes(k, from, saving)
        /\ found' = [found EXCEPT ![k] = status] /\ UNCHANGED <<overtaken, faults>>
     \/ Goes(k, from, failed) /\ Fault
        /\ overtaken' = TRUE /\ UNCHANGED found
  /\ UNCHANGED <<wire, reg, loaded, greeted, status, enabled, notifier, owed>>

\* setSystemStatus, Save: one that fails runs no hook and is only logged.  The
\* record it fetched is forgotten.
SaveStatus(k, s, saving, hook, failed) ==
  /\ \/ /\ Goes(k, saving, hook)
        /\ status' \in Leaves(s, found[k])
        /\ overtaken' = (overtaken \/ Overtakes(s))
        /\ owed' = (status' = "offline" /\ (owed \/ (s = "offline" /\ Alone(k))))
        /\ UNCHANGED faults
     \/ /\ Goes(k, saving, failed) /\ Fault
        /\ overtaken' = TRUE /\ UNCHANGED <<status, owed>>
  /\ found' = [found EXCEPT ![k] = "offline"]
  /\ UNCHANGED <<wire, reg, loaded, greeted, enabled, notifier>>

SetOnline(k) ==
  \/ FindStatus(k, "online", "savingOnline", "serving")
  \/ SaveStatus(k, "online", "savingOnline", "onlineHook", "serving")

\* MUTANT: onHello saves the status of the record it was handed.
HelloReverts(k) == {loaded[k]}

\* onHello sets "online" on the record serveWS fetched before Accept.
HelloLeaves(k) == Leaves("online", loaded[k])

\* onHello.
Hello(k) ==
  /\ k \notin greeted /\ greeted' = greeted \cup {k}
  /\ \/ /\ Goes(k, "serving", "helloHook") /\ UNCHANGED faults
        /\ status' \in HelloLeaves(k)
        /\ overtaken' = (overtaken \/ Overtakes("online"))
        /\ owed' = (owed /\ status' = "offline")
     \/ Goes(k, "serving", "serving") /\ Fault /\ UNCHANGED <<status, history>>
  /\ UNCHANGED <<wire, reg, loaded, found, enabled, notifier>>

\* ws.Read fails, and the deferred function runs: nothing reads serveWS's record
\* any more.
Leave(k) ==
  /\ k \in cut /\ Goes(k, "serving", "leaving")
  /\ loaded' = [loaded EXCEPT ![k] = "offline"] /\ greeted' = greeted \ {k}
  /\ UNCHANGED <<wire, reg, found, status, enabled, notifier, history, faults>>

\* MUTANT: registry.remove does not look whose entry it deletes.
RemoveAny(k) ==
  /\ Goes(k, "leaving", "offline") /\ reg' = None /\ overtaken' = FALSE
  /\ UNCHANGED <<wire, loaded, found, greeted, status, enabled, notifier, owed, faults>>

\* registry.remove.
Remove(k) ==
  /\ IF reg = k THEN Goes(k, "leaving", "offline") /\ reg' = None /\ overtaken' = FALSE
                ELSE Goes(k, "leaving", "idle") /\ UNCHANGED <<reg, overtaken>>
  /\ UNCHANGED <<wire, loaded, found, greeted, status, enabled, notifier, owed, faults>>

SetOffline(k) ==
  \/ FindStatus(k, "offline", "savingOffline", "idle")
  \/ SaveStatus(k, "offline", "savingOffline", "offlineHook", "idle")

\* The hub stops and starts again: nothing resets the status it had stored.
HubRestart ==
  /\ Fault
  /\ link' = None /\ cut' = {} /\ reg' = None
  /\ handler' = [k \in Conns |-> "idle"]
  /\ loaded' = [k \in Conns |-> "offline"] /\ found' = loaded' /\ greeted' = {}
  /\ entry' = None /\ timer' = [t \in Timers |-> "idle"] /\ notified' = FALSE
  /\ overtaken' = TRUE /\ owed' = FALSE
  /\ UNCHANGED <<status, enabled>>

-----------------------------------------------------------------------------
(* The offline page.                                                       *)

\* The user turns the page on or off.
Toggle ==
  /\ Fault /\ enabled' = ~enabled
  /\ UNCHANGED <<wire, hub, status, notifier, history>>

\* MUTANT: the stopped timer stays in offlineAt.
KeepEntry ==
  /\ timer' = [t \in Timers |-> IF t = entry /\ timer[t] = "armed" THEN "idle" ELSE timer[t]]
  /\ notified' = FALSE
  /\ UNCHANGED entry

\* onSystemUpdate, "online": Stop does nothing for a timer that has fired.  The
\* hook looks at the record it was handed: one that comes late stops the timer
\* of an outage that began after its save.
Disarm ==
  /\ entry' = None
  /\ timer' = [t \in Timers |-> IF t = entry /\ timer[t] = "armed" THEN "idle" ELSE timer[t]]
  /\ notified' = FALSE

OnlineHook(k) ==
  /\ Goes(k, "onlineHook", "serving") \/ Goes(k, "helloHook", "serving")
  /\ Disarm
  /\ UNCHANGED <<wire, reg, loaded, found, greeted, status, enabled, history, faults>>

\* onSystemUpdate, "offline".
OfflineHook(k) ==
  /\ Goes(k, "offlineHook", "idle")
  /\ \/ entry # None /\ UNCHANGED <<notifier, owed>>
     \/ entry = None /\ ~enabled /\ owed' = FALSE /\ UNCHANGED notifier
     \/ /\ entry = None /\ enabled
        /\ \E t \in Timers :
             /\ timer[t] = "idle"
             /\ timer' = [timer EXCEPT ![t] = "armed"] /\ entry' = t
        /\ UNCHANGED <<notified, owed>>
  /\ UNCHANGED <<wire, reg, loaded, found, greeted, status, enabled, overtaken, faults>>

TimerGoes(t, from, to) == timer[t] = from /\ timer' = [timer EXCEPT ![t] = to]

\* The grace period is over; the callback has yet to take the lock.
TimerFires(t) ==
  /\ TimerGoes(t, "armed", "fired")
  /\ UNCHANGED <<wire, hub, status, enabled, entry, notified, history, faults>>


\* The callback deletes the entry, whichever timer's it is by now.
TimerClears(t) ==
  /\ TimerGoes(t, "fired", "check")
  /\ entry' = None
  /\ UNCHANGED <<wire, hub, status, enabled, notified, history, faults>>

\* It trusts the record, not the timer.
TimerChecks(t) ==
  /\ TimerGoes(t, "check", IF status = "offline" THEN "mark" ELSE "idle")
  /\ UNCHANGED <<wire, hub, status, enabled, entry, notified, history, faults>>

\* It notes and sends the page.
TimerPages(t) ==
  /\ TimerGoes(t, "mark", "idle")
  /\ notified' = TRUE /\ owed' = FALSE
  /\ UNCHANGED <<wire, hub, status, enabled, entry, overtaken, faults>>

Serve(k) == \/ Register(k) \/ SetOnline(k) \/ OnlineHook(k) \/ Hello(k) \/ Leave(k)
            \/ Remove(k) \/ SetOffline(k) \/ OfflineHook(k)
Tick(t)  == TimerFires(t) \/ TimerClears(t) \/ TimerChecks(t) \/ TimerPages(t)

Next ==
  \/ \E k \in Conns : Dial(k) \/ Serve(k)
  \/ \E t \in Timers : Tick(t)
  \/ Break \/ Superseded \/ HubRestart \/ Toggle

Spec == Init /\ [][Next]_vars

\* Goroutines are scheduled, a broken connection fails the hub's read in the
\* end (TCP keepalive), and timers fire.  The agent need never come back.
FairSpec ==
  Spec /\ (\A k \in Conns : WF_vars(Serve(k))) /\ (\A t \in Timers : WF_vars(Tick(t)))

-----------------------------------------------------------------------------
(* Properties.                                                             *)

\* The connection the agent is using, once registered and until it is closed,
\* is the one the hub dispatches commands to: no deferred function of an old
\* connection takes its place (registry.add, registry.remove).
LiveIsRegistered ==
  \A k \in Conns \ cut : link = k /\ handler[k] # "loaded" => reg = k

\* Once the saves under way are done, the status shown is the registry's: each
\* find and save of a handler may interleave with the others', and neither the
\* record serveWS fetched before the connection (onHello) nor a save that writes
\* only changed fields undoes it.  What may undo it is `overtaken`: since the
\* registry last changed, a handler that changed it earlier saved the other
\* status, a find or save failed, or the hub restarted.
StatusFollowsRegistry ==
  ~overtaken /\ (\A k \in Conns :
                   handler[k] \notin {"online", "savingOnline", "offline", "savingOffline"})
    => (status = "online") = (reg # None)

=============================================================================
