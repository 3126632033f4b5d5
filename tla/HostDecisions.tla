---------------------------- MODULE HostDecisions ---------------------------
(***************************************************************************)
(* What the host decides about definitions, and what the hub shows of it:  *)
(* the CLI's spool (agent/internal/appconfig, agent/main.go), spoolLoop    *)
(* and applyAppSync (agent/internal/daemon), and the hub's apps rows       *)
(* (hub/internal/agenthub/apps.go, hub/internal/appsapi), which requests   *)
(* of dashboards and the agent's frames change at the same time.           *)
(*                                                                         *)
(* AppLifecycle has what an approval allows to run; this module has how    *)
(* decisions travel.  Definitions are of processes; rows are not deleted.  *)
(***************************************************************************)
EXTENDS Naturals, Sequences, FiniteSets

CONSTANTS
  Apps,       \* row ids
  Hashes,     \* hashes of definitions
  Requests,   \* dashboard requests in progress at a time
  MaxEdits,   \* bound: definitions saved by dashboards
  MaxOps,     \* bound: operations of the host's CLI
  MaxFaults,  \* bound: lost connections and agent crashes
  None

ASSUME AppsAssumption  == IsFiniteSet(Apps)
ASSUME BoundAssumption == MaxEdits \in Nat /\ MaxOps \in Nat /\ MaxFaults \in Nat

VARIABLES
  hub,          \* apps rows: None or [hash, approval]
  local,        \* state.Apps, saved with every change: None or [hash, approval]
  link,         \* is there a connection
  down, up,     \* frames under way to the agent, to the hub
  work,         \* what each request, and the connection's handler, is doing on the hub
  sending,      \* approval events whose goroutine has not sent them yet
  spool,        \* files in the spool directory
  drained,      \* operations spoolLoop has read and not yet applied
  preApproved,  \* how often each hash is in d.preApproved
  consented,    \* history: hashes the host imported or approved
  fate,         \* history: per CLI operation: "given", "done" or "lost"
  astray,       \* history: apps with an event lost, reordered or overtaken by an edit
  edits, faults

agent == <<local, sending, drained, preApproved>>
cli   == <<spool, fate>>
wires == <<link, down, up>>
vars  == <<hub, wires, work, agent, cli, consented, astray, edits, faults>>

Conn      == "conn"  \* the connection's handler
Workers   == Requests \cup {Conn}
Approvals == {"pending", "approved", "rejected"}
Rows      == [hash : Hashes, approval : Approvals]

\* None is not a row, and the connection's handler is not a request.
ASSUME KindAssumption == None \notin Rows /\ Conn \notin Requests

Tables    == [Apps -> Rows \cup {None}]
Events    == [app : Apps, hash : Hashes, approval : Approvals]
Ops       == [n : 1..MaxOps, op : {"approve", "reject"}, app : Apps]
             \cup [n : 1..MaxOps, op : {"import"}, hash : Hashes]

\* What a worker is doing: nothing, about to save a row it has found, about
\* to read the rows for an app_sync, or about to send the ones it has read.
Nothing       == [at |-> "rest"]
Saving(a, was, new) == [at |-> "save", app |-> a, was |-> was, new |-> new]
ToSync        == [at |-> "read"]
Syncing(rows) == [at |-> "send", rows |-> rows]
Works == {Nothing, ToSync} \cup [at : {"send"}, rows : Tables]
         \cup [at : {"save"}, app : Apps, was : Rows \cup {None}, new : Rows]

\* Rows, decisions and frames are well formed.
TypeOK ==
  /\ hub \in Tables /\ local \in Tables
  /\ link \in BOOLEAN
  /\ down \in Seq(Tables) /\ up \in Seq(Events \cup [register : Hashes])
  /\ work \in [Workers -> Works] /\ sending \subseteq Events
  /\ spool \in Seq(Ops) /\ drained \in Seq(Ops)
  /\ preApproved \in [Hashes -> 0..MaxOps]
  /\ consented \subseteq Hashes /\ astray \subseteq Apps
  /\ fate \in Seq({"given", "done", "lost"}) /\ Len(fate) <= MaxOps
  /\ \A i \in 1..Len(spool) : fate[spool[i].n] = "given"
  /\ \A i \in 1..Len(drained) : fate[drained[i].n] = "given"
  /\ edits \in 0..MaxEdits /\ faults \in 0..MaxFaults

Init ==
  /\ hub = [a \in Apps |-> None] /\ local = hub
  /\ link = FALSE /\ down = <<>> /\ up = <<>>
  /\ work = [w \in Workers |-> Nothing]
  /\ sending = {} /\ spool = <<>> /\ drained = <<>>
  /\ preApproved = [h \in Hashes |-> 0]
  /\ consented = {} /\ fate = <<>> /\ astray = {}
  /\ edits = 0 /\ faults = 0

Does(w, next) == work' = [work EXCEPT ![w] = next]

-----------------------------------------------------------------------------
(* The hub: a handler finds a row, then saves it; others save in between.  *)

\* POST /api/bb/apps: a changed definition resets the approval.
FindForEdit(q, a, h) ==
  /\ edits < MaxEdits /\ edits' = edits + 1
  /\ work[q] = Nothing
  /\ LET row == hub[a]
         keep == row # None /\ row.hash = h
     IN  Does(q, Saving(a, row, [hash |-> h, approval |-> IF keep THEN row.approval ELSE "pending"]))
  /\ UNCHANGED <<hub, wires, agent, cli, consented, astray, faults>>

\* A save writes the whole row or only what the handler changed of it: where
\* nobody saved in between, the same.
Written(a, was, new) ==
  {new} \cup
  (IF was = None \/ hub[a] = None THEN {} ELSE
   {[hash     |-> IF new.hash = was.hash THEN hub[a].hash ELSE new.hash,
     approval |-> IF new.approval = was.approval THEN hub[a].approval ELSE new.approval]})

\* The save.  The handler of the connection goes on to its next frame, a
\* request to SyncSystem.  Two requests never create one id.
Save(w) ==
  /\ work[w].at = "save"
  /\ LET s == work[w] IN
       /\ s.was # None \/ hub[s.app] = None
       /\ \E row \in Written(s.app, s.was, s.new) : hub' = [hub EXCEPT ![s.app] = row]
       /\ astray' = IF hub[s.app] = s.was THEN astray ELSE astray \cup {s.app}
  /\ Does(w, IF w = Conn THEN Nothing ELSE ToSync)
  /\ UNCHANGED <<wires, agent, cli, consented, edits, faults>>

\* sendAppSync reads every row; SyncSystem does so only for a live connection.
ReadRows(w) ==
  /\ work[w].at = "read"
  /\ Does(w, IF link THEN Syncing(hub) ELSE Nothing)
  /\ UNCHANGED <<hub, wires, agent, cli, consented, astray, edits, faults>>

\* c.send: whoever takes sendMu first is first.
SendRows(w) ==
  /\ work[w].at = "send"
  /\ down' = Append(down, work[w].rows)
  /\ Does(w, Nothing)
  /\ UNCHANGED <<hub, link, up, agent, cli, consented, astray, edits, faults>>

\* MUTANT: an approval of any definition of the app counts.
ConcernsApp(e) == hub[e.app] # None

\* onApprovalEvent ignores an approval of another definition.
Concerns(e) == hub[e.app] # None /\ hub[e.app].hash = e.hash

\* handleFrame: the connection's handler finds the row.
HearEvent ==
  /\ work[Conn] = Nothing /\ up # <<>> /\ "app" \in DOMAIN Head(up)
  /\ up' = Tail(up)
  /\ LET e == Head(up) IN
       IF Concerns(e)
         THEN Does(Conn, Saving(e.app, hub[e.app], [hub[e.app] EXCEPT !.approval = e.approval]))
         ELSE UNCHANGED work
  /\ UNCHANGED <<hub, link, down, agent, cli, consented, astray, edits, faults>>

\* onAppRegister: a definition the system already has gets no second row, and
\* keeps its approval; a new one is approved.  Then it syncs.
HearRegister ==
  /\ work[Conn] = Nothing /\ up # <<>> /\ "register" \in DOMAIN Head(up)
  /\ up' = Tail(up)
  /\ LET h == Head(up).register
         known == \E a \in Apps : hub[a] # None /\ hub[a].hash = h
     IN  \/ known /\ UNCHANGED hub
         \/ /\ ~known
            /\ \E a \in Apps : /\ hub[a] = None
                               /\ \A q \in Requests : work[q].at = "save" => work[q].app # a
                               /\ hub' = [hub EXCEPT ![a] = [hash |-> h, approval |-> "approved"]]
  /\ Does(Conn, ToSync)
  /\ UNCHANGED <<link, down, agent, cli, consented, astray, edits, faults>>

-----------------------------------------------------------------------------
(* The connection.                                                         *)

\* The agent's hello is answered with an app_sync; its digest is not read.
\* The old connection's handler has finished the frame it was at.
Connect ==
  /\ ~link /\ link' = TRUE /\ work[Conn] = Nothing
  /\ Does(Conn, ToSync)
  /\ UNCHANGED <<hub, down, up, agent, cli, consented, astray, edits, faults>>

InFlight == {up[i].app : i \in {j \in DOMAIN up : "app" \in DOMAIN up[j]}}

\* What is under way is lost, and so is what a handler would still send.
Drop ==
  /\ link' = FALSE /\ down' = <<>> /\ up' = <<>>
  /\ work' = [w \in Workers |-> IF w # Conn /\ work[w].at # "send" THEN work[w]
                                ELSE IF work[w].at = "save" THEN work[w] ELSE Nothing]

Fault == faults < MaxFaults /\ faults' = faults + 1

Disconnect ==
  /\ Fault /\ link /\ Drop
  /\ astray' = astray \cup InFlight
  /\ UNCHANGED <<hub, agent, cli, consented, edits>>

\* The agent dies: state.json and the spool directory survive.
Crash ==
  /\ Fault /\ Drop
  /\ sending' = {} /\ drained' = <<>>
  /\ preApproved' = [h \in Hashes |-> 0]
  /\ fate' = [n \in DOMAIN fate |->
                IF \E i \in DOMAIN drained : drained[i].n = n THEN "lost" ELSE fate[n]]
  /\ astray' = astray \cup InFlight \cup {e.app : e \in sending}
  /\ UNCHANGED <<hub, local, spool, consented, edits>>

-----------------------------------------------------------------------------
(* The agent.                                                              *)

\* d.send of an event: with no connection it is sent to nobody; it may
\* overtake one that a goroutine has yet to send.
Tell(e, waiting) ==
  /\ up' = IF link THEN Append(up, e) ELSE up
  /\ astray' = IF link /\ \A x \in waiting : x.app # e.app THEN astray ELSE astray \cup {e.app}

\* applyAppSync for one app: the row it leaves.
Adopted(a, row) ==
  IF local[a] # None /\ row # None /\ local[a].hash = row.hash THEN local[a]
  ELSE IF row = None THEN None
  ELSE [hash |-> row.hash,
        approval |-> IF preApproved[row.hash] > 0 THEN "approved" ELSE "pending"]

\* applyAppSync.  The list is in no order: of two new apps with one
\* pre-approved hash, the model approves only when there is enough for both.
Sync ==
  /\ down # <<>> /\ down' = Tail(down)
  /\ LET rows == Head(down)
         new  == {a \in Apps : rows[a] # None /\ Adopted(a, rows[a]) # local[a]}
         uses(h) == Cardinality({a \in new : rows[a].hash = h})
     IN  /\ \A h \in Hashes : preApproved[h] = 0 \/ uses(h) <= preApproved[h]
         /\ local' = [a \in Apps |-> Adopted(a, rows[a])]
         /\ preApproved' = [h \in Hashes |-> IF preApproved[h] = 0 THEN 0 ELSE preApproved[h] - uses(h)]
         /\ LET told == {[app |-> a, hash |-> local'[a].hash, approval |-> local'[a].approval] : a \in new}
            IN  /\ astray' = astray \cup {e.app : e \in told \cap sending}
                /\ sending' = sending \cup told
  /\ UNCHANGED <<hub, link, up, work, drained, cli, consented, edits, faults>>

\* The goroutine of an event runs.
SendEvent(e) ==
  /\ e \in sending /\ sending' = sending \ {e}
  /\ Tell(e, sending')
  /\ UNCHANGED <<hub, link, down, work, local, drained, preApproved, cli, consented, edits, faults>>

\* breakerbox-agent apps approve, reject: the app must be in state.json.
CliDecide(op, a) ==
  /\ Len(fate) < MaxOps /\ local[a] # None
  /\ fate' = Append(fate, "given")
  /\ spool' = Append(spool, [n |-> Len(fate'), op |-> op, app |-> a])
  /\ UNCHANGED <<hub, wires, work, agent, consented, astray, edits, faults>>

\* breakerbox-agent apps import.
CliImport(h) ==
  /\ Len(fate) < MaxOps
  /\ fate' = Append(fate, "given")
  /\ spool' = Append(spool, [n |-> Len(fate'), op |-> "import", hash |-> h])
  /\ consented' = consented \cup {h}
  /\ UNCHANGED <<hub, wires, work, agent, astray, edits, faults>>

\* MUTANT: Drain empties the directory, not only what it has listed.
DrainAll ==
  /\ spool # <<>> /\ drained = <<>>
  /\ \E n \in 1..Len(spool) : drained' = SubSeq(spool, 1, n)
  /\ spool' = <<>>
  /\ UNCHANGED <<hub, wires, work, local, sending, preApproved, fate, consented, astray, edits, faults>>

\* MUTANT: Drain leaves the files where they are.
DrainKeeps ==
  /\ spool # <<>> /\ drained = <<>>
  /\ \E n \in 1..Len(spool) : drained' = SubSeq(spool, 1, n)
  /\ UNCHANGED <<hub, wires, work, local, sending, preApproved, fate, consented, astray, edits, faults, spool>>

\* Store.Drain takes the files it listed, oldest first.
Drain ==
  /\ spool # <<>> /\ drained = <<>>
  /\ \E n \in 1..Len(spool) : drained' = SubSeq(spool, 1, n) /\ spool' = SubSeq(spool, n + 1, Len(spool))
  /\ UNCHANGED <<hub, wires, work, local, sending, preApproved, fate, consented, astray, edits, faults>>

Done == drained # <<>> /\ drained' = Tail(drained) /\ fate' = [fate EXCEPT ![Head(drained).n] = "done"]

\* applySpoolOp, import: the register frame is sent to nobody when offline.
ApplyImport ==
  /\ Done /\ Head(drained).op = "import"
  /\ LET h == Head(drained).hash IN
       /\ preApproved' = [preApproved EXCEPT ![h] = @ + 1]
       /\ up' = IF link THEN Append(up, [register |-> h]) ELSE up
  /\ UNCHANGED <<hub, link, down, work, local, sending, spool, consented, astray, edits, faults>>

\* MUTANT: only an approval is reported to the hub.
ReportApproval(e) == IF e.approval = "approved" THEN Tell(e, sending) ELSE UNCHANGED <<up, astray>>

\* The decision is reported on the spool's own goroutine.
Report(e) == Tell(e, sending)

\* applySpoolOp, approve and reject: whatever definition the app has by now.
ApplyDecision ==
  /\ Done /\ Head(drained).op # "import"
  /\ LET a == Head(drained).app
         approval == IF Head(drained).op = "approve" THEN "approved" ELSE "rejected"
     IN  IF local[a] = None THEN UNCHANGED <<local, consented, up, astray>>
         ELSE /\ local' = [local EXCEPT ![a].approval = approval]
              /\ consented' = IF approval = "approved" THEN consented \cup {local[a].hash} ELSE consented
              /\ Report([app |-> a, hash |-> local[a].hash, approval |-> approval])
  /\ UNCHANGED <<hub, link, down, work, sending, preApproved, spool, edits, faults>>

-----------------------------------------------------------------------------
Next ==
  \/ \E q \in Requests, a \in Apps, h \in Hashes : FindForEdit(q, a, h)
  \/ \E w \in Workers : Save(w) \/ ReadRows(w) \/ SendRows(w)
  \/ HearEvent \/ HearRegister
  \/ Connect \/ Disconnect \/ Crash
  \/ Sync \/ \E e \in sending : SendEvent(e)
  \/ \E a \in Apps : CliDecide("approve", a) \/ CliDecide("reject", a)
  \/ \E h \in Hashes : CliImport(h)
  \/ Drain \/ ApplyImport \/ ApplyDecision

Spec == Init /\ [][Next]_vars

-----------------------------------------------------------------------------
(* Properties.                                                             *)

\* The hub shows "approved" only beside a definition the host has approved or
\* imported, in whatever order edits, approvals and syncs arrive
\* (onApprovalEvent, onAppRegister), unless an edit fell between the find and
\* the save of an approval.
HubShowsConsent ==
  \A a \in Apps \ astray :
    hub[a] # None /\ hub[a].approval = "approved" => hub[a].hash \in consented

\* What the user told the CLI is waiting, applied or lost in a crash of the
\* agent, and is applied in the order it was told (Store.Enqueue, Store.Drain,
\* spoolLoop).
DecisionsAccounted ==
  LET waiting == drained \o spool IN
    /\ \A n \in DOMAIN fate :
         (fate[n] = "given") <=> \E i \in DOMAIN waiting : waiting[i].n = n
    /\ \A i, j \in DOMAIN waiting : i < j => waiting[i].n < waiting[j].n
    /\ \A n \in DOMAIN fate, i \in DOMAIN waiting : fate[n] = "done" => n < waiting[i].n

\* With nothing under way, and unless an event was lost or came out of order,
\* a decision the hub shows is the host's last one (applySpoolOp, applyAppSync,
\* onApprovalEvent).
Quiet ==
  /\ link /\ down = <<>> /\ up = <<>> /\ sending = {}
  /\ \A w \in Workers : work[w] = Nothing
HubShowsDecision ==
  Quiet => \A a \in Apps \ astray :
    hub[a] # None /\ local[a] # None /\ hub[a].hash = local[a].hash
      /\ hub[a].approval # "pending" => hub[a].approval = local[a].approval
=============================================================================
