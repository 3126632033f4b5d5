---------------------------- MODULE CommandRecord ---------------------------
(***************************************************************************)
(* The commands collection of the hub, the path a command and its answers  *)
(* take, and everyone who writes a command's status: the dispatch hook     *)
(* (hub/internal/agenthub/hub.go), the handler of each agent connection    *)
(* (the same file) and the timeout sweeper (hub/internal/commands).  What  *)
(* the agent does with a command is AppLifecycle; here it only takes time  *)
(* and ends well or badly.                                                 *)
(*                                                                         *)
(* Every writer saves a copy of the row it has loaded before, so each save *)
(* sets the status whatever it has become meanwhile.                       *)
(***************************************************************************)
EXTENDS Naturals, Sequences, FiniteSets

CONSTANTS
  Cmds,       \* command records
  Conns,      \* connections of the agent, in the order it dials them
  MaxFaults,  \* bound: crashes, broken connections, failed writes, dropped frames
  None        \* no connection, no frame

ASSUME ConnAssumption  == /\ Cardinality(Conns) \in Nat /\ Conns = 1..Cardinality(Conns)
                          /\ None \notin Conns
ASSUME FaultAssumption == MaxFaults \in Nat

Final    == {"done", "failed", "timeout"}
Statuses == Final \cup {"pending", "dispatched", "acked"}
Frames   == [t : {"ack", "done", "failed"}, cmd : Cmds]

VARIABLES
  row,       \* the record's status, "none" before it is created
  old,       \* its `updated` is longer ago than dispatchTimeout
  hook,      \* the AfterCreate hook: to dispatch, or with an outcome to save
  swept,     \* rows the sweeper has queried and not saved yet
  reg,       \* the registry's connection of the system, or None
  handling,  \* per connection: the frame its handler has read, or None
  inbox,     \* per connection: frames from the agent that nobody has read
  link,      \* the connection the agent has, or None
  dialled,   \* how many connections the agent has opened
  toAgent,   \* commands on their way on that connection
  exec,      \* the agent's goroutine for the command
  outcome,   \* how its execution ended
  answered,  \* history: the commands whose result the hub has saved
  faults     \* how many faults there have been

hubVars   == <<row, old, hook, swept, answered>>
connVars  == <<reg, handling, inbox, link, dialled, toAgent>>
agentVars == <<exec, outcome>>
vars      == <<hubVars, connVars, agentVars, faults>>

\* The rows, the frames and the goroutines range over what the code names.
TypeOK ==
  /\ row \in [Cmds -> Statuses \cup {"none"}] /\ old \in [Cmds -> BOOLEAN]
  /\ hook \in [Cmds -> {"idle", "dispatch", "sent", "unsent"}]
  /\ swept \subseteq Cmds /\ answered \subseteq Cmds
  /\ reg \in Conns \cup {None} /\ link \in Conns \cup {None}
  /\ handling \in [Conns -> Frames \cup {None}]
  /\ inbox \in [Conns -> Seq(Frames)]
  /\ dialled \in 0..Cardinality(Conns) /\ toAgent \subseteq Cmds
  /\ exec \in [Cmds -> {"none", "ack", "work", "answer", "finished"}]
  /\ outcome \in [Cmds -> {"none", "done", "failed"}]
  /\ faults \in 0..MaxFaults

Fault == faults < MaxFaults /\ faults' = faults + 1

\* app.Save of a loaded record: the status is set and `updated` is now.
SetStatus(c, status) ==
  /\ row' = [row EXCEPT ![c] = status]
  /\ old' = [old EXCEPT ![c] = FALSE]

\* app.Save returns an error: each writer logs it and goes on.
SaveFails == Fault /\ UNCHANGED <<row, old>>

-----------------------------------------------------------------------------
(* The create request and its AfterCreate hook.                            *)

Create(c) ==
  /\ row[c] = "none"
  /\ SetStatus(c, "pending")
  /\ hook' = [hook EXCEPT ![c] = "dispatch"]
  /\ UNCHANGED <<swept, answered, connVars, agentVars, faults>>

\* Dispatch to the registered connection.  A write on a connection that is
\* already dead may still succeed; one that fails may have got through.
Dispatch(c) ==
  /\ hook[c] = "dispatch"
  /\ \/ /\ reg # None
        /\ hook' = [hook EXCEPT ![c] = "sent"]
        /\ toAgent' = IF reg = link THEN toAgent \cup {c} ELSE toAgent
        /\ UNCHANGED faults
     \/ /\ reg = None
        /\ hook' = [hook EXCEPT ![c] = "unsent"]
        /\ UNCHANGED <<toAgent, faults>>
     \/ /\ reg # None /\ Fault
        /\ hook' = [hook EXCEPT ![c] = "unsent"]
        /\ \/ reg = link /\ toAgent' = toAgent \cup {c}
           \/ UNCHANGED toAgent
  /\ UNCHANGED <<row, old, swept, answered, reg, handling, inbox, link, dialled, agentVars>>

\* MUTANT: the hook's outcome is stored as it is.
SaveDispatchRaw(c) ==
  /\ hook[c] \in {"sent", "unsent"}
  /\ SetStatus(c, hook[c])
  /\ hook' = [hook EXCEPT ![c] = "idle"]
  /\ UNCHANGED <<swept, answered, connVars, agentVars, faults>>

\* A failed save leaves the row pending, whatever was sent.
SaveDispatch(c) ==
  /\ hook[c] \in {"sent", "unsent"}
  /\ \/ SetStatus(c, IF hook[c] = "sent" THEN "dispatched" ELSE "failed") /\ UNCHANGED faults
     \/ SaveFails
  /\ hook' = [hook EXCEPT ![c] = "idle"]
  /\ UNCHANGED <<swept, answered, connVars, agentVars>>

-----------------------------------------------------------------------------
(* The sweeper.                                                            *)

\* The dispatch timeout passes without a save.
Ages(c) ==
  /\ row[c] \in {"dispatched", "acked"} /\ ~old[c]
  /\ old' = [old EXCEPT ![c] = TRUE]
  /\ UNCHANGED <<row, hook, swept, answered, connVars, agentVars, faults>>

\* MUTANT: an acknowledged command is left to its agent.
StaleDispatched == {c \in Cmds : row[c] = "dispatched" /\ old[c]}

Stale == {c \in Cmds : row[c] \in {"dispatched", "acked"} /\ old[c]}

SweepQuery ==
  /\ swept = {} /\ Stale # {}
  /\ swept' = Stale
  /\ UNCHANGED <<row, old, hook, answered, connVars, agentVars, faults>>

\* A row whose save failed is found again by a later pass.
SweepSave(c) ==
  /\ c \in swept
  /\ swept' = swept \ {c}
  /\ \/ SetStatus(c, "timeout") /\ UNCHANGED faults
     \/ SaveFails
  /\ UNCHANGED <<hook, answered, connVars, agentVars>>

-----------------------------------------------------------------------------
(* Connections.                                                            *)

\* serveWS: the registry gives up the old connection for the new one, and
\* nothing more is read from the old one.
Connect ==
  /\ link = None /\ dialled < Cardinality(Conns)
  /\ dialled' = dialled + 1
  /\ link' = dialled' /\ reg' = dialled'
  /\ UNCHANGED <<hubVars, handling, inbox, toAgent, agentVars, faults>>

\* The agent loses the connection; the hub may not notice for a while.
LoseLink ==
  /\ Fault
  /\ link # None
  /\ link' = None /\ toAgent' = {}
  /\ UNCHANGED <<hubVars, reg, handling, inbox, dialled, agentVars>>

\* The handler's read fails: the connection leaves the registry.
HubNotices ==
  /\ reg # None /\ reg # link /\ handling[reg] = None
  /\ reg' = None
  /\ UNCHANGED <<hubVars, handling, inbox, link, dialled, toAgent, agentVars, faults>>

ReadFrame(k) ==
  /\ reg = k /\ handling[k] = None /\ inbox[k] # <<>>
  /\ handling' = [handling EXCEPT ![k] = Head(inbox[k])]
  /\ inbox' = [inbox EXCEPT ![k] = Tail(@)]
  /\ UNCHANGED <<hubVars, reg, link, dialled, toAgent, agentVars, faults>>

\* MUTANT: an acknowledgement is taken for the result.
HandleFrameAckIsDone(k) ==
  /\ handling[k] # None
  /\ LET f == handling[k] IN
       /\ SetStatus(f.cmd, IF f.t = "failed" THEN "failed" ELSE "done")
       /\ answered' = IF f.t = "ack" THEN answered ELSE answered \cup {f.cmd}
  /\ handling' = [handling EXCEPT ![k] = None]
  /\ UNCHANGED <<hook, swept, reg, inbox, link, dialled, toAgent, agentVars, faults>>

\* onCmdUpdate.  A handler whose connection was replaced still finishes; the
\* frame whose save failed is gone.
HandleFrame(k) ==
  /\ handling[k] # None
  /\ \/ LET f == handling[k] IN
          /\ SetStatus(f.cmd, IF f.t = "ack" THEN "acked" ELSE f.t)
          /\ answered' = IF f.t = "ack" THEN answered ELSE answered \cup {f.cmd}
          /\ UNCHANGED faults
     \/ SaveFails /\ UNCHANGED answered
  /\ handling' = [handling EXCEPT ![k] = None]
  /\ UNCHANGED <<hook, swept, reg, inbox, link, dialled, toAgent, agentVars>>

\* Conn.Send on a full queue: its oldest frame is gone, whatever it says.
DropOldest ==
  /\ Fault
  /\ link # None /\ inbox[link] # <<>>
  /\ inbox' = [inbox EXCEPT ![link] = Tail(@)]
  /\ UNCHANGED <<hubVars, reg, handling, link, dialled, toAgent, agentVars>>

-----------------------------------------------------------------------------
(* execute, on a goroutine of the agent.                                   *)

Receive(c) ==
  /\ c \in toAgent
  /\ toAgent' = toAgent \ {c}
  /\ exec' = [exec EXCEPT ![c] = "ack"]
  /\ UNCHANGED <<hubVars, reg, handling, inbox, link, dialled, outcome, faults>>

\* d.send: without a connection the frame is dropped.
AgentSends(t, c) ==
  inbox' = IF link = None THEN inbox
           ELSE [inbox EXCEPT ![link] = Append(@, [t |-> t, cmd |-> c])]

Ack(c) ==
  /\ exec[c] = "ack"
  /\ AgentSends("ack", c)
  /\ exec' = [exec EXCEPT ![c] = "work"]
  /\ UNCHANGED <<hubVars, reg, handling, link, dialled, toAgent, outcome, faults>>

Work(c) ==
  /\ exec[c] = "work"
  /\ exec' = [exec EXCEPT ![c] = "answer"]
  /\ \E how \in {"done", "failed"} : outcome' = [outcome EXCEPT ![c] = how]
  /\ UNCHANGED <<hubVars, connVars, faults>>

Answer(c) ==
  /\ exec[c] = "answer"
  /\ AgentSends(outcome[c], c)
  /\ exec' = [exec EXCEPT ![c] = "finished"]
  /\ UNCHANGED <<hubVars, reg, handling, link, dialled, toAgent, outcome, faults>>

-----------------------------------------------------------------------------
(* Crashes.                                                                *)

\* A killed goroutine neither works on nor answers.
AgentCrash ==
  /\ Fault
  /\ \E c \in Cmds : exec[c] \in {"ack", "work", "answer"}
  /\ exec' = [c \in Cmds |-> IF exec[c] = "none" THEN "none" ELSE "finished"]
  /\ link' = None /\ toAgent' = {}
  /\ UNCHANGED <<hubVars, reg, handling, inbox, dialled, outcome>>

\* The rows are all that is left of the hub.
HubCrash ==
  /\ Fault
  /\ hook' = [c \in Cmds |-> "idle"] /\ swept' = {}
  /\ reg' = None /\ link' = None /\ toAgent' = {}
  /\ handling' = [k \in Conns |-> None] /\ inbox' = [k \in Conns |-> <<>>]
  /\ UNCHANGED <<row, old, answered, dialled, agentVars>>

-----------------------------------------------------------------------------
Init ==
  /\ row = [c \in Cmds |-> "none"] /\ old = [c \in Cmds |-> FALSE]
  /\ hook = [c \in Cmds |-> "idle"] /\ swept = {} /\ answered = {}
  /\ reg = None /\ link = None /\ dialled = 0 /\ toAgent = {}
  /\ handling = [k \in Conns |-> None] /\ inbox = [k \in Conns |-> <<>>]
  /\ exec = [c \in Cmds |-> "none"] /\ outcome = [c \in Cmds |-> "none"]
  /\ faults = 0

Next ==
  \/ \E c \in Cmds :
       \/ Create(c) \/ Dispatch(c) \/ SaveDispatch(c)
       \/ Ages(c) \/ SweepSave(c)
       \/ Receive(c) \/ Ack(c) \/ Work(c) \/ Answer(c)
  \/ \E k \in Conns : ReadFrame(k) \/ HandleFrame(k)
  \/ SweepQuery \/ Connect \/ LoseLink \/ HubNotices \/ DropOldest
  \/ AgentCrash \/ HubCrash

Spec == Init /\ [][Next]_vars

\* Handlers and the hook finish, time passes, the sweeper's cron runs.
\* Nothing is owed by the agent or the network.
Fairness ==
  /\ \A c \in Cmds : /\ WF_vars(Dispatch(c)) /\ WF_vars(SaveDispatch(c))
                     /\ WF_vars(Ages(c)) /\ WF_vars(SweepSave(c))
  /\ \A k \in Conns : WF_vars(HandleFrame(k))
  /\ WF_vars(SweepQuery)

FairSpec == Spec /\ Fairness

-----------------------------------------------------------------------------
(* Correctness.                                                            *)

(* What the row says has happened on the host, whoever wrote last and      *)
(* however answers were lost, delayed or overtaken by a reconnect: an      *)
(* acked command reached the agent, a done one ended well there, and an    *)
(* answer the hub counts was given.                                        *)
StatusIsEarned ==
  \A c \in Cmds :
    /\ row[c] = "acked" => exec[c] \notin {"none", "ack"}
    /\ row[c] = "done" => outcome[c] = "done"
    /\ c \in answered => exec[c] = "finished" /\ outcome[c] # "none"

(* commands.go: a command does not sit in dispatched or acked for ever.    *)
(* Whatever is lost, crashes or cannot be saved, it ends in a final status *)
(* once its row has left pending.  It stays pending only when its hook has *)
(* ended without a save, which failed or died with the hub, and no answer  *)
(* of its agent was saved either: the sweeper does not look at it          *)
(* (commands.go:61).                                                       *)
EveryCommandSettles ==
  \A c \in Cmds :
    row[c] # "none" ~> row[c] \in Final \/ (row[c] = "pending" /\ hook[c] = "idle")
=============================================================================
