------------------------ MODULE CommandRecordProofs -------------------------
(***************************************************************************)
(* What CommandRecord's run checks of the rows, proved for any number of   *)
(* commands, connections and faults: however answers are lost, delayed or  *)
(* overtaken, a row says of a command only what has happened on the host.  *)
(***************************************************************************)
EXTENDS CommandRecord, TLAPS

-----------------------------------------------------------------------------
(* Type correctness.                                                       *)

\* A goroutine that is about to answer knows how its command ended.
OutcomeKnown == \A c \in Cmds : exec[c] = "answer" => outcome[c] # "none"

TypeInv == TypeOK /\ OutcomeKnown

(* A queue of frames that loses its first, or gets one more, is a queue.   *)
LEMMA QueueTypes ==
  ASSUME NEW q \in Seq(Frames)
  PROVE  /\ q # <<>> => Head(q) \in Frames /\ Tail(q) \in Seq(Frames)
         /\ \A f \in Frames : Append(q, f) \in Seq(Frames)
OBVIOUS

(* The steps about one command keep the types.                             *)
LEMMA CommandStepTypes ==
  ASSUME TypeInv, NEW c \in Cmds,
         \/ Create(c) \/ Dispatch(c) \/ SaveDispatch(c)
         \/ Ages(c) \/ SweepSave(c)
         \/ Receive(c) \/ Ack(c) \/ Work(c) \/ Answer(c)
  PROVE  TypeInv'
<1> USE DEF TypeInv, TypeOK, OutcomeKnown, SetStatus, hubVars, connVars, agentVars
<1>1. CASE Create(c)
  BY <1>1 DEF Create, Statuses, Final
<1>2. CASE Dispatch(c)
  <2>1. faults' \in 0..MaxFaults
    BY <1>2, FaultAssumption DEF Dispatch, Fault
  <2>2. hook' \in [Cmds -> {"idle", "dispatch", "sent", "unsent"}] /\ toAgent' \subseteq Cmds
    BY <1>2 DEF Dispatch
  <2>3. QED BY <1>2, <2>1, <2>2 DEF Dispatch
<1>3. CASE SaveDispatch(c)
  <2>1. faults' \in 0..MaxFaults
    BY <1>3, FaultAssumption DEF SaveDispatch, SaveFails, Fault
  <2>2. row' \in [Cmds -> Statuses \cup {"none"}] /\ old' \in [Cmds -> BOOLEAN]
    BY <1>3 DEF SaveDispatch, SaveFails, Statuses, Final
  <2>3. QED BY <1>3, <2>1, <2>2 DEF SaveDispatch
<1>4. CASE Ages(c)
  BY <1>4 DEF Ages
<1>5. CASE SweepSave(c)
  <2>1. faults' \in 0..MaxFaults
    BY <1>5, FaultAssumption DEF SweepSave, SaveFails, Fault
  <2>2. row' \in [Cmds -> Statuses \cup {"none"}] /\ old' \in [Cmds -> BOOLEAN]
    BY <1>5 DEF SweepSave, SaveFails, Statuses, Final
  <2>3. QED BY <1>5, <2>1, <2>2 DEF SweepSave
<1>6. CASE Receive(c)
  BY <1>6 DEF Receive
<1>7. CASE Ack(c)
  <2>1. [t |-> "ack", cmd |-> c] \in Frames
    BY DEF Frames
  <2>2. inbox' \in [Conns -> Seq(Frames)]
    BY <1>7, <2>1, QueueTypes DEF Ack, AgentSends
  <2>3. QED BY <1>7, <2>2 DEF Ack
<1>8. CASE Work(c)
  BY <1>8 DEF Work
<1>9. CASE Answer(c)
  <2>1. [t |-> outcome[c], cmd |-> c] \in Frames
    BY <1>9 DEF Answer, Frames
  <2>2. inbox' \in [Conns -> Seq(Frames)]
    BY <1>9, <2>1, QueueTypes DEF Answer, AgentSends
  <2>3. QED BY <1>9, <2>2 DEF Answer
<1>10. QED
  BY <1>1, <1>2, <1>3, <1>4, <1>5, <1>6, <1>7, <1>8, <1>9

(* Every step keeps the types.                                             *)
LEMMA StepTypes ==
  ASSUME TypeInv, [Next]_vars
  PROVE  TypeInv'
<1> USE DEF TypeInv, TypeOK, OutcomeKnown, hubVars, connVars, agentVars
<1>1. ASSUME NEW k \in Conns, ReadFrame(k) PROVE TypeInv'
  BY <1>1, QueueTypes DEF ReadFrame
<1>2. ASSUME NEW k \in Conns, HandleFrame(k) PROVE TypeInv'
  <2>1. handling[k].cmd \in Cmds /\ handling[k].t \in {"ack", "done", "failed"}
    BY <1>2 DEF HandleFrame, Frames
  <2>2. faults' \in 0..MaxFaults
    BY <1>2, FaultAssumption DEF HandleFrame, SaveFails, Fault
  <2>3. /\ UNCHANGED <<row, old>> \/ \E r \in Statuses : SetStatus(handling[k].cmd, r)
        /\ answered' \in {answered, answered \cup {handling[k].cmd}}
    BY <1>2, <2>1 DEF HandleFrame, SaveFails, Statuses, Final
  <2>4. row' \in [Cmds -> Statuses \cup {"none"}] /\ old' \in [Cmds -> BOOLEAN]
    BY <2>1, <2>3 DEF SetStatus
  <2>5. QED BY <1>2, <2>1, <2>2, <2>3, <2>4 DEF HandleFrame
<1>3. CASE SweepQuery
  BY <1>3 DEF SweepQuery, Stale
<1>4. CASE Connect
  <2>1. dialled' \in 0..Cardinality(Conns) /\ dialled' \in Conns
    BY <1>4, ConnAssumption DEF Connect
  <2>2. QED BY <1>4, <2>1 DEF Connect
<1>5. CASE LoseLink \/ AgentCrash \/ HubCrash \/ DropOldest
  <2>1. faults' \in 0..MaxFaults
    BY <1>5, FaultAssumption DEF LoseLink, AgentCrash, HubCrash, DropOldest, Fault
  <2>2. CASE LoseLink \/ AgentCrash
    BY <2>1, <2>2 DEF LoseLink, AgentCrash
  <2>3. CASE HubCrash
    <3>1. inbox' \in [Conns -> Seq(Frames)]
      BY <2>3 DEF HubCrash
    <3>2. QED BY <2>1, <2>3, <3>1 DEF HubCrash
  <2>4. CASE DropOldest
    BY <2>1, <2>4, QueueTypes DEF DropOldest
  <2>5. QED BY <1>5, <2>2, <2>3, <2>4
<1>6. CASE HubNotices
  BY <1>6 DEF HubNotices
<1>7. CASE UNCHANGED vars
  BY <1>7 DEF vars
<1>8. QED
  BY <1>1, <1>2, <1>3, <1>4, <1>5, <1>6, <1>7, CommandStepTypes DEF Next

(* The types hold throughout.                                              *)
LEMMA TypeInvariant == Spec => []TypeInv
<1>1. Init => TypeInv
  <2> SUFFICES ASSUME Init PROVE TypeInv
    OBVIOUS
  <2>1. faults \in 0..MaxFaults /\ dialled \in 0..Cardinality(Conns)
    BY FaultAssumption, ConnAssumption DEF Init
  <2>2. inbox \in [Conns -> Seq(Frames)] /\ old \in [Cmds -> BOOLEAN]
    BY DEF Init
  <2>3. QED BY <2>1, <2>2 DEF Init, TypeInv, TypeOK, OutcomeKnown
<1>2. TypeInv /\ [Next]_vars => TypeInv'
  BY StepTypes
<1>3. QED BY <1>1, <1>2, PTL DEF Spec

(* The rows, the frames and the goroutines range over what the code names. *)
THEOREM TypeCorrect == Spec => []TypeOK
<1>1. TypeInv => TypeOK
  BY DEF TypeInv
<1>2. QED BY <1>1, TypeInvariant, PTL

-----------------------------------------------------------------------------
(* What a row says has happened.                                           *)

\* A command reaches the agent once: until its hook has dispatched it, and
\* while it is on its way, no goroutine works on it.
ReachesOnce ==
  \A c \in Cmds :
    /\ row[c] = "none" => hook[c] # "dispatch"
    /\ row[c] = "none" \/ hook[c] = "dispatch" => c \notin toAgent /\ exec[c] = "none"
    /\ c \in toAgent => exec[c] = "none"

\* A frame says what its goroutine has done, wherever the frame is by now.
Earned(f) ==
  IF f.t = "ack" THEN exec[f.cmd] \notin {"none", "ack"}
                 ELSE exec[f.cmd] = "finished" /\ outcome[f.cmd] = f.t

FramesEarned ==
  \A k \in Conns : /\ handling[k] # None => Earned(handling[k])
                   /\ \A i \in 1..Len(inbox[k]) : Earned(inbox[k][i])

\* StatusIsEarned, with the goroutine of a done command finished: a later
\* outcome could not contradict the row.
RowsEarned ==
  \A c \in Cmds :
    /\ row[c] = "acked" => exec[c] \notin {"none", "ack"}
    /\ row[c] = "done" => exec[c] = "finished" /\ outcome[c] = "done"
    /\ c \in answered => exec[c] = "finished" /\ outcome[c] # "none"

EarnedInv == ReachesOnce /\ FramesEarned /\ RowsEarned

\* A step of the agent for which nothing that has been said becomes false: an
\* execution goes forward, and its outcome stays once it has ended.
GoesForward ==
  \A c \in Cmds :
    /\ exec[c] \notin {"none", "ack"} => exec'[c] \notin {"none", "ack"}
    /\ exec[c] = "finished" => exec'[c] = "finished" /\ outcome'[c] = outcome[c]

(* What a frame says stays true as executions go forward.                  *)
LEMMA EarnedStays ==
  ASSUME NEW f \in Frames, GoesForward, Earned(f)
  PROVE  Earned(f)'
BY DEF GoesForward, Earned, Frames

(* A queue of earned frames that loses its first has only earned frames.   *)
LEMMA TailEarned ==
  ASSUME NEW q \in Seq(Frames), q # <<>>, \A i \in 1..Len(q) : Earned(q[i])
  PROVE  Earned(Head(q)) /\ \A i \in 1..Len(Tail(q)) : Earned(Tail(q)[i])
<1>1. Head(q) = q[1] /\ 1 \in 1..Len(q)
  OBVIOUS
<1>2. ASSUME NEW i \in 1..Len(Tail(q)) PROVE Tail(q)[i] = q[i + 1] /\ i + 1 \in 1..Len(q)
  OBVIOUS
<1>3. QED BY <1>1, <1>2

(* A step that changes no row, and no connection but by what the agent     *)
(* sends, keeps the frames and rows earned when executions go forward.     *)
LEMMA ForwardKeepsEarned ==
  ASSUME TypeInv, FramesEarned, RowsEarned, GoesForward,
         UNCHANGED <<row, answered, handling, inbox>>
  PROVE  FramesEarned' /\ RowsEarned'
<1>1. ASSUME NEW k \in Conns PROVE handling[k] # None => Earned(handling[k])'
  BY <1>1, EarnedStays DEF TypeInv, TypeOK, FramesEarned
<1>2. ASSUME NEW k \in Conns, NEW i \in 1..Len(inbox[k]) PROVE Earned(inbox[k][i])'
  BY <1>2, EarnedStays DEF TypeInv, TypeOK, FramesEarned
<1>3. RowsEarned'
  BY DEF RowsEarned, GoesForward
<1>4. QED BY <1>1, <1>2, <1>3 DEF FramesEarned

(* The hub's hook and sweeper claim nothing of the host.                   *)
LEMMA HubStepEarned ==
  ASSUME TypeInv, EarnedInv, NEW c \in Cmds,
         Create(c) \/ Dispatch(c) \/ SaveDispatch(c) \/ Ages(c) \/ SweepSave(c)
  PROVE  EarnedInv'
<1> USE DEF TypeInv, TypeOK, EarnedInv, connVars, agentVars
<1>1. FramesEarned'
  <2>1. UNCHANGED <<handling, inbox, exec, outcome>>
    BY DEF Create, Dispatch, SaveDispatch, Ages, SweepSave
  <2>2. QED BY <2>1 DEF FramesEarned, Earned
<1>2. RowsEarned'
  BY DEF RowsEarned, SetStatus, SaveFails, Create, Dispatch, SaveDispatch, Ages, SweepSave
<1>3. ReachesOnce'
  BY DEF ReachesOnce, SetStatus, SaveFails, Create, Dispatch, SaveDispatch, Ages, SweepSave
<1>4. QED BY <1>1, <1>2, <1>3

(* The agent works on a command once, and its frames say what it has done. *)
LEMMA AgentStepEarned ==
  ASSUME TypeInv, EarnedInv, NEW c \in Cmds,
         Receive(c) \/ Ack(c) \/ Work(c) \/ Answer(c)
  PROVE  EarnedInv'
<1> USE DEF TypeInv, TypeOK, EarnedInv, hubVars, connVars
<1>1. GoesForward
  BY DEF ReachesOnce, GoesForward, Receive, Ack, Work, Answer
<1>2. ReachesOnce'
  BY DEF ReachesOnce, Receive, Ack, Work, Answer
<1>3. CASE Receive(c) \/ Work(c)
  BY <1>1, <1>2, <1>3, ForwardKeepsEarned DEF Receive, Work
<1>4. ASSUME NEW t \in {"ack", "done", "failed"}, AgentSends(t, c), Earned([t |-> t, cmd |-> c])',
             UNCHANGED <<row, answered, handling>>
      PROVE  FramesEarned' /\ RowsEarned'
  <2>1. \A f \in Frames : Earned(f) => Earned(f)'
    BY <1>1, EarnedStays
  <2>2. ASSUME NEW k \in Conns PROVE handling'[k] # None => Earned(handling[k])'
    <3>1. handling'[k] = handling[k]
      BY <1>4
    <3>2. QED BY <2>1, <3>1 DEF FramesEarned, Earned
  <2>3. ASSUME NEW k \in Conns, NEW i \in 1..Len(inbox'[k]) PROVE Earned(inbox[k][i])'
    <3>1. \/ i \in 1..Len(inbox[k]) /\ inbox'[k][i] = inbox[k][i]
          \/ inbox'[k][i] = [t |-> t, cmd |-> c]
      BY <1>4 DEF AgentSends
    <3>2. CASE i \in 1..Len(inbox[k]) /\ inbox'[k][i] = inbox[k][i]
      <4>1. PICK f \in Frames : f = inbox[k][i]
        BY <3>2
      <4>2. Earned(f)'
        BY <2>1, <3>2, <4>1 DEF FramesEarned
      <4>3. QED BY <3>2, <4>1, <4>2 DEF Earned
    <3>3. CASE inbox'[k][i] = [t |-> t, cmd |-> c]
      BY <1>4, <3>3 DEF Earned
    <3>4. QED BY <3>1, <3>2, <3>3
  <2>4. RowsEarned'
    BY <1>1, <1>4 DEF RowsEarned, GoesForward
  <2>5. QED BY <2>2, <2>3, <2>4 DEF FramesEarned
<1>5. CASE Ack(c)
  <2>1. Earned([t |-> "ack", cmd |-> c])'
    BY <1>5 DEF Ack, Earned
  <2>2. QED BY <1>2, <1>4, <1>5, <2>1 DEF Ack
<1>6. CASE Answer(c)
  <2>1. outcome[c] \in {"done", "failed"}
    BY <1>6 DEF Answer, OutcomeKnown
  <2>2. Earned([t |-> outcome[c], cmd |-> c])'
    BY <1>6, <2>1 DEF Answer, Earned
  <2>3. QED BY <1>2, <1>4, <1>6, <2>1, <2>2 DEF Answer
<1>7. QED BY <1>3, <1>5, <1>6

(* Reading, dropping and applying frames claims no more than they say.     *)
LEMMA ConnectionStepEarned ==
  ASSUME TypeInv, EarnedInv,
         DropOldest \/ \E k \in Conns : ReadFrame(k) \/ HandleFrame(k)
  PROVE  EarnedInv'
<1> USE DEF TypeInv, TypeOK, EarnedInv, agentVars
<1>1. ASSUME NEW k \in Conns, ReadFrame(k) PROVE EarnedInv'
  <2>1. UNCHANGED <<row, hook, toAgent, answered, exec, outcome>>
    BY <1>1 DEF ReadFrame, hubVars
  <2>2. /\ Earned(Head(inbox[k]))
        /\ \A i \in 1..Len(Tail(inbox[k])) : Earned(Tail(inbox[k])[i])
    BY <1>1, TailEarned DEF ReadFrame, FramesEarned
  <2>3. \A f : Earned(f)' <=> Earned(f)
    BY <2>1 DEF Earned
  <2>4. /\ handling' = [handling EXCEPT ![k] = Head(inbox[k])]
        /\ inbox' = [inbox EXCEPT ![k] = Tail(inbox[k])]
    BY <1>1 DEF ReadFrame
  <2>5. FramesEarned
    OBVIOUS
  <2>6. FramesEarned'
    <3> HIDE DEF EarnedInv, TypeInv
    <3>1. ASSUME NEW j \in Conns
          PROVE  /\ handling'[j] # None => Earned(handling'[j])
                 /\ \A i \in 1..Len(inbox'[j]) : Earned(inbox'[j][i])
      <4>1. DOMAIN handling = Conns /\ DOMAIN inbox = Conns
        BY DEF TypeInv
      <4>2. CASE j = k
        BY <2>2, <2>4, <4>1, <4>2
      <4>3. CASE j # k
        BY <2>4, <2>5, <4>1, <4>3 DEF FramesEarned
      <4>4. QED BY <4>2, <4>3
    <3>2. QED BY <2>3, <3>1 DEF FramesEarned
  <2>7. QED BY <2>1, <2>6 DEF ReachesOnce, RowsEarned
<1>2. CASE DropOldest
  <2>1. UNCHANGED <<row, hook, toAgent, answered, exec, outcome, handling>>
    BY <1>2 DEF DropOldest, hubVars
  <2>2. \A i \in 1..Len(Tail(inbox[link])) : Earned(Tail(inbox[link])[i])
    BY <1>2, TailEarned DEF DropOldest, FramesEarned
  <2>3. FramesEarned'
    BY <1>2, <2>1, <2>2 DEF DropOldest, FramesEarned, Earned
  <2>4. QED BY <2>1, <2>3 DEF ReachesOnce, RowsEarned
<1>3. ASSUME NEW k \in Conns, HandleFrame(k) PROVE EarnedInv'
  <2> DEFINE f == handling[k]
  <2>1. f \in Frames /\ Earned(f) /\ UNCHANGED <<hook, inbox, toAgent, exec, outcome>>
    BY <1>3 DEF HandleFrame, FramesEarned
  <2>2. /\ \/ /\ row' = [row EXCEPT ![f.cmd] = IF f.t = "ack" THEN "acked" ELSE f.t]
              /\ answered' = IF f.t = "ack" THEN answered ELSE answered \cup {f.cmd}
           \/ UNCHANGED <<row, answered>>
        /\ handling' = [handling EXCEPT ![k] = None]
    BY <1>3 DEF HandleFrame, SetStatus, SaveFails
  <2>3. f.cmd \in Cmds /\ f.t \in {"ack", "done", "failed"}
    BY <2>1 DEF Frames
  <2> HIDE DEF f
  <2>4. RowsEarned'
    BY <2>1, <2>2, <2>3 DEF RowsEarned, Earned
  <2>5. ReachesOnce'
    BY <2>1, <2>2, <2>3 DEF ReachesOnce
  <2>6. FramesEarned'
    BY <2>1, <2>2 DEF FramesEarned, Earned
  <2>7. QED BY <2>4, <2>5, <2>6
<1>4. QED BY <1>1, <1>2, <1>3

(* Losing a connection, or a process, makes no frame and no row wrong.     *)
LEMMA FailureStepEarned ==
  ASSUME TypeInv, EarnedInv,
         SweepQuery \/ Connect \/ LoseLink \/ HubNotices \/ AgentCrash \/ HubCrash
  PROVE  EarnedInv'
<1> USE DEF EarnedInv, hubVars, connVars, agentVars
<1>1. CASE AgentCrash
  <2>1. GoesForward
    BY <1>1 DEF GoesForward, AgentCrash
  <2>2. FramesEarned' /\ RowsEarned'
    BY <1>1, <2>1, ForwardKeepsEarned DEF AgentCrash
  <2>3. QED BY <1>1, <2>2 DEF AgentCrash, ReachesOnce
<1>2. CASE HubCrash
  <2>1. FramesEarned'
    BY <1>2 DEF HubCrash, FramesEarned
  <2>2. QED BY <1>2, <2>1 DEF HubCrash, ReachesOnce, RowsEarned
<1>3. CASE SweepQuery \/ Connect \/ LoseLink \/ HubNotices
  <2>1. UNCHANGED <<row, hook, answered, handling, inbox, exec, outcome>> /\ toAgent' \subseteq toAgent
    BY <1>3 DEF SweepQuery, Connect, LoseLink, HubNotices
  <2>2. FramesEarned'
    BY <2>1 DEF FramesEarned, Earned
  <2>3. RowsEarned'
    BY <2>1 DEF RowsEarned
  <2>4. ReachesOnce'
    BY <2>1 DEF ReachesOnce
  <2>5. QED BY <2>2, <2>3, <2>4
<1>4. QED BY <1>1, <1>2, <1>3

(* What the row says has happened on the host, whoever wrote last and      *)
(* however answers were lost, delayed or overtaken by a reconnect: an      *)
(* acked command reached the agent, a done one ended well there, and an    *)
(* answer the hub counts was given.                                        *)
THEOREM EarnedTheorem == Spec => []StatusIsEarned
<1>1. Init => EarnedInv
  BY DEF Init, EarnedInv, ReachesOnce, FramesEarned, RowsEarned
<1>2. TypeInv /\ EarnedInv /\ [Next]_vars => EarnedInv'
  <2> SUFFICES ASSUME TypeInv, EarnedInv, [Next]_vars PROVE EarnedInv'
    OBVIOUS
  <2>1. CASE UNCHANGED vars
    BY <2>1 DEF vars, hubVars, connVars, agentVars, EarnedInv, ReachesOnce, FramesEarned, RowsEarned,
                Earned
  <2>2. QED
    BY <2>1, HubStepEarned, AgentStepEarned, ConnectionStepEarned, FailureStepEarned DEF Next
<1>3. EarnedInv => StatusIsEarned
  BY DEF EarnedInv, RowsEarned, StatusIsEarned
<1>4. QED BY <1>1, <1>2, <1>3, TypeInvariant, PTL DEF Spec
=============================================================================
