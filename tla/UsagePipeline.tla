---------------------------- MODULE UsagePipeline ---------------------------
(***************************************************************************)
(* Token usage, from the transcript a coding agent writes to the row the   *)
(* hub bills: the agent's watcher (agent/internal/tokenwatch) reads new    *)
(* lines, emits rows through the connection's bounded send queue           *)
(* (agent/internal/transport), and the hub ingests them                    *)
(* (hub/internal/tokens).                                                  *)
(*                                                                         *)
(* A Claude line repeats a message with its output so far; a Codex line    *)
(* carries the session's running total.  Offsets count lines.              *)
(***************************************************************************)
EXTENDS Naturals, Sequences, FiniteSets, FiniteSetsExt, Functions

CONSTANTS
  ClaudeFiles, CodexFiles,  \* transcripts, by kind
  Messages,    \* Claude messages: their dedup keys
  MaxOutput,   \* bound: output tokens of a message or of a session
  MaxLines,    \* bound: lines of one transcript
  FlushAt,     \* pending rows that force a flush inside a file (500)
  BacklogCap,  \* pending rows kept while the hub is away (10 000)
  QueueCap,    \* capacity of sendCh (256)
  SeenCap,     \* size at which lastOutput is emptied (50 000)
  MaxFaults,   \* bound: crashes, disconnects, failed ingests, rewritten files
  None         \* no file is being read

Files == ClaudeFiles \cup CodexFiles

ASSUME KindAssumption  == /\ ClaudeFiles \cap CodexFiles = {}
                           /\ Messages \cap (CodexFiles \X Nat) = {}
                           /\ None \notin [file : Files, at : 0..MaxLines]
ASSUME SizeAssumption  == {MaxOutput, MaxLines, SeenCap, MaxFaults} \subseteq Nat
ASSUME LimitAssumption == /\ {FlushAt, BacklogCap, QueueCap} \subseteq Nat \ {0}
                           /\ FlushAt <= BacklogCap

VARIABLES
  usage,       \* what the coding agents have really used, per message or session
  text,        \* the transcripts
  rewritten,   \* history: transcripts that have been truncated
  agent,       \* "up" or "down"
  cp,          \* w.checkpoints
  disk,        \* tokenwatch.json
  reading,     \* tailFile's locals: the file and the offset in it, or None
  pending,     \* w.pending
  lastOutput,  \* w.lastOutput; 0 when the key is not in the map
  conn,        \* d.conn: "none", "up", or "lost" (closed, not yet noticed)
  queue,       \* frames on their way to the hub, oldest first
  hub,         \* token_usage: output per dedup key, 0 when there is no row
  lost,        \* history: rows that nothing will deliver any more
  faults       \* how many faults there have been

source  == <<usage, text, rewritten>>
watcher == <<cp, disk, reading, pending, lastOutput>>
link    == <<conn, queue>>
vars    == <<source, agent, watcher, link, hub, lost, faults>>

\* A restart may number events again, so keys run past MaxLines.
MaxEvents   == (MaxFaults + 1) * MaxLines
Keys        == Messages \cup (CodexFiles \X (1..MaxEvents))
Rows        == [key : Keys, out : 1..MaxOutput]
Lines       == [of : Messages \cup CodexFiles, out : 1..MaxOutput]
Checkpoints == [offset : 0..MaxLines, last : 0..MaxOutput, events : 0..MaxEvents]
Readers     == [file : Files, at : 0..MaxLines]
Fresh       == [offset |-> 0, last |-> 0, events |-> 0]
NothingSeen == [m \in Messages |-> 0]

\* Bounded variables stay in bounds; rows carry only keys and outputs a transcript can yield.
TypeOK ==
  /\ usage \in [Messages \cup CodexFiles -> 0..MaxOutput]
  /\ text \in [Files -> Seq(Lines)] /\ \A f \in Files : Len(text[f]) <= MaxLines
  /\ rewritten \subseteq Files
  /\ agent \in {"up", "down"}
  /\ cp \in [Files -> Checkpoints] /\ disk \in [Files -> Checkpoints]
  /\ reading \in Readers \cup {None}
  /\ pending \in Seq(Rows) /\ Len(pending) <= BacklogCap
  /\ lastOutput \in [Messages -> 0..MaxOutput]
  /\ conn \in {"none", "up", "lost"}
  /\ queue \in Seq(Seq(Rows)) /\ Len(queue) <= QueueCap
  /\ hub \in [Keys -> 0..MaxOutput]
  /\ lost \subseteq Rows
  /\ faults \in 0..MaxFaults

-----------------------------------------------------------------------------
(* The coding agents.                                                      *)

\* A message streams on, or a session's total grows; the line says how far.
WriteLine(f, k) ==
  /\ k \in IF f \in ClaudeFiles THEN Messages ELSE {f}
  /\ Len(text[f]) < MaxLines /\ usage[k] < MaxOutput
  /\ usage' = [usage EXCEPT ![k] = @ + 1]
  /\ text' = [text EXCEPT ![f] = Append(@, [of |-> k, out |-> usage[k] + 1])]
  /\ UNCHANGED <<rewritten, agent, watcher, link, hub, lost, faults>>

Fault == faults < MaxFaults /\ faults' = faults + 1

\* The file is rewritten from its start.
Rewrite(f) ==
  /\ Fault
  /\ text[f] # <<>>
  /\ text' = [text EXCEPT ![f] = <<>>]
  /\ rewritten' = rewritten \cup {f}
  /\ UNCHANGED <<usage, agent, watcher, link, hub, lost>>

-----------------------------------------------------------------------------
(* flush and saveCheckpoints.                                              *)

RowsOf(batch) == Range(batch)

\* Conn.Send: a full queue gives up its oldest frame; what enters the queue
\* of a connection that is already closed is never sent.
Send(batch) ==
  IF conn = "lost"
    THEN lost' = lost \cup RowsOf(batch) /\ UNCHANGED queue
  ELSE IF Len(queue) < QueueCap
    THEN queue' = Append(queue, batch) /\ UNCHANGED lost
    ELSE /\ queue' = Append(Tail(queue), batch)
         /\ lost' = lost \cup RowsOf(Head(queue))

\* MUTANT: the backlog is not capped.
FlushUncapped(rows, points, outputs) ==
  \/ /\ rows = <<>> \/ conn # "none"
     /\ IF rows = <<>> THEN UNCHANGED <<queue, lost>> ELSE Send(rows)
     /\ pending' = <<>> /\ disk' = points /\ lastOutput' = outputs
  \/ /\ rows # <<>> /\ conn # "up"
     /\ pending' = rows /\ lastOutput' = outputs
     /\ UNCHANGED <<disk, queue, lost>>

\* MUTANT: rows that could not be sent are not kept.
FlushForgets(rows, points, outputs) ==
  /\ IF rows = <<>> \/ conn = "none" THEN UNCHANGED <<queue, lost>> ELSE Send(rows)
  /\ pending' = <<>> /\ lastOutput' = outputs
  /\ disk' = IF rows = <<>> \/ conn # "none" THEN points ELSE disk

\* flush, with pending, checkpoints and lastOutput as they are at that point.
Flush(rows, points, outputs) ==
  \/ /\ rows = <<>>
     /\ pending' = rows /\ disk' = points /\ lastOutput' = outputs
     /\ UNCHANGED <<queue, lost>>
  \/ /\ rows # <<>> /\ conn # "none"
     /\ Send(rows)
     /\ pending' = <<>> /\ disk' = points
     /\ lastOutput' = IF Cardinality({m \in Messages : outputs[m] > 0}) > SeenCap
                        THEN NothingSeen ELSE outputs
  \/ /\ rows # <<>> /\ conn # "up"
     /\ LET dropped == IF Len(rows) > BacklogCap THEN Len(rows) - BacklogCap ELSE 0
        IN  /\ pending' = SubSeq(rows, dropped + 1, Len(rows))
            /\ lost' = lost \cup RowsOf(SubSeq(rows, 1, dropped))
     /\ lastOutput' = outputs
     /\ UNCHANGED <<disk, queue>>

FlushTick ==
  /\ agent = "up" /\ reading = None
  /\ Flush(pending, cp, lastOutput)
  /\ UNCHANGED <<source, agent, cp, reading, conn, hub, faults>>

-----------------------------------------------------------------------------
(* tailFile and consumeLine.                                               *)

\* The checkpoint tailFile starts from: a file that has shrunk starts over.
Resumed(f) == IF Len(text[f]) < cp[f].offset THEN Fresh ELSE cp[f]

OpenFile(f) ==
  /\ agent = "up" /\ reading = None
  /\ Len(text[f]) # cp[f].offset
  /\ cp' = [cp EXCEPT ![f] = Resumed(f)]
  /\ reading' = IF Len(text[f]) = Resumed(f).offset THEN None
                ELSE [file |-> f, at |-> Resumed(f).offset]
  /\ UNCHANGED <<source, agent, disk, pending, lastOutput, link, hub, lost, faults>>

\* MUTANT: a running total is taken for an increment.
IncrementFromZero(total, last) == total

\* parseCodexLine: the increment of a running total; a smaller one is fresh.
Increment(total, last) == IF total < last THEN total ELSE total - last

\* Rows are collected; a full pending list is flushed in the middle of the file.
Collect(rows, points, outputs) ==
  IF rows = <<>> \/ Len(pending) + 1 < FlushAt
    THEN /\ pending' = pending \o rows /\ lastOutput' = outputs
         /\ UNCHANGED <<disk, queue, lost>>
    ELSE Flush(pending \o rows, points, outputs)

ReadLine ==
  /\ agent = "up" /\ reading # None /\ reading.at < Len(text[reading.file])
  /\ LET f    == reading.file
         line == text[f][reading.at + 1]
     IN  \/ /\ f \in ClaudeFiles
            /\ UNCHANGED cp
            /\ LET grew == line.out > lastOutput[line.of] IN
                 Collect(IF grew THEN <<[key |-> line.of, out |-> line.out]>> ELSE <<>>, cp,
                         IF grew THEN [lastOutput EXCEPT ![line.of] = line.out] ELSE lastOutput)
         \/ /\ f \in CodexFiles
            /\ cp' = [cp EXCEPT ![f].last = line.out, ![f].events = @ + 1]
            /\ LET more == Increment(line.out, cp[f].last) IN
                 Collect(IF more > 0 THEN <<[key |-> <<f, cp'[f].events>>, out |-> more]>> ELSE <<>>,
                         cp', lastOutput)
  /\ reading' = [reading EXCEPT !.at = @ + 1]
  /\ UNCHANGED <<source, agent, conn, hub, faults>>

\* MUTANT: the checkpoint is saved as soon as the file has been read.
EndOfFileSaves ==
  /\ agent = "up" /\ reading # None /\ reading.at >= Len(text[reading.file])
  /\ cp' = [cp EXCEPT ![reading.file].offset = reading.at]
  /\ disk' = cp'
  /\ reading' = None
  /\ UNCHANGED <<source, agent, pending, lastOutput, link, hub, lost, faults>>

\* No complete line is left: the offset advances, in memory only.
EndOfFile ==
  /\ agent = "up" /\ reading # None /\ reading.at >= Len(text[reading.file])
  /\ cp' = [cp EXCEPT ![reading.file].offset = reading.at]
  /\ reading' = None
  /\ UNCHANGED <<source, agent, disk, pending, lastOutput, link, hub, lost, faults>>

-----------------------------------------------------------------------------
(* Start, shutdown and crash of the agent; its connection; the hub.        *)

Down == /\ agent = "up" /\ agent' = "down"
        /\ reading' = None /\ pending' = <<>> /\ lastOutput' = NothingSeen
        /\ conn' = "none" /\ queue' = <<>>

InQueue == UNION {RowsOf(queue[i]) : i \in DOMAIN queue}

\* New: what was on disk is where the watcher goes on.
Start ==
  /\ agent = "down" /\ agent' = "up"
  /\ cp' = disk
  /\ UNCHANGED <<source, disk, reading, pending, lastOutput, link, hub, lost, faults>>

Crash ==
  /\ Fault /\ Down
  /\ lost' = lost \cup InQueue
  /\ UNCHANGED <<source, cp, disk, hub>>

\* Run sees ctx.Done between two scans, and saves what it has read.
Shutdown ==
  /\ Fault /\ Down /\ reading = None
  /\ disk' = cp
  /\ lost' = lost \cup InQueue \cup RowsOf(pending)
  /\ UNCHANGED <<source, cp, hub>>

Connect ==
  /\ agent = "up" /\ conn = "none" /\ conn' = "up"
  /\ UNCHANGED <<source, agent, watcher, queue, hub, lost, faults>>

\* The connection closes with frames in its queue; consume notices later.
Disconnect ==
  /\ Fault
  /\ conn = "up" /\ conn' = "lost"
  /\ queue' = <<>> /\ lost' = lost \cup InQueue
  /\ UNCHANGED <<source, agent, watcher, hub>>

NoticeDisconnect ==
  /\ conn = "lost" /\ conn' = "none"
  /\ UNCHANGED <<source, agent, watcher, queue, hub, lost, faults>>

\* What a batch makes of the table: a row is inserted, or its output grows.
Ingested(batch) ==
  [k \in Keys |-> Max({hub[k]} \cup {r.out : r \in {x \in RowsOf(batch) : x.key = k}})]

\* One transaction stores the batch, or fails and drops it.
Ingest ==
  /\ queue # <<>> /\ queue' = Tail(queue)
  /\ hub' = Ingested(Head(queue))
  /\ UNCHANGED <<source, agent, watcher, conn, lost, faults>>

IngestFails ==
  /\ Fault
  /\ queue # <<>> /\ queue' = Tail(queue)
  /\ lost' = lost \cup RowsOf(Head(queue))
  /\ UNCHANGED <<source, agent, watcher, conn, hub>>

-----------------------------------------------------------------------------
Init ==
  /\ usage = [k \in Messages \cup CodexFiles |-> 0]
  /\ text = [f \in Files |-> <<>>] /\ rewritten = {}
  /\ agent = "up"
  /\ cp = [f \in Files |-> Fresh] /\ disk = [f \in Files |-> Fresh]
  /\ reading = None /\ pending = <<>> /\ lastOutput = NothingSeen
  /\ conn = "none" /\ queue = <<>>
  /\ hub = [k \in Keys |-> 0] /\ lost = {} /\ faults = 0

Next ==
  \/ \E f \in Files : \/ \E k \in Messages \cup CodexFiles : WriteLine(f, k)
                      \/ Rewrite(f) \/ OpenFile(f)
  \/ ReadLine \/ EndOfFile \/ FlushTick
  \/ Start \/ Crash \/ Shutdown
  \/ Connect \/ Disconnect \/ NoticeDisconnect
  \/ Ingest \/ IngestFails

Spec == Init /\ [][Next]_vars

\* The tickers keep ticking, a read that began goes on, the hub reads its
\* socket.  The connection owes nothing.
Fairness ==
  /\ \A f \in Files : WF_vars(OpenFile(f))
  /\ WF_vars(ReadLine) /\ WF_vars(EndOfFile) /\ WF_vars(FlushTick)
  /\ WF_vars(Ingest)

FairSpec == Spec /\ Fairness

-----------------------------------------------------------------------------
(* Correctness.                                                            *)

\* The row of k has reached n, or one that will is still on its way.
OnItsWay(k, n, rows) == hub[k] >= n \/ \E r \in rows : r.key = k /\ r.out >= n

(* tailFile: a crash re-reads from the saved offset, and no unemitted row  *)
(* is lost.  Every Claude line a restarted agent would not read again has  *)
(* reached the hub or left the watcher; every line the running one would   *)
(* not read again may also be pending.  What was given up, at a full       *)
(* queue, a full backlog, a lost connection, a failed ingest or a          *)
(* shutdown, is in lost, so that nothing disappears in any other way.      *)
NothingUnaccounted ==
  \A f \in ClaudeFiles \ rewritten, i \in 1..MaxLines :
    i <= Len(text[f]) =>
      LET out   == text[f][i].out
          k     == text[f][i].of
          gone  == InQueue \cup lost
          local == IF reading # None /\ reading.file = f THEN reading.at ELSE cp[f].offset
      IN  /\ i <= disk[f].offset => OnItsWay(k, out, gone)
          /\ agent = "up" /\ i <= local => OnItsWay(k, out, gone \cup RowsOf(pending))

(* "The hub's dedup absorbs the duplicates": as long as the event counter  *)
(* is in step with the lines read, each row of a Codex session is the      *)
(* increment of the line it is numbered after, however often that line was *)
(* read, sent and ingested.                                                *)
CodexCountsOnce ==
  \A f \in CodexFiles \ rewritten :
    LET local == IF reading # None /\ reading.file = f THEN reading.at ELSE cp[f].offset
        total(i) == IF i = 0 THEN 0 ELSE text[f][i].out
    IN  agent = "up" /\ cp[f].events = local =>
          \A i \in 1..MaxEvents :
            hub[<<f, i>>] # 0 => i <= Len(text[f]) /\ hub[<<f, i>>] = total(i) - total(i - 1)

(* Once the agent stays up and connected, what the coding agents have used *)
(* is in the end what the hub has stored, but for rows given up before.    *)
CatchesUp ==
  <>[](agent = "up" /\ conn = "up" /\ rewritten = {}) =>
  <>[](\A m \in Messages : usage[m] > 0 => OnItsWay(m, usage[m], lost))
=============================================================================
