------------------------------ MODULE LogStream -----------------------------
(***************************************************************************)
(* One viewer of an app's log: the SSE route and the broker                *)
(* (hub/internal/agenthub/logs.go), the stream that follows the log on the *)
(* agent (agent/internal/daemon/logstream.go,                              *)
(* agent/internal/dockerapp/follow.go), and the connection between them.   *)
(*                                                                         *)
(* An app writes its n-th line in two pieces (Lines); files and lines are  *)
(* sequences of pieces.                                                    *)
(***************************************************************************)
EXTENDS Integers, Sequences, SequencesExt, Lines

CONSTANTS
  Kinds,       \* the app is one of these: "process", "container", "unknown"
  MaxPieces,   \* bound: what the app writes
  TailN,       \* lines of the first read
  MaxChunk,    \* lines of a chunk (200)
  QueueCap,    \* capacity of the agent's sendCh (256)
  ChanCap,     \* capacity of the viewer's channel (32)
  MaxRotations \* bound: log rotations

Sizes == {MaxPieces, TailN, MaxChunk, QueueCap, ChanCap} \subseteq Nat \ {0} /\ MaxRotations \in Nat
ASSUME SizeAssumption == Sizes

VARIABLES
  kind,
  written,    \* pieces written so far
  file,       \* the log file; of a container, everything it wrote
  rotations,
  conn,       \* d.conn: "up", "lost" (closed, not yet noticed) or "none"
  down, up,   \* the stream's frames to the agent, to the hub
  entry,      \* is the stream in d.logStreams
  canceled,   \* its context is done
  follower,   \* the stream's goroutine: "none", "first", "poll" or "ended"
  offset,     \* followFile's offset
  partial,    \* followFile's partial
  viewer,     \* the SSE handler: "none", "open" or "gone"
  broken,     \* the connection the handler uses is closed
  channel,    \* the viewer's channel in the broker
  seen,       \* history: the lines the viewer was shown
  turned,     \* history: the file was rotated since it was last read
  torn,       \* history: pieces whose line a first read or an unnoticed rotation cut
  missed      \* history: a chunk was dropped or lost

log    == <<kind, written, file, rotations>>
frames == <<down, up>>
stream == <<entry, canceled, follower, offset, partial, turned, torn>>
hub    == <<viewer, broken, channel, seen>>
vars   == <<log, conn, frames, stream, hub, missed>>

Pieces == 1..MaxPieces
Line   == Seq(Pieces)
Chunk(lines, eof) == [lines |-> lines, eof |-> eof]

\* Queues stay within their capacities, and frames are well formed.
TypeOK ==
  /\ kind \in Kinds /\ written \in 0..MaxPieces /\ file \in Line /\ rotations \in 0..MaxRotations
  /\ conn \in {"up", "lost", "none"}
  /\ down \in Seq({"follow", "cancel"})
  /\ Len(up) <= QueueCap /\ Len(channel) <= ChanCap
  /\ \A i \in DOMAIN up : up[i].lines \in Seq(Line) /\ Len(up[i].lines) <= MaxChunk + TailN
  /\ {entry, canceled, turned, broken, missed} \subseteq BOOLEAN
  /\ follower \in {"none", "first", "poll", "ended"}
  /\ offset \in 0..MaxPieces /\ partial \in Line
  /\ viewer \in {"none", "open", "gone"}
  /\ seen \in Seq(Line) /\ torn \subseteq 1..(MaxPieces + 1)

Init ==
  /\ kind \in Kinds /\ written = 0 /\ file = <<>> /\ rotations = 0
  /\ conn = "up" /\ down = <<>> /\ up = <<>>
  /\ entry = FALSE /\ canceled = FALSE /\ follower = "none" /\ offset = 0 /\ partial = <<>>
  /\ turned = FALSE
  /\ viewer = "none" /\ broken = FALSE /\ channel = <<>>
  /\ seen = <<>> /\ torn = {} /\ missed = FALSE

-----------------------------------------------------------------------------
(* The app.                                                                *)

Write ==
  /\ written < MaxPieces /\ written' = written + 1
  /\ file' = Append(file, written')
  /\ UNCHANGED <<kind, rotations, conn, frames, stream, hub, missed>>

\* rotateLogIfNeeded, when the app is started again: a line its last run did
\* not finish stays in the rotated file.
Rotate ==
  /\ kind = "process" /\ file # <<>>
  /\ rotations < MaxRotations /\ rotations' = rotations + 1
  /\ file' = <<>>
  /\ written' = IF written % 2 = 1 /\ written < MaxPieces THEN written + 1 ELSE written
  /\ turned' = (follower = "poll")
  /\ UNCHANGED <<kind, conn, frames, entry, canceled, follower, offset, partial, torn, hub, missed>>

-----------------------------------------------------------------------------
(* The connection.                                                         *)

\* Frames from the hub that have arrived are still handled.
Break ==
  /\ conn = "up" /\ ~broken
  /\ conn' = "lost" /\ broken' = TRUE
  /\ \E n \in 0..Len(down) : down' = SubSeq(down, 1, n)
  /\ up' = <<>> /\ missed' = (missed \/ up # <<>>)
  /\ UNCHANGED <<log, stream, viewer, channel, seen>>

\* MUTANT: streams outlive the connection.
CancelNone == UNCHANGED <<entry, canceled>>

\* cancelAllLogStreams.
CancelAll == entry' = FALSE /\ canceled' = (canceled \/ entry)

\* consume returns, and Run gives the connection up.
NoticeLoss ==
  /\ conn = "lost" /\ down = <<>>
  /\ conn' = "none" /\ CancelAll
  /\ UNCHANGED <<log, frames, follower, offset, partial, turned, torn, hub, missed>>

\* The next connection: this viewer's handler does not use it.
Reconnect ==
  /\ conn = "none" /\ conn' = "up"
  /\ UNCHANGED <<log, frames, stream, hub, missed>>

\* MUTANT: the queue has no limit.
SendUnbounded(chunks) ==
  IF conn # "up" THEN missed' = TRUE /\ UNCHANGED up ELSE up' = up \o chunks /\ UNCHANGED missed

\* d.send of chunks, in order: the queue gives up its oldest frame.
Send(chunks) ==
  IF conn # "up" THEN missed' = TRUE /\ UNCHANGED up
  ELSE LET all  == up \o chunks
           over == Len(all) - QueueCap
       IN  /\ up' = IF over > 0 THEN SubSeq(all, over + 1, Len(all)) ELSE all
           /\ missed' = (missed \/ over > 0)

Hears(f) == down # <<>> /\ Head(down) = f /\ down' = Tail(down)

\* startLogStream.  An unknown app is told so, and its entry stays until the
\* viewer's handler sends log_cancel.
Follow ==
  /\ Hears("follow") /\ entry' = TRUE
  /\ IF kind = "unknown"
       THEN /\ Send(<<Chunk(<<>>, TRUE)>>)
            /\ canceled' = TRUE /\ UNCHANGED follower
       ELSE follower' = "first" /\ UNCHANGED <<canceled, up, missed>>
  /\ UNCHANGED <<log, conn, offset, partial, turned, torn, hub>>

\* cancelLogStream.
Cancel ==
  /\ Hears("cancel")
  /\ entry' = FALSE /\ canceled' = (canceled \/ entry)
  /\ UNCHANGED <<log, conn, up, follower, offset, partial, turned, torn, hub, missed>>

-----------------------------------------------------------------------------
(* The stream's goroutine.                                                 *)

\* MUTANT: a chunk begins with the last line of the one before.
ChunksOverlap(lines) ==
  [c \in 1..((Len(lines) + MaxChunk - 1) \div MaxChunk) |->
     Chunk(SubSeq(lines, IF c = 1 THEN 1 ELSE (c - 1) * MaxChunk,
                  IF c * MaxChunk < Len(lines) THEN c * MaxChunk ELSE Len(lines)), FALSE)]

\* At most MaxChunk lines each.
Chunks(lines) ==
  [c \in 1..((Len(lines) + MaxChunk - 1) \div MaxChunk) |->
     Chunk(SubSeq(lines, (c - 1) * MaxChunk + 1,
                  IF c * MaxChunk < Len(lines) THEN c * MaxChunk ELSE Len(lines)), FALSE)]

Emit(lines) == IF lines = <<>> THEN UNCHANGED <<up, missed>> ELSE Send(Chunks(lines))

\* followFile's first read shows an unfinished line as it is; an engine sends
\* only lines that have ended.
FirstRead ==
  /\ follower = "first" /\ follower' = "poll"
  /\ LET text  == Split(file)
         all   == IF kind = "process" /\ text.rest # <<>> THEN Append(text.lines, text.rest) ELSE text.lines
         lines == IF Len(all) > TailN THEN SubSeq(all, Len(all) - TailN + 1, Len(all)) ELSE all
     IN  /\ IF lines = <<>> THEN UNCHANGED <<up, missed>> ELSE Send(<<Chunk(lines, FALSE)>>)
         /\ partial' = IF kind = "process" THEN <<>> ELSE text.rest
         /\ torn' = IF kind = "process" THEN torn \cup UNION {{p, p + 1} : p \in ToSet(text.rest)} ELSE torn
  /\ offset' = Len(file) /\ turned' = FALSE
  /\ UNCHANGED <<log, conn, down, entry, canceled, hub>>

\* MUTANT: what was read of the old file's last line is put before the new file.
KeepsPartial == [from |-> IF Len(file) < offset THEN 0 ELSE offset, partial |-> partial]

\* A file shorter than the offset was rotated: restart from the top.
Resume ==
  IF Len(file) < offset THEN [from |-> 0, partial |-> <<>>] ELSE [from |-> offset, partial |-> partial]

\* A poll, or a batch of an engine's stream.  When the new file has reached
\* the old one's length, the rotation goes unnoticed.
Poll ==
  /\ follower = "poll" /\ Len(file) # offset
  /\ LET read == Resume.partial \o SubSeq(file, Resume.from + 1, Len(file))
         text == Split(read)
     IN  /\ Emit(text.lines) /\ partial' = text.rest
         /\ torn' = IF turned /\ Len(file) >= offset
                    THEN torn \cup ToSet(IF text.lines = <<>> THEN read ELSE Head(text.lines))
                    ELSE torn
  /\ offset' = Len(file) /\ turned' = FALSE
  /\ UNCHANGED <<log, conn, down, entry, canceled, follower, hub>>

\* MUTANT: the goroutine ends without a last chunk.
NoEof == UNCHANGED <<up, missed>>

\* The deferred function's chunk.
SendEof == Send(<<Chunk(<<>>, TRUE)>>)

\* The goroutine ends: canceled, or the engine's stream has ended.
End ==
  /\ follower \in {"first", "poll"}
  /\ (canceled /\ follower = "poll") \/ kind = "container"
  /\ follower' = "ended" /\ entry' = FALSE
  /\ SendEof
  /\ UNCHANGED <<log, conn, down, canceled, offset, partial, turned, torn, hub>>

-----------------------------------------------------------------------------
(* The hub.                                                                *)

\* GET /api/bb/apps/{id}/logs.
Open ==
  /\ viewer = "none" /\ ~broken
  /\ viewer' = "open" /\ down' = Append(down, "follow")
  /\ UNCHANGED <<log, conn, up, stream, broken, channel, seen, missed>>

\* The handler's deferred function; log_cancel goes out on its connection.
Gone ==
  /\ viewer' = "gone" /\ channel' = <<>>
  /\ down' = IF broken THEN down ELSE Append(down, "cancel")

Close ==
  /\ viewer = "open" /\ Gone
  /\ UNCHANGED <<log, conn, up, stream, broken, seen, missed>>

\* c.ctx.Done().
AgentDisconnected ==
  /\ viewer = "open" /\ broken /\ Gone
  /\ UNCHANGED <<log, conn, up, stream, broken, seen, missed>>

\* deliver drops what a slow viewer's channel has no room for.
Deliver ==
  /\ up # <<>> /\ up' = Tail(up)
  /\ IF viewer # "open" THEN UNCHANGED <<channel, missed>>
     ELSE IF Len(channel) < ChanCap THEN channel' = Append(channel, Head(up)) /\ UNCHANGED missed
     ELSE missed' = TRUE /\ UNCHANGED channel
  /\ UNCHANGED <<log, conn, down, stream, viewer, broken, seen>>

\* The handler writes a message to the viewer.
Show ==
  /\ viewer = "open" /\ channel # <<>>
  /\ seen' = seen \o Head(channel).lines
  /\ IF Head(channel).eof THEN Gone
     ELSE channel' = Tail(channel) /\ UNCHANGED <<viewer, down>>
  /\ UNCHANGED <<log, conn, up, stream, broken, missed>>

Agent == Follow \/ Cancel \/ FirstRead \/ Poll \/ End \/ NoticeLoss
Hub   == Open \/ Close \/ AgentDisconnected \/ Deliver \/ Show
Next  == Write \/ Rotate \/ Break \/ Reconnect \/ Agent \/ Hub

Spec == Init /\ [][Next]_vars

\* Both sides go on handling frames and notice a broken connection, and
\* goroutines run; apps write, viewers come and go, as they like.
FairSpec ==
  /\ Spec
  /\ WF_vars(Follow \/ Cancel) /\ WF_vars(NoticeLoss)
  /\ WF_vars(FirstRead) /\ WF_vars(canceled /\ End)
  /\ WF_vars(Deliver) /\ WF_vars(Show) /\ WF_vars(AgentDisconnected)

-----------------------------------------------------------------------------
(* Properties.                                                             *)

\* A viewer sees what the app wrote in its order and nothing twice, whatever
\* is dropped, rotated or cut into chunks (followFile, deliver).
SeenInOrder ==
  LET text == FlattenSeq(seen) IN \A i \in 1..(Len(text) - 1) : text[i] < text[i + 1]

\* What is shown as a line is one, but for the line that the first read cut
\* and those that a rotation no poll noticed has cut (torn): other polls and
\* rotations neither cut lines nor join them (followFile's partial).
LinesWhole ==
  \A i \in DOMAIN seen :
    ToSet(seen[i]) \cap torn = {} => Len(seen[i]) = 2 /\ seen[i][1] + 1 = seen[i][2]

\* Nothing follows a log for a viewer that is gone, and no entry of it stays:
\* log_cancel and the loss of the connection between them reach every stream
\* (cancelLogStream, cancelAllLogStreams).
FollowerEnds == (viewer = "gone") ~> (follower \in {"none", "ended"} /\ ~entry)

\* A stream that has ended on the agent ends for its viewer, unless a chunk
\* was dropped: the eof is dropped like any other.
ViewerEnds == (follower = "ended") ~> (viewer = "gone" \/ missed)
=============================================================================
