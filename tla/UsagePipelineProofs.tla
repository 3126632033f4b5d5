------------------------- MODULE UsagePipelineProofs ------------------------
(***************************************************************************)
(* What UsagePipeline's run checks of the way usage takes to the hub,      *)
(* proved for any transcripts, capacities and number of faults: no line a  *)
(* coding agent wrote disappears unaccounted for, and a Codex session is   *)
(* counted once however often it is read.                                  *)
(***************************************************************************)
EXTENDS UsagePipeline, SequenceTheorems, WellFoundedInduction, TLAPS

-----------------------------------------------------------------------------
(* The invariants.                                                         *)

\* How far into f the running watcher has come.
Local(f) == IF reading # None /\ reading.file = f THEN reading.at ELSE cp[f].offset

\* Rows the watcher has let go of, and with them those it still has.
Gone == InQueue \cup lost
Held == Gone \cup RowsOf(pending)

SourceOK == /\ usage \in [Messages \cup CodexFiles -> 0..MaxOutput]
            /\ text \in [Files -> Seq(Lines)] /\ \A f \in Files : Len(text[f]) <= MaxLines
            /\ rewritten \subseteq Files
WatcherOK == /\ cp \in [Files -> Checkpoints] /\ disk \in [Files -> Checkpoints]
             /\ reading \in Readers \cup {None}
             /\ lastOutput \in [Messages -> 0..MaxOutput]
RowsOK == /\ pending \in Seq(Rows) /\ Len(pending) <= BacklogCap
          /\ queue \in Seq(Seq(Rows)) /\ Len(queue) <= QueueCap
          /\ lost \subseteq Rows
RestOK == /\ agent \in {"up", "down"} /\ conn \in {"none", "up", "lost"}
          /\ hub \in [Keys -> 0..MaxOutput] /\ faults \in 0..MaxFaults

\* A Claude transcript is of messages; the total of a Codex session only grows.
TextInv ==
  /\ \A f \in ClaudeFiles : \A i \in 1..Len(text[f]) : text[f][i].of \in Messages
  /\ \A f \in CodexFiles : \A i \in 1..Len(text[f]) : text[f][i].out <= usage[f]
  /\ \A f \in CodexFiles : \A i, j \in 1..Len(text[f]) : i <= j => text[f][i].out <= text[f][j].out

\* Nothing has been read that was not written, and the checkpoint trails the
\* reader of its file.
PlaceInv ==
  /\ \A f \in Files \ rewritten : /\ Local(f) <= Len(text[f])
                                  /\ cp[f].offset <= Len(text[f]) /\ disk[f].offset <= Len(text[f])
  /\ \A f \in Files : cp[f].offset <= Local(f)
  /\ agent = "down" => reading = None

\* Only a fault lets events be numbered again: how far the counter has run.
CountInv ==
  /\ agent = "up" => \A f \in Files : cp[f].events <= faults * MaxLines + Local(f)
  /\ \A f \in Files : disk[f].events <= faults * MaxLines + MaxLines
  /\ agent = "down" => \A f \in Files : disk[f].events <= faults * MaxLines + disk[f].offset

TypeInv == SourceOK /\ WatcherOK /\ RowsOK /\ RestOK /\ TextInv /\ PlaceInv /\ CountInv

\* What lastOutput remembers, and what the watcher would not read again, is
\* on its way.
SeenInv == \A m \in Messages : lastOutput[m] > 0 => OnItsWay(m, lastOutput[m], Held)
LinesInv ==
  \A f \in ClaudeFiles \ rewritten : \A i \in 1..Len(text[f]) :
    /\ i <= disk[f].offset => OnItsWay(text[f][i].of, text[f][i].out, Gone)
    /\ agent = "up" /\ i <= Local(f) => OnItsWay(text[f][i].of, text[f][i].out, Held)
ClaudeInv == SeenInv /\ LinesInv

Total(f, i) == IF i = 0 THEN 0 ELSE text[f][i].out

\* A row numbered i is what the session's total gained with line i.
IsGain(f, i, out) == i \in 1..Len(text[f]) /\ out = Total(f, i) - Total(f, i - 1)
AllGains(f) ==
  /\ \A r \in Held, i \in 1..MaxEvents : r.key = <<f, i>> => IsGain(f, i, r.out)
  /\ \A i \in 1..MaxEvents : hub[<<f, i>>] # 0 => IsGain(f, i, hub[<<f, i>>])

\* The counter is never behind the lines read.  In step with them, it has
\* never been out of step; a checkpoint in step says the same of the watcher.
InStep(f) ==
  /\ agent = "up" => Local(f) <= cp[f].events
  /\ agent = "up" /\ cp[f].events = Local(f) => cp[f].last = Total(f, Local(f)) /\ AllGains(f)
  /\ disk[f].offset <= disk[f].events
  /\ disk[f].events = disk[f].offset =>
       /\ disk[f].last = Total(f, disk[f].offset) /\ AllGains(f)
       /\ agent = "up" => cp[f].events = Local(f)
CodexInv == \A f \in CodexFiles \ rewritten : InStep(f)

-----------------------------------------------------------------------------
(* The operators.                                                          *)

(* A bounded set of numbers has a largest.                                 *)
LEMMA Largest ==
  ASSUME NEW n \in Nat, NEW S \in SUBSET (0..n), S # {}
  PROVE  Max(S) \in S /\ \A x \in S : Max(S) >= x
<1> DEFINE T == {n - x : x \in S}
<1>1. T \subseteq Nat
  OBVIOUS
<1>2. T # {}
  OBVIOUS
<1>3. IsWellFoundedOn(OpToRel(<, Nat), Nat)
  BY NatLessThanWellFounded
<1>4. \E t \in T : \A u \in T : ~ (<<u, t>> \in OpToRel(<, Nat))
  BY <1>1, <1>2, <1>3, WFMin
<1>5. PICK t \in T : \A u \in T : ~ (u < t)
  BY <1>1, <1>4 DEF OpToRel
<1>6. PICK m \in S : t = n - m
  OBVIOUS
<1>7. \A x \in S : m >= x
  <2> SUFFICES ASSUME NEW x \in S PROVE m >= x
    OBVIOUS
  <2>1. n - x \in T
    OBVIOUS
  <2>2. ~ (n - x < n - m)
    BY <1>5, <1>6, <2>1
  <2>3. x \in 0..n /\ m \in 0..n
    OBVIOUS
  <2> HIDE DEF T
  <2>4. QED BY <2>2, <2>3
<1>8. QED
  BY <1>7 DEF Max

(* What a transaction makes of the table: no output shrinks, every row of  *)
(* the batch is covered, and each output was there or is of the batch.     *)
LEMMA IngestedTable ==
  ASSUME hub \in [Keys -> 0..MaxOutput], NEW batch \in Seq(Rows)
  PROVE  /\ Ingested(batch) \in [Keys -> 0..MaxOutput]
         /\ \A k \in Keys : Ingested(batch)[k] >= hub[k]
         /\ \A r \in RowsOf(batch) : Ingested(batch)[r.key] >= r.out
         /\ \A k \in Keys : \/ Ingested(batch)[k] = hub[k]
                            \/ \E r \in RowsOf(batch) : r.key = k /\ Ingested(batch)[k] = r.out
<1>1. MaxOutput \in Nat
  BY SizeAssumption
<1>2. RowsOf(batch) \subseteq Rows
  BY RangeOfSeq DEF RowsOf
<1> DEFINE S(k) == {hub[k]} \cup {r.out : r \in {x \in RowsOf(batch) : x.key = k}}
<1>3. ASSUME NEW k \in Keys
      PROVE  Ingested(batch)[k] = Max(S(k)) /\ Max(S(k)) \in S(k) /\ (\A x \in S(k) : Max(S(k)) >= x)
             /\ S(k) \subseteq 0..MaxOutput
  <2>1. S(k) \in SUBSET (0..MaxOutput) /\ S(k) # {}
    BY <1>1, <1>2 DEF Rows
  <2>2. Ingested(batch)[k] = Max(S(k))
    BY DEF Ingested
  <2> HIDE DEF S
  <2>3. QED BY <1>1, <2>1, <2>2, Largest
<1>4. Ingested(batch) \in [Keys -> 0..MaxOutput]
  <2>1. Ingested(batch) = [k \in Keys |-> Ingested(batch)[k]]
    BY DEF Ingested
  <2> HIDE DEF S
  <2>2. \A k \in Keys : Ingested(batch)[k] \in 0..MaxOutput
    BY <1>3
  <2>3. QED BY <2>1, <2>2
<1>5. ASSUME NEW r \in RowsOf(batch) PROVE Ingested(batch)[r.key] >= r.out
  <2>1. r.key \in Keys /\ r.out \in S(r.key)
    BY <1>2 DEF Rows
  <2> HIDE DEF S
  <2>2. QED BY <1>3, <2>1
<1>6. \A k \in Keys : Ingested(batch)[k] >= hub[k]
  BY <1>3
<1>7. ASSUME NEW k \in Keys
      PROVE  \/ Ingested(batch)[k] = hub[k]
             \/ \E r \in RowsOf(batch) : r.key = k /\ Ingested(batch)[k] = r.out
  BY <1>3
<1>8. QED BY <1>4, <1>5, <1>6, <1>7

\* The rows of all frames of a queue.
Contents(q) == UNION {RowsOf(q[i]) : i \in DOMAIN q}

(* Rows enter a queue with their frame and leave it with it.               *)
LEMMA QueueContents ==
  ASSUME NEW q \in Seq(Seq(Rows))
  PROVE  /\ Contents(q) \subseteq Rows
         /\ Contents(<<>>) = {}
         /\ \A b \in Seq(Rows) : Append(q, b) \in Seq(Seq(Rows)) /\ Contents(Append(q, b)) = Contents(q) \cup RowsOf(b)
         /\ q # <<>> => /\ Head(q) \in Seq(Rows) /\ Tail(q) \in Seq(Seq(Rows)) /\ Len(Tail(q)) = Len(q) - 1
                        /\ Contents(q) = RowsOf(Head(q)) \cup Contents(Tail(q))
<1>1. \A b \in Seq(Rows) : RowsOf(b) \subseteq Rows
  BY RangeOfSeq DEF RowsOf
<1>2. Contents(q) \subseteq Rows
  <2>1. \A i \in DOMAIN q : q[i] \in Seq(Rows)
    BY ElementOfSeq, LenProperties
  <2>2. QED BY <1>1, <2>1 DEF Contents
<1>3. Contents(<<>>) = {}
  BY DEF Contents
<1>4. ASSUME NEW b \in Seq(Rows)
      PROVE  Append(q, b) \in Seq(Seq(Rows)) /\ Contents(Append(q, b)) = Contents(q) \cup RowsOf(b)
  <2> DEFINE p == Append(q, b)
  <2>1. p \in Seq(Seq(Rows)) /\ Len(q) \in Nat
    OBVIOUS
  <2>2. /\ DOMAIN q = 1..Len(q) /\ DOMAIN p = 1..Len(q) + 1
        /\ p[Len(q) + 1] = b /\ \A i \in 1..Len(q) : p[i] = q[i]
    OBVIOUS
  <2> HIDE DEF p
  <2>3. \A i \in DOMAIN q : i \in DOMAIN p /\ p[i] = q[i]
    BY <2>1, <2>2
  <2>4. Len(q) + 1 \in DOMAIN p
    BY <2>1, <2>2
  <2>5. \A i \in DOMAIN p : i = Len(q) + 1 \/ i \in DOMAIN q
    BY <2>1, <2>2
  <2>6. Contents(p) = Contents(q) \cup RowsOf(b)
    BY <2>2, <2>3, <2>4, <2>5 DEF Contents
  <2>7. QED BY <2>1, <2>6 DEF p
<1>5. ASSUME q # <<>>
      PROVE  /\ Head(q) \in Seq(Rows) /\ Tail(q) \in Seq(Seq(Rows)) /\ Len(Tail(q)) = Len(q) - 1
             /\ Contents(q) = RowsOf(Head(q)) \cup Contents(Tail(q))
  <2> DEFINE p == Tail(q)
  <2>1. /\ Len(q) \in Nat /\ Len(q) > 0 /\ DOMAIN q = 1..Len(q) /\ p \in Seq(Seq(Rows))
        /\ Len(p) = Len(q) - 1 /\ DOMAIN p = 1..Len(p) /\ \A i \in 1..Len(p) : p[i] = q[i + 1]
    BY <1>5, HeadTailProperties, EmptySeq, LenProperties
  <2>2. Head(q) = q[1] /\ Head(q) \in Seq(Rows)
    BY <1>5
  <2> HIDE DEF p
  <2>3. \A i \in DOMAIN p : i + 1 \in DOMAIN q /\ p[i] = q[i + 1]
    BY <2>1
  <2>4. 1 \in DOMAIN q
    BY <2>1
  <2>5. \A i \in DOMAIN q : i = 1 \/ (i - 1 \in DOMAIN p /\ p[i - 1] = q[i])
    BY <2>1
  <2>6. \A r : r \in Contents(q) <=> r \in RowsOf(q[1]) \/ r \in Contents(p)
    BY <2>3, <2>4, <2>5 DEF Contents
  <2>7. QED BY <2>1, <2>2, <2>6 DEF p
<1>6. QED BY <1>2, <1>3, <1>4, <1>5

(* Rows of lists that are joined, or cut in two.                           *)
LEMMA ListRows ==
  ASSUME NEW q \in Seq(Rows)
  PROVE  /\ RowsOf(q) \subseteq Rows /\ RowsOf(<<>>) = {} /\ Len(q) \in Nat
         /\ \A p \in Seq(Rows) : /\ q \o p \in Seq(Rows) /\ RowsOf(q \o p) = RowsOf(q) \cup RowsOf(p)
                                 /\ Len(q \o p) = Len(q) + Len(p)
         /\ \A n \in 0..Len(q) : /\ SubSeq(q, n + 1, Len(q)) \in Seq(Rows)
                                 /\ Len(SubSeq(q, n + 1, Len(q))) = Len(q) - n
                                 /\ RowsOf(q) = RowsOf(SubSeq(q, 1, n)) \cup RowsOf(SubSeq(q, n + 1, Len(q)))
<1>1. RowsOf(q) \subseteq Rows /\ RowsOf(<<>>) = {} /\ Len(q) \in Nat
  BY RangeOfSeq DEF RowsOf, Range
<1>2. ASSUME NEW p \in Seq(Rows)
      PROVE  /\ q \o p \in Seq(Rows) /\ RowsOf(q \o p) = RowsOf(q) \cup RowsOf(p)
             /\ Len(q \o p) = Len(q) + Len(p)
  BY RangeConcatenation, ConcatProperties DEF RowsOf
<1>3. ASSUME NEW n \in 0..Len(q)
      PROVE  /\ SubSeq(q, n + 1, Len(q)) \in Seq(Rows)
             /\ Len(SubSeq(q, n + 1, Len(q))) = Len(q) - n
             /\ RowsOf(q) = RowsOf(SubSeq(q, 1, n)) \cup RowsOf(SubSeq(q, n + 1, Len(q)))
  <2> DEFINE a == SubSeq(q, 1, n)
             b == SubSeq(q, n + 1, Len(q))
  <2>1. \A i \in 1..Len(q) : q[i] \in Rows
    BY ElementOfSeq
  <2>2. a \in Seq(Rows) /\ Len(a) = n /\ \A i \in 1..n : a[i] = q[i]
    BY <1>1, <2>1, SubSeqProperties
  <2>3. b \in Seq(Rows) /\ Len(b) = Len(q) - n /\ \A i \in 1..Len(q) - n : b[i] = q[n + i]
    BY <1>1, <2>1, SubSeqProperties
  <2>4. RowsOf(q) = {q[i] : i \in 1..Len(q)} /\ RowsOf(a) = {a[i] : i \in 1..n}
        /\ RowsOf(b) = {b[i] : i \in 1..Len(q) - n}
    BY <2>2, <2>3, RangeEquality DEF RowsOf
  <2> HIDE DEF a, b
  <2>5. \A i \in 1..Len(q) : i \in 1..n \/ (i - n \in 1..Len(q) - n /\ q[i] = b[i - n])
    BY <1>1, <2>3
  <2>6. \A i \in 1..n : i \in 1..Len(q)
    BY <1>1
  <2>7. \A i \in 1..Len(q) - n : n + i \in 1..Len(q)
    BY <1>1
  <2>8. RowsOf(q) \subseteq RowsOf(a) \cup RowsOf(b)
    BY <2>2, <2>4, <2>5
  <2>9. RowsOf(a) \subseteq RowsOf(q) /\ RowsOf(b) \subseteq RowsOf(q)
    BY <2>2, <2>3, <2>4, <2>6, <2>7
  <2>10. QED BY <2>3, <2>8, <2>9 DEF a, b
<1>4. QED BY <1>1, <1>2, <1>3

-----------------------------------------------------------------------------
(* Send, flush and consumeLine.                                            *)

(* A frame that is sent, and the one it may push out, are in the queue or  *)
(* given up.                                                               *)
LEMMA SendEffect ==
  ASSUME RowsOK, NEW batch \in Seq(Rows), Send(batch)
  PROVE  /\ queue' \in Seq(Seq(Rows)) /\ Len(queue') <= QueueCap /\ lost' \subseteq Rows
         /\ Gone' = Gone \cup RowsOf(batch)
<1>1. QueueCap \in Nat \ {0} /\ Len(queue) \in Nat /\ RowsOf(batch) \subseteq Rows /\ queue \in Seq(Seq(Rows))
  BY LimitAssumption, ListRows DEF RowsOK
<1>2. Gone = Contents(queue) \cup lost /\ Gone' = Contents(queue') \cup lost'
  BY DEF Gone, InQueue, Contents
<1>3. CASE conn = "lost"
  BY <1>1, <1>2, <1>3 DEF Send, RowsOK
<1>4. CASE conn # "lost" /\ Len(queue) < QueueCap
  <2>1. queue' = Append(queue, batch) /\ lost' = lost
    BY <1>4 DEF Send
  <2>2. Len(queue') = Len(queue) + 1
    BY <1>1, <2>1
  <2>3. QED BY <1>1, <1>2, <1>4, <2>1, <2>2, QueueContents DEF RowsOK
<1>5. CASE conn # "lost" /\ ~ (Len(queue) < QueueCap)
  <2>1. queue' = Append(Tail(queue), batch) /\ lost' = lost \cup RowsOf(Head(queue))
    BY <1>5 DEF Send
  <2>2. queue # <<>> /\ Len(queue) = QueueCap
    BY <1>1, <1>5 DEF RowsOK
  <2>3. /\ Head(queue) \in Seq(Rows) /\ Tail(queue) \in Seq(Seq(Rows)) /\ Len(Tail(queue)) = Len(queue) - 1
        /\ Contents(queue) = RowsOf(Head(queue)) \cup Contents(Tail(queue))
    BY <1>1, <2>2, QueueContents
  <2>4. queue' \in Seq(Seq(Rows)) /\ Contents(queue') = Contents(Tail(queue)) \cup RowsOf(batch)
    BY <2>1, <2>3, QueueContents
  <2>5. Len(queue') = Len(Tail(queue)) + 1
    BY <2>1, <2>3
  <2>6. lost' \subseteq Rows
    BY <2>1, <2>3, ListRows DEF RowsOK
  <2>7. Gone' = Gone \cup RowsOf(batch)
    BY <1>2, <2>1, <2>3, <2>4
  <2>8. QED BY <1>1, <2>2, <2>3, <2>4, <2>5, <2>6, <2>7
<1>6. QED BY <1>3, <1>4, <1>5

\* What a flush, or collecting a row, does to the rows: all of before, and the
\* given ones, are still held; a checkpoint is saved only with nothing pending.
Handed(before, points, outputs) ==
  /\ RowsOK' /\ Gone \subseteq Gone' /\ Held' = before
  /\ disk' = disk \/ (disk' = points /\ Held' = Gone')
  /\ lastOutput' \in {outputs, NothingSeen}

(* flush loses no row and saves no checkpoint before its rows have left.   *)
LEMMA FlushEffect ==
  ASSUME RowsOK, NEW rows \in Seq(Rows), NEW points, NEW outputs, Flush(rows, points, outputs)
  PROVE  Handed(Gone \cup RowsOf(rows), points, outputs)
<1>1. /\ BacklogCap \in Nat /\ Len(rows) \in Nat /\ RowsOf(rows) \subseteq Rows
      /\ RowsOf(<<>>) = {} /\ <<>> \in Seq(Rows) /\ Len(<<>>) = 0
  BY LimitAssumption, ListRows
<1>2. Gone = Contents(queue) \cup lost /\ Gone' = Contents(queue') \cup lost' /\ Held' = Gone' \cup RowsOf(pending')
  BY DEF Gone, Held, InQueue, Contents
<1>3. CASE rows = <<>> /\ pending' = rows /\ disk' = points /\ lastOutput' = outputs /\ UNCHANGED <<queue, lost>>
  BY <1>1, <1>2, <1>3 DEF Handed, RowsOK
<1>4. CASE /\ Send(rows) /\ pending' = <<>> /\ disk' = points /\ lastOutput' \in {outputs, NothingSeen}
  <2>1. /\ queue' \in Seq(Seq(Rows)) /\ Len(queue') <= QueueCap /\ lost' \subseteq Rows
        /\ Gone' = Gone \cup RowsOf(rows)
    BY <1>4, SendEffect
  <2>2. RowsOK'
    BY <1>1, <1>4, <2>1 DEF RowsOK
  <2>3. QED BY <1>1, <1>2, <1>4, <2>1, <2>2 DEF Handed
<1>5. CASE /\ LET dropped == IF Len(rows) > BacklogCap THEN Len(rows) - BacklogCap ELSE 0
              IN  /\ pending' = SubSeq(rows, dropped + 1, Len(rows))
                  /\ lost' = lost \cup RowsOf(SubSeq(rows, 1, dropped))
           /\ lastOutput' = outputs /\ UNCHANGED <<disk, queue>>
  <2> DEFINE dropped == IF Len(rows) > BacklogCap THEN Len(rows) - BacklogCap ELSE 0
  <2>1. dropped \in 0..Len(rows) /\ Len(rows) - dropped <= BacklogCap
    BY <1>1
  <2>2. /\ pending' = SubSeq(rows, dropped + 1, Len(rows)) /\ lost' = lost \cup RowsOf(SubSeq(rows, 1, dropped))
        /\ lastOutput' = outputs /\ UNCHANGED <<disk, queue>>
    BY <1>5
  <2> HIDE DEF dropped
  <2>3. /\ pending' \in Seq(Rows) /\ Len(pending') = Len(rows) - dropped
        /\ RowsOf(rows) = RowsOf(SubSeq(rows, 1, dropped)) \cup RowsOf(pending')
    BY <2>1, <2>2, ListRows
  <2>4. RowsOK'
    BY <1>1, <2>1, <2>2, <2>3 DEF RowsOK
  <2>5. QED BY <1>2, <2>2, <2>3, <2>4 DEF Handed
<1>6. QED BY <1>3, <1>4, <1>5 DEF Flush

(* A row that was read is pending, or has left with the others.            *)
LEMMA CollectEffect ==
  ASSUME RowsOK, NEW rows \in Seq(Rows), Len(rows) <= 1, NEW points, NEW outputs, Collect(rows, points, outputs)
  PROVE  Handed(Held \cup RowsOf(rows), points, outputs)
<1>1. /\ FlushAt \in Nat /\ BacklogCap \in Nat /\ FlushAt <= BacklogCap /\ pending \in Seq(Rows)
      /\ Len(pending) \in Nat /\ Len(rows) \in Nat
  BY LimitAssumption, ListRows DEF RowsOK
<1>2. /\ pending \o rows \in Seq(Rows) /\ RowsOf(pending \o rows) = RowsOf(pending) \cup RowsOf(rows)
      /\ Len(pending \o rows) = Len(pending) + Len(rows)
  BY <1>1, ListRows
<1>3. CASE rows = <<>> \/ Len(pending) + 1 < FlushAt
  <2>1. pending' = pending \o rows /\ lastOutput' = outputs /\ UNCHANGED <<disk, queue, lost>>
    BY <1>3 DEF Collect
  <2>2. Len(pending') <= BacklogCap
    <3>1. rows = <<>> => Len(rows) = 0
      OBVIOUS
    <3>2. Len(pending) <= BacklogCap
      BY DEF RowsOK
    <3>3. QED BY <1>1, <1>2, <1>3, <2>1, <3>1, <3>2
  <2>3. QED BY <1>2, <2>1, <2>2 DEF Handed, RowsOK, Gone, Held, InQueue
<1>4. CASE ~ (rows = <<>> \/ Len(pending) + 1 < FlushAt)
  <2>1. Flush(pending \o rows, points, outputs)
    BY <1>4 DEF Collect
  <2>2. Handed(Gone \cup RowsOf(pending \o rows), points, outputs)
    BY <1>2, <2>1, FlushEffect
  <2>3. Gone \cup RowsOf(pending \o rows) = Held \cup RowsOf(rows)
    BY <1>2 DEF Held
  <2>4. QED BY <2>2, <2>3
<1>5. QED BY <1>3, <1>4

\* The row of the next line, if it yields one.
ClaudeRows(line) ==
  IF line.out > lastOutput[line.of] THEN <<[key |-> line.of, out |-> line.out]>> ELSE <<>>
CodexRows(f, line) ==
  LET more == Increment(line.out, cp[f].last)
  IN  IF more > 0 THEN <<[key |-> <<f, cp[f].events + 1>>, out |-> more]>> ELSE <<>>

-----------------------------------------------------------------------------
(* Type correctness.                                                       *)

(* Every fault allows for as many events as a transcript has lines.        *)
LEMMA EventBound ==
  ASSUME NEW n \in 0..MaxFaults
  PROVE  /\ n * MaxLines \in Nat /\ MaxLines \in Nat /\ MaxEvents \in Nat
         /\ n * MaxLines + MaxLines <= MaxEvents
         /\ (n + 1) * MaxLines = n * MaxLines + MaxLines
<1>1. MaxLines \in Nat /\ MaxFaults \in Nat
  BY SizeAssumption
<1>2. \A a, b, c \in Nat : a <= b => a * c <= b * c
  OBVIOUS
<1>3. (n + 1) * MaxLines <= (MaxFaults + 1) * MaxLines
  BY <1>1, <1>2
<1>4. (n + 1) * MaxLines = n * MaxLines + MaxLines
  BY <1>1
<1>5. n * MaxLines \in Nat /\ (MaxFaults + 1) * MaxLines \in Nat
  BY <1>1
<1>6. QED BY <1>1, <1>3, <1>4, <1>5 DEF MaxEvents

(* Reading a line: the row it yields, and where the counters stand.        *)
LEMMA ReadEffect ==
  ASSUME TypeInv, ReadLine
  PROVE  LET f == reading.file
             line == text[f][reading.at + 1]
             outputs == IF line.out > lastOutput[line.of] THEN [lastOutput EXCEPT ![line.of] = line.out]
                        ELSE lastOutput
         IN  /\ f \in Files /\ reading # None /\ reading' = [file |-> f, at |-> reading.at + 1]
             /\ reading.at \in Nat /\ reading.at + 1 \in 1..Len(text[f]) /\ reading.at + 1 <= MaxLines
             /\ line \in Lines /\ agent = "up" /\ reading' # None
             /\ UNCHANGED <<source, agent, conn, hub, faults>>
             /\ \/ /\ f \in ClaudeFiles /\ line.of \in Messages /\ cp' = cp
                   /\ Handed(Held \cup RowsOf(ClaudeRows(line)), cp, outputs)
                \/ /\ f \in CodexFiles /\ cp[f].events + 1 \in 1..MaxEvents
                   /\ cp' = [cp EXCEPT ![f] = [offset |-> cp[f].offset, last |-> line.out,
                                               events |-> cp[f].events + 1]]
                   /\ Handed(Held \cup RowsOf(CodexRows(f, line)), cp', lastOutput)
<1> DEFINE f == reading.file
           line == text[f][reading.at + 1]
           outputs == IF line.out > lastOutput[line.of] THEN [lastOutput EXCEPT ![line.of] = line.out]
                      ELSE lastOutput
<1> USE DEF TypeInv
<1>1. reading # None /\ agent = "up" /\ UNCHANGED <<source, agent, conn, hub, faults>>
      /\ reading.at < Len(text[f])
  BY DEF ReadLine
<1>2. f \in Files /\ reading.at \in 0..MaxLines /\ reading = [file |-> f, at |-> reading.at]
  BY <1>1 DEF WatcherOK, Readers
<1>3. Len(text[f]) \in Nat /\ Len(text[f]) <= MaxLines /\ text[f] \in Seq(Lines) /\ MaxLines \in Nat
  BY <1>2, SizeAssumption DEF SourceOK
<1>4. reading.at + 1 \in 1..Len(text[f]) /\ reading.at + 1 \in 0..MaxLines /\ reading.at \in Nat
  BY <1>1, <1>2, <1>3
<1>5. line \in Lines
  BY <1>3, <1>4, ElementOfSeq
<1>6. reading' = [reading EXCEPT !.at = @ + 1]
  BY DEF ReadLine
<1>7. reading' = [file |-> f, at |-> reading.at + 1]
  BY <1>2, <1>6
<1>8. reading' # None
  BY <1>2, <1>4, <1>7, KindAssumption
<1>9. CASE f \in ClaudeFiles
  <2>1. line.of \in Messages
    BY <1>4, <1>9 DEF TextInv
  <2>2. cp' = cp /\ Collect(ClaudeRows(line), cp, outputs)
    BY <1>9, KindAssumption DEF ReadLine, ClaudeRows
  <2> HIDE DEF line
  <2>3. ClaudeRows(line) \in Seq(Rows) /\ Len(ClaudeRows(line)) <= 1
    <3>1. [key |-> line.of, out |-> line.out] \in Rows
      BY <1>5, <2>1 DEF Lines, Rows, Keys
    <3>2. QED BY <3>1 DEF ClaudeRows
  <2> HIDE DEF outputs
  <2>4. Handed(Held \cup RowsOf(ClaudeRows(line)), cp, outputs)
    BY <2>2, <2>3, CollectEffect
  <2>5. \/ /\ f \in ClaudeFiles /\ line.of \in Messages /\ cp' = cp
           /\ Handed(Held \cup RowsOf(ClaudeRows(line)), cp, outputs)
        \/ /\ f \in CodexFiles /\ cp[f].events + 1 \in 1..MaxEvents
           /\ cp' = [cp EXCEPT ![f] = [offset |-> cp[f].offset, last |-> line.out,
                                       events |-> cp[f].events + 1]]
           /\ Handed(Held \cup RowsOf(CodexRows(f, line)), cp', lastOutput)
    BY <1>9, <2>1, <2>2, <2>4
  <2> HIDE DEF f, TypeInv
  <2>6. QED BY <1>1, <1>2, <1>4, <1>5, <1>7, <1>8, <2>5 DEF f, line, outputs
<1>10. CASE f \in CodexFiles
  <2>1. cp' = [cp EXCEPT ![f].last = line.out, ![f].events = @ + 1]
    BY <1>10, KindAssumption DEF ReadLine
  <2>2. cp[f] \in Checkpoints /\ cp \in [Files -> Checkpoints]
    BY <1>2 DEF WatcherOK
  <2>3. cp' = [cp EXCEPT ![f] = [offset |-> cp[f].offset, last |-> line.out, events |-> cp[f].events + 1]]
    <3> DEFINE next == [offset |-> cp[f].offset, last |-> line.out, events |-> cp[f].events + 1]
    <3> HIDE DEF f, line
    <3>1. cp[f] = [offset |-> cp[f].offset, last |-> cp[f].last, events |-> cp[f].events]
      BY <2>2 DEF Checkpoints
    <3>2. [cp[f] EXCEPT !.last = line.out] = [offset |-> cp[f].offset, last |-> line.out, events |-> cp[f].events]
      BY <3>1
    <3>3. [[cp[f] EXCEPT !.last = line.out] EXCEPT !.events = @ + 1] = next
      <4>1. ASSUME NEW o, NEW l, NEW n, NEW k
            PROVE  [[offset |-> o, last |-> l, events |-> n] EXCEPT !.events = k]
                     = [offset |-> o, last |-> l, events |-> k]
        OBVIOUS
      <4>2. [cp[f] EXCEPT !.last = line.out].events = cp[f].events
        BY <3>2
      <4>3. [[cp[f] EXCEPT !.last = line.out] EXCEPT !.events = @ + 1]
              = [[offset |-> cp[f].offset, last |-> line.out, events |-> cp[f].events]
                   EXCEPT !.events = cp[f].events + 1]
        BY <3>2, <4>2, Zenon
      <4>4. QED BY <4>1, <4>3
    <3>4. cp' = [cp EXCEPT ![f] = [[cp[f] EXCEPT !.last = line.out] EXCEPT !.events = @ + 1]]
      BY <1>2, <2>1, <2>2
    <3>5. QED BY <3>3, <3>4
  <2>4. cp[f].events + 1 \in 1..MaxEvents
    <3>1. cp[f].events <= faults * MaxLines + reading.at /\ cp[f].events \in Nat
      BY <1>1, <1>2, <2>2 DEF CountInv, Local, Checkpoints
    <3>2. faults * MaxLines \in Nat /\ faults * MaxLines + MaxLines <= MaxEvents /\ MaxEvents \in Nat
      BY EventBound DEF RestOK
    <3>3. QED BY <1>3, <1>4, <3>1, <3>2
  <2>5. cp'[f].events = cp[f].events + 1
    BY <1>2, <2>2, <2>3
  <2>6. Collect(CodexRows(f, line), cp', lastOutput)
    <3>1. LET more == Increment(line.out, cp[f].last) IN
             Collect(IF more > 0 THEN <<[key |-> <<f, cp'[f].events>>, out |-> more]>> ELSE <<>>, cp', lastOutput)
      BY <1>10, KindAssumption DEF ReadLine
    <3>2. QED BY <2>5, <3>1 DEF CodexRows
  <2> HIDE DEF line, f
  <2>7. CodexRows(f, line) \in Seq(Rows) /\ Len(CodexRows(f, line)) <= 1
    <3> DEFINE more == Increment(line.out, cp[f].last)
    <3>1. more \in Nat /\ more <= MaxOutput
      BY <1>5, <2>2, SizeAssumption DEF Increment, Lines, Checkpoints
    <3>2. <<f, cp[f].events + 1>> \in Keys
      BY <1>10, <2>4 DEF Keys
    <3> HIDE DEF more
    <3>3. more > 0 => [key |-> <<f, cp[f].events + 1>>, out |-> more] \in Rows
      BY <3>1, <3>2, SizeAssumption DEF Rows
    <3>4. CASE more > 0
      BY <3>3, <3>4 DEF CodexRows, more
    <3>5. CASE ~ (more > 0)
      BY <3>5 DEF CodexRows, more
    <3>6. QED BY <3>4, <3>5
  <2>8. Handed(Held \cup RowsOf(CodexRows(f, line)), cp', lastOutput)
    BY <2>6, <2>7, CollectEffect
  <2>9. QED BY <1>1, <1>2, <1>4, <1>5, <1>7, <1>8, <1>10, <2>3, <2>4, <2>8 DEF line, f
<1>11. f \in ClaudeFiles \/ f \in CodexFiles
  BY <1>2 DEF Files
<1> HIDE DEF TypeInv
<1>12. QED BY <1>9, <1>10, <1>11, Zenon

(* What faults add, the counters may run further.                          *)
LEMMA MoreFaults ==
  ASSUME RestOK, faults' = faults \/ Fault
  PROVE  /\ faults' \in 0..MaxFaults /\ faults * MaxLines <= faults' * MaxLines
         /\ faults * MaxLines \in Nat /\ faults' * MaxLines \in Nat /\ MaxLines \in Nat
         /\ Fault => faults' * MaxLines = faults * MaxLines + MaxLines
<1>1. faults' \in 0..MaxFaults /\ (Fault => faults' = faults + 1) /\ faults \in 0..MaxFaults
  BY SizeAssumption DEF RestOK, Fault
<1>2. /\ faults * MaxLines \in Nat /\ faults' * MaxLines \in Nat /\ MaxLines \in Nat
      /\ (faults + 1) * MaxLines = faults * MaxLines + MaxLines
  BY <1>1, EventBound
<1>3. CASE faults' = faults /\ ~ Fault
  BY <1>1, <1>2, <1>3
<1>4. CASE Fault
  <2>1. faults' * MaxLines = faults * MaxLines + MaxLines
    BY <1>1, <1>2, <1>4
  <2> DEFINE old == faults * MaxLines
             new == faults' * MaxLines
  <2>2. old \in Nat /\ new \in Nat /\ MaxLines \in Nat /\ new = old + MaxLines
    BY <1>2, <2>1
  <2> HIDE DEF old, new
  <2>3. old <= new
    BY <2>2
  <2>4. QED BY <1>1, <2>2, <2>3 DEF old, new
<1>5. QED BY <1>1, <1>3, <1>4

(* The coding agents: a line is added at the end, or a file starts over.   *)
LEMMA SourceStepTypes ==
  ASSUME TypeInv, NEW f \in Files, Rewrite(f) \/ \E k \in Messages \cup CodexFiles : WriteLine(f, k)
  PROVE  TypeInv'
<1> USE DEF TypeInv
<1>1. UNCHANGED <<agent, watcher, link, hub, lost>> /\ (faults' = faults \/ Fault)
  BY DEF Rewrite, WriteLine
<1>2. UNCHANGED <<agent, cp, disk, reading, pending, lastOutput, conn, queue, hub, lost>>
  BY <1>1 DEF watcher, link
<1>3. RowsOK' /\ WatcherOK' /\ RestOK'
  BY <1>1, <1>2, MoreFaults DEF RowsOK, WatcherOK, RestOK
<1>4. CountInv'
  <2>1. \A g \in Files : Local(g)' = Local(g)
    BY <1>2 DEF Local
  <2>2. \A g \in Files : /\ cp[g].events \in Nat /\ cp[g].offset \in Nat
                         /\ disk[g].events \in Nat /\ disk[g].offset \in Nat /\ Local(g) \in Nat
    BY DEF WatcherOK, Checkpoints, Readers, Local
  <2>3. faults * MaxLines <= faults' * MaxLines /\ faults * MaxLines \in Nat /\ faults' * MaxLines \in Nat
        /\ MaxLines \in Nat
    BY <1>1, MoreFaults
  <2>4. agent' = "up" => \A g \in Files : cp'[g].events <= faults' * MaxLines + Local(g)'
    BY <1>2, <2>1, <2>2, <2>3 DEF CountInv
  <2>5. \A g \in Files : disk'[g].events <= faults' * MaxLines + MaxLines
    BY <1>2, <2>2, <2>3 DEF CountInv
  <2>6. agent' = "down" => \A g \in Files : disk'[g].events <= faults' * MaxLines + disk'[g].offset
    BY <1>2, <2>2, <2>3 DEF CountInv
  <2>7. QED BY <2>4, <2>5, <2>6 DEF CountInv
<1>5. CASE Rewrite(f)
  <2>1. text' = [text EXCEPT ![f] = <<>>] /\ rewritten' = rewritten \cup {f} /\ usage' = usage
    BY <1>5 DEF Rewrite
  <2>2. Len(<<>>) = 0 /\ <<>> \in Seq(Lines) /\ MaxLines \in Nat
    BY SizeAssumption
  <2>3. SourceOK'
    BY <2>1, <2>2 DEF SourceOK
  <2>4. TextInv'
    BY <2>1, <2>2 DEF TextInv, SourceOK, Files
  <2>5. PlaceInv'
    BY <1>2, <2>1 DEF PlaceInv, SourceOK, Local
  <2>6. QED BY <1>3, <1>4, <2>3, <2>4, <2>5
<1>6. ASSUME NEW k \in Messages \cup CodexFiles, WriteLine(f, k) PROVE TypeInv'
  <2> DEFINE line == [of |-> k, out |-> usage[k] + 1]
  <2>1. /\ k \in IF f \in ClaudeFiles THEN Messages ELSE {f}
        /\ usage' = [usage EXCEPT ![k] = @ + 1] /\ text' = [text EXCEPT ![f] = Append(@, line)]
        /\ rewritten' = rewritten /\ Len(text[f]) < MaxLines /\ usage[k] < MaxOutput
    BY <1>6 DEF WriteLine
  <2>2. MaxOutput \in Nat /\ MaxLines \in Nat /\ usage[k] \in 0..MaxOutput /\ text[f] \in Seq(Lines)
        /\ Len(text[f]) \in Nat
    BY SizeAssumption DEF SourceOK
  <2>3. line \in Lines
    BY <2>1, <2>2 DEF Lines
  <2>4. /\ text'[f] \in Seq(Lines) /\ Len(text'[f]) = Len(text[f]) + 1
        /\ \A i \in 1..Len(text[f]) : text'[f][i] = text[f][i]
        /\ text'[f][Len(text[f]) + 1] = line
        /\ \A g \in Files : g # f => text'[g] = text[g]
    <3>1. text'[f] = Append(text[f], line)
      BY <2>1 DEF SourceOK
    <3> HIDE DEF line
    <3>2. \A g \in Files : g # f => text'[g] = text[g]
      BY <2>1 DEF SourceOK
    <3>3. QED BY <2>2, <2>3, <3>1, <3>2
  <2>5. SourceOK'
    <3>1. usage' \in [Messages \cup CodexFiles -> 0..MaxOutput]
      BY <2>1, <2>2 DEF SourceOK
    <3>2. text' \in [Files -> Seq(Lines)]
      <4>1. \A g \in Files : text'[g] \in Seq(Lines)
        BY <2>4 DEF SourceOK
      <4>2. QED BY <2>1, <4>1 DEF SourceOK
    <3>3. \A g \in Files : Len(text'[g]) <= MaxLines
      BY <2>1, <2>2, <2>4 DEF SourceOK
    <3>4. QED BY <2>1, <3>1, <3>2, <3>3 DEF SourceOK
  <2>6. ASSUME NEW i \in 1..Len(text'[f])
        PROVE  i = Len(text[f]) + 1 \/ i \in 1..Len(text[f])
    BY <2>2, <2>4
  <2>7. TextInv'
    <3>1. \A g \in ClaudeFiles : \A i \in 1..Len(text'[g]) : text'[g][i].of \in Messages
      <4> SUFFICES ASSUME NEW g \in ClaudeFiles, NEW i \in 1..Len(text'[g]) PROVE text'[g][i].of \in Messages
        OBVIOUS
      <4>1. CASE g = f
        BY <2>1, <2>4, <2>6, <4>1 DEF TextInv
      <4>2. CASE g # f
        BY <2>4, <4>2 DEF TextInv, Files
      <4>3. QED BY <4>1, <4>2
    <3>2. \A g \in CodexFiles : usage[g] \in Nat /\ usage'[g] \in Nat /\ usage[g] <= usage'[g]
      BY <2>1, <2>2 DEF SourceOK
    <3>3. \A g \in CodexFiles : \A i \in 1..Len(text'[g]) : text'[g][i].out <= usage'[g]
      <4> SUFFICES ASSUME NEW g \in CodexFiles, NEW i \in 1..Len(text'[g]) PROVE text'[g][i].out <= usage'[g]
        OBVIOUS
      <4>1. CASE g = f /\ i = Len(text[f]) + 1
        <5>1. k = f
          BY <2>1, <4>1, KindAssumption
        <5>2. QED BY <2>1, <2>2, <2>4, <4>1, <5>1 DEF SourceOK
      <4>2. CASE i \in 1..Len(text[g]) /\ text'[g][i] = text[g][i]
        <5>1. text[g][i].out <= usage[g]
          BY <4>2 DEF TextInv
        <5>2. text[g] \in Seq(Lines)
          BY DEF SourceOK, Files
        <5>3. text[g][i] \in Lines
          BY <4>2, <5>2, ElementOfSeq
        <5>4. QED BY <3>2, <4>2, <5>1, <5>3 DEF Lines
      <4>3. QED BY <2>4, <2>6, <4>1, <4>2 DEF Files
    <3>4. \A g \in CodexFiles : \A i, j \in 1..Len(text'[g]) : i <= j => text'[g][i].out <= text'[g][j].out
      <4> SUFFICES ASSUME NEW g \in CodexFiles, NEW i \in 1..Len(text'[g]), NEW j \in 1..Len(text'[g]), i <= j
                   PROVE  text'[g][i].out <= text'[g][j].out
        OBVIOUS
      <4>1. CASE g # f
        BY <2>4, <4>1 DEF TextInv, Files
      <4>2. CASE g = f /\ j \in 1..Len(text[f])
        <5>1. i \in 1..Len(text[f])
          BY <2>2, <4>2
        <5>2. QED BY <2>4, <4>2, <5>1 DEF TextInv
      <4>3. CASE g = f /\ j = Len(text[f]) + 1
        <5>1. k = f /\ line.out = usage[f] + 1
          BY <2>1, <4>3, KindAssumption
        <5>2. CASE i = j
          <6>1. text'[g][j] = line
            BY <2>4, <4>3
          <6>2. text'[g][j].out \in Nat
            BY <2>2, <5>1, <6>1
          <6>3. QED BY <5>2, <6>2
        <5>3. CASE i # j
          <6>1. i \in 1..Len(text[f])
            BY <2>2, <2>6, <4>3, <5>3
          <6>2. text[f][i].out <= usage[f]
            BY <4>3, <6>1 DEF TextInv
          <6>3. text[f][i] \in Lines
            BY <2>2, <6>1, ElementOfSeq
          <6>4. text'[g][i] = text[f][i] /\ text'[g][j] = line
            BY <2>4, <4>3, <6>1
          <6>5. text[f][i].out \in Nat /\ usage[f] \in Nat
            BY <2>2, <5>1, <6>3 DEF Lines
          <6> HIDE DEF line
          <6>6. QED BY <5>1, <6>2, <6>4, <6>5
        <5>4. QED BY <5>2, <5>3
      <4>4. QED BY <2>6, <4>1, <4>2, <4>3
    <3>5. QED BY <3>1, <3>3, <3>4 DEF TextInv
  <2>8. PlaceInv'
    <3>1. \A g \in Files : Len(text[g]) <= Len(text'[g]) /\ Len(text[g]) \in Nat /\ Len(text'[g]) \in Nat
      <4>1. \A g \in Files : text[g] \in Seq(Lines) /\ text'[g] \in Seq(Lines)
        BY <2>5 DEF SourceOK
      <4>2. \A g \in Files : Len(text[g]) \in Nat /\ Len(text'[g]) \in Nat
        BY <4>1, LenProperties
      <4>3. QED BY <2>2, <2>4, <4>2
    <3>2. \A g \in Files : Local(g)' = Local(g) /\ Local(g) \in Nat /\ cp[g].offset \in Nat /\ disk[g].offset \in Nat
      BY <1>2 DEF Local, WatcherOK, Checkpoints, Readers
    <3>3. \A g \in Files \ rewritten' : /\ Local(g)' <= Len(text'[g])
                                        /\ cp'[g].offset <= Len(text'[g]) /\ disk'[g].offset <= Len(text'[g])
      BY <1>2, <2>1, <3>1, <3>2 DEF PlaceInv
    <3>4. QED BY <1>2, <3>2, <3>3 DEF PlaceInv
  <2>9. QED BY <1>3, <1>4, <2>5, <2>7, <2>8
<1>7. QED BY <1>5, <1>6

(* Opening a file resumes at the checkpoint, or starts over where the file *)
(* has shrunk; at its end the checkpoint takes over the reader's offset.   *)
LEMMA FileStepTypes ==
  ASSUME TypeInv, (\E f \in Files : OpenFile(f)) \/ EndOfFile
  PROVE  TypeInv'
<1> USE DEF TypeInv
<1>1. /\ UNCHANGED <<usage, text, rewritten, agent, disk, pending, lastOutput, conn, queue, hub, lost, faults>>
      /\ agent = "up"
  BY DEF OpenFile, EndOfFile, source, link
<1>2. SourceOK' /\ RowsOK' /\ RestOK' /\ TextInv'
  BY <1>1 DEF SourceOK, RowsOK, RestOK, TextInv
<1>3. Fresh \in Checkpoints
  BY SizeAssumption, EventBound DEF Fresh, Checkpoints, RestOK
<1>4. faults * MaxLines \in Nat
  BY EventBound DEF RestOK
<1>5. ASSUME NEW f \in Files, OpenFile(f) PROVE TypeInv'
  <2>1. /\ cp' = [cp EXCEPT ![f] = Resumed(f)] /\ reading = None
        /\ reading' = IF Len(text[f]) = Resumed(f).offset THEN None ELSE [file |-> f, at |-> Resumed(f).offset]
    BY <1>5 DEF OpenFile
  <2>2. Resumed(f) \in Checkpoints
    BY <1>3 DEF Resumed, WatcherOK
  <2>3. WatcherOK'
    BY <1>1, <2>1, <2>2 DEF WatcherOK, Readers, Checkpoints
  <2>4. \A g \in Files : cp'[g] = IF g = f THEN Resumed(f) ELSE cp[g]
    BY <2>1 DEF WatcherOK
  <2>5. \A g \in Files : Local(g)' = cp'[g].offset /\ Local(g) = cp[g].offset
    BY <2>1, <2>4 DEF Local
  <2>6. f \notin rewritten => Resumed(f) = cp[f]
    <3>1. f \notin rewritten => cp[f].offset <= Len(text[f])
      BY DEF PlaceInv
    <3>2. cp[f].offset \in Nat /\ Len(text[f]) \in Nat
      BY DEF WatcherOK, Checkpoints, SourceOK
    <3>3. QED BY <3>1, <3>2 DEF Resumed
  <2>7. \A g \in Files : cp'[g] = cp[g] \/ (cp'[g] = Fresh /\ g \in rewritten)
    BY <2>4, <2>6 DEF Resumed
  <2>8. PlaceInv'
    <3>1. \A g \in Files \ rewritten : cp'[g] = cp[g]
      BY <2>7
    <3>2. \A g \in Files : cp'[g].offset \in Nat
      BY <2>3 DEF WatcherOK, Checkpoints
    <3>3. QED BY <1>1, <2>5, <3>1, <3>2 DEF PlaceInv
  <2>9. CountInv'
    <3>1. \A g \in Files : cp'[g].events <= faults * MaxLines + cp'[g].offset
      <4>1. \A g \in Files : cp[g].events <= faults * MaxLines + cp[g].offset
        BY <1>1, <2>5 DEF CountInv
      <4>2. Fresh.events <= faults * MaxLines + Fresh.offset
        BY <1>4 DEF Fresh
      <4>3. QED BY <2>7, <4>1, <4>2
    <3>2. QED BY <1>1, <2>5, <3>1 DEF CountInv
  <2>10. QED BY <1>2, <2>3, <2>8, <2>9
<1>6. CASE EndOfFile
  <2> DEFINE f == reading.file
  <2>1. /\ cp' = [cp EXCEPT ![f].offset = reading.at] /\ reading # None /\ reading' = None
    BY <1>6 DEF EndOfFile
  <2>2. f \in Files /\ reading.at \in 0..MaxLines /\ cp[f] \in Checkpoints
    BY <2>1 DEF WatcherOK, Readers
  <2> HIDE DEF f
  <2>3. /\ \A g \in Files : g # f => cp'[g] = cp[g]
        /\ cp'[f] \in Checkpoints /\ cp'[f].offset = reading.at /\ cp'[f].events = cp[f].events
    BY <2>1, <2>2 DEF WatcherOK, Checkpoints
  <2>4. WatcherOK'
    <3>1. \A g \in Files : cp'[g] \in Checkpoints
      BY <2>3 DEF WatcherOK
    <3>2. cp' \in [Files -> Checkpoints]
      BY <2>1, <3>1 DEF WatcherOK
    <3>3. QED BY <1>1, <2>1, <3>2 DEF WatcherOK
  <2>5. \A g \in Files : Local(g)' = Local(g) /\ cp'[g].offset = Local(g) /\ cp'[g].events = cp[g].events
    BY <2>1, <2>3 DEF Local, f
  <2>6. \A g \in Files : Local(g) \in Nat
    BY DEF Local, WatcherOK, Readers, Checkpoints
  <2>7. PlaceInv'
    BY <1>1, <2>1, <2>5, <2>6 DEF PlaceInv
  <2>8. CountInv'
    BY <1>1, <2>5 DEF CountInv
  <2>9. QED BY <1>2, <2>4, <2>7, <2>8
<1>7. QED BY <1>5, <1>6

(* Reading a line moves the reader by one, and the counter of a Codex      *)
(* session with it; a checkpoint saved on the way is no further.           *)
LEMMA ReadStepTypes ==
  ASSUME TypeInv, ReadLine
  PROVE  TypeInv'
<1>0. PICK f : f = reading.file
  OBVIOUS
<1> DEFINE line == text[f][reading.at + 1]
           outputs == IF line.out > lastOutput[line.of] THEN [lastOutput EXCEPT ![line.of] = line.out]
                      ELSE lastOutput
<1>1. /\ f \in Files /\ reading # None /\ reading' = [file |-> f, at |-> reading.at + 1]
      /\ reading.at \in Nat /\ reading.at + 1 \in 1..Len(text[f]) /\ reading.at + 1 <= MaxLines
      /\ line \in Lines /\ agent = "up" /\ reading' # None
      /\ UNCHANGED <<source, agent, conn, hub, faults>>
      /\ \/ /\ f \in ClaudeFiles /\ line.of \in Messages /\ cp' = cp
            /\ Handed(Held \cup RowsOf(ClaudeRows(line)), cp, outputs)
         \/ /\ f \in CodexFiles /\ cp[f].events + 1 \in 1..MaxEvents
            /\ cp' = [cp EXCEPT ![f] = [offset |-> cp[f].offset, last |-> line.out,
                                        events |-> cp[f].events + 1]]
            /\ Handed(Held \cup RowsOf(CodexRows(f, line)), cp', lastOutput)
  BY <1>0, ReadEffect
<1> USE DEF TypeInv
<1>2. UNCHANGED <<usage, text, rewritten, agent, conn, hub, faults>>
  BY <1>1 DEF source
<1>3. /\ RowsOK' /\ disk' \in {disk, cp'}
      /\ lastOutput' \in {lastOutput, outputs, NothingSeen}
  BY <1>1 DEF Handed
<1>4. lastOutput' \in [Messages -> 0..MaxOutput]
  <2>1. NothingSeen \in [Messages -> 0..MaxOutput]
    BY SizeAssumption DEF NothingSeen
  <2>2. lastOutput \in [Messages -> 0..MaxOutput]
    BY DEF WatcherOK
  <2>3. line.out \in 0..MaxOutput
    BY <1>1, SizeAssumption DEF Lines
  <2>4. line.of \in Messages => outputs \in [Messages -> 0..MaxOutput]
    BY <2>2, <2>3
  <2> HIDE DEF outputs, line
  <2>5. QED BY <1>1, <2>1, <2>2, <2>4 DEF Handed
<1> HIDE DEF outputs, line
<1>5. /\ \A g \in Files : cp'[g] \in Checkpoints /\ cp'[g].offset = cp[g].offset
      /\ \A g \in Files : cp'[g].events = cp[g].events \/ (g = f /\ cp'[g].events = cp[g].events + 1)
      /\ cp' \in [Files -> Checkpoints]
  <2>1. cp \in [Files -> Checkpoints]
    BY DEF WatcherOK
  <2>2. CASE cp' = cp
    BY <2>1, <2>2
  <2>3. CASE /\ cp[f].events + 1 \in 1..MaxEvents
             /\ cp' = [cp EXCEPT ![f] = [offset |-> cp[f].offset, last |-> line.out,
                                         events |-> cp[f].events + 1]]
    <3>1. line.out \in 0..MaxOutput
      BY <1>1, SizeAssumption DEF Lines
    <3>2. cp[f].events + 1 \in 0..MaxEvents
      BY <2>3
    <3>3. [offset |-> cp[f].offset, last |-> line.out, events |-> cp[f].events + 1] \in Checkpoints
      BY <1>1, <2>1, <3>1, <3>2 DEF Checkpoints
    <3>4. QED BY <1>1, <2>1, <2>3, <3>3
  <2>4. QED BY <1>1, <2>2, <2>3
<1>6. SourceOK' /\ RestOK' /\ TextInv'
  BY <1>2 DEF SourceOK, RestOK, TextInv
<1>7. WatcherOK'
  <2>1. reading' \in Readers
    <3>1. reading.at + 1 \in 0..MaxLines
      BY <1>1, SizeAssumption
    <3>2. QED BY <1>1, <3>1 DEF Readers
  <2>2. QED BY <1>3, <1>4, <1>5, <2>1 DEF WatcherOK
<1>8. /\ Local(f) = reading.at /\ Local(f)' = reading.at + 1
      /\ \A g \in Files : g # f => Local(g) = cp[g].offset /\ Local(g)' = cp[g].offset
  BY <1>0, <1>1, <1>5 DEF Local
<1>9. \A g \in Files : /\ cp[g].offset \in Nat /\ cp[g].events \in Nat /\ Local(g) \in Nat
                       /\ Local(g)' \in Nat /\ Local(g) <= Local(g)' /\ Local(g)' <= MaxLines
                       /\ disk[g].offset \in Nat /\ disk[g].events \in Nat /\ Len(text[g]) \in Nat
  <2>1. MaxLines \in Nat
    BY SizeAssumption
  <2>2. \A g \in Files : /\ cp[g].offset \in 0..MaxLines /\ cp[g].events \in Nat
                         /\ disk[g].offset \in Nat /\ disk[g].events \in Nat /\ Len(text[g]) \in Nat
    BY DEF WatcherOK, Checkpoints, SourceOK
  <2>3. ASSUME NEW g \in Files
        PROVE  Local(g) \in Nat /\ Local(g)' \in Nat /\ Local(g) <= Local(g)' /\ Local(g)' <= MaxLines
    <3>1. CASE g = f
      BY <1>1, <1>8, <2>1, <3>1
    <3>2. CASE g # f
      BY <1>8, <2>1, <2>2, <3>2
    <3>3. QED BY <3>1, <3>2
  <2>4. QED BY <2>2, <2>3
<1>10. PlaceInv'
  <2>1. \A g \in Files \ rewritten : Local(g)' <= Len(text[g])
    <3> SUFFICES ASSUME NEW g \in Files \ rewritten PROVE Local(g)' <= Len(text[g])
      OBVIOUS
    <3>1. CASE g = f
      BY <1>1, <1>8, <1>9, <3>1
    <3>2. CASE g # f
      BY <1>8, <3>2 DEF PlaceInv
    <3>3. QED BY <3>1, <3>2
  <2>2. \A g \in Files : cp'[g].offset <= Local(g)'
    <3> SUFFICES ASSUME NEW g \in Files PROVE cp'[g].offset <= Local(g)'
      OBVIOUS
    <3>1. cp'[g].offset = cp[g].offset /\ cp[g].offset <= Local(g)
      BY <1>5 DEF PlaceInv
    <3>2. QED BY <1>9, <3>1
  <2>3. \A g \in Files \ rewritten : cp'[g].offset <= Len(text[g]) /\ disk'[g].offset <= Len(text[g])
    BY <1>3, <1>5 DEF PlaceInv
  <2>4. QED BY <1>1, <1>2, <2>1, <2>2, <2>3 DEF PlaceInv
<1>11. CountInv'
  <2>1. faults * MaxLines \in Nat /\ MaxLines \in Nat
    BY EventBound DEF RestOK
  <2> DEFINE base == faults * MaxLines
  <2>2. base \in Nat
    BY <2>1
  <2>3. \A g \in Files : cp[g].events <= base + Local(g) /\ disk[g].events <= base + MaxLines
    BY <1>1 DEF CountInv
  <2>4. base' = base
    BY <1>2
  <2> HIDE DEF base
  <2>5. \A g \in Files : cp'[g].events <= base + Local(g)'
    BY <1>5, <1>8, <1>9, <2>2, <2>3
  <2>6. \A g \in Files : cp'[g].events \in Nat
    BY <1>5 DEF Checkpoints
  <2>7. \A g \in Files : cp'[g].events <= base + MaxLines
    BY <1>9, <2>1, <2>2, <2>5, <2>6
  <2>8. \A g \in Files : disk'[g].events <= base + MaxLines
    BY <1>3, <2>3, <2>7
  <2>9. agent' = "up"
    BY <1>1, <1>2
  <2>10. QED BY <1>2, <2>5, <2>8, <2>9 DEF CountInv, base
<1>12. QED BY <1>3, <1>6, <1>7, <1>10, <1>11

(* The flush between two scans.                                            *)
LEMMA TickEffect ==
  ASSUME TypeInv, FlushTick
  PROVE  /\ agent = "up" /\ reading = None /\ Handed(Held, cp, lastOutput)
         /\ UNCHANGED <<usage, text, rewritten, agent, cp, reading, conn, hub, faults>>
<1>1. /\ agent = "up" /\ reading = None /\ Flush(pending, cp, lastOutput)
      /\ UNCHANGED <<usage, text, rewritten, agent, cp, reading, conn, hub, faults>>
  BY DEF FlushTick, source
<1>2. Handed(Gone \cup RowsOf(pending), cp, lastOutput)
  BY <1>1, FlushEffect DEF TypeInv, RowsOK
<1>3. QED BY <1>1, <1>2 DEF Held

(* What the watcher is left with after a crash or a shutdown: nothing but  *)
(* the file of checkpoints.                                                *)
LEMMA DownEffect ==
  ASSUME TypeInv, Crash \/ Shutdown
  PROVE  /\ agent = "up" /\ agent' = "down" /\ reading' = None /\ conn' = "none" /\ Fault
         /\ pending' = <<>> /\ queue' = <<>> /\ lastOutput' = NothingSeen
         /\ UNCHANGED <<usage, text, rewritten, cp, hub>>
         /\ \/ disk' = disk /\ Gone' = Gone
            \/ disk' = cp /\ reading = None /\ Gone' = Held
         /\ Held' = Gone' /\ lost' \subseteq Rows
<1>1. /\ agent = "up" /\ agent' = "down" /\ reading' = None /\ conn' = "none" /\ Fault
      /\ pending' = <<>> /\ queue' = <<>> /\ lastOutput' = NothingSeen
      /\ UNCHANGED <<usage, text, rewritten, cp, hub>>
  BY DEF Crash, Shutdown, Down, source
<1>2. InQueue' = {} /\ RowsOf(pending') = {} /\ InQueue \subseteq Rows /\ RowsOf(pending) \subseteq Rows
  <2>1. InQueue = Contents(queue) /\ InQueue' = Contents(queue')
    BY DEF InQueue, Contents
  <2>2. queue \in Seq(Seq(Rows)) /\ pending \in Seq(Rows)
    BY DEF TypeInv, RowsOK
  <2>3. Contents(<<>>) = {} /\ Contents(queue) \subseteq Rows
    BY <2>2, QueueContents
  <2>4. RowsOf(<<>>) = {} /\ RowsOf(pending) \subseteq Rows
    BY <2>2, ListRows
  <2>5. QED BY <1>1, <2>1, <2>3, <2>4
<1>3. \/ disk' = disk /\ lost' = lost \cup InQueue
      \/ disk' = cp /\ reading = None /\ lost' = lost \cup InQueue \cup RowsOf(pending)
  BY DEF Crash, Shutdown
<1>4. lost' \subseteq Rows
  BY <1>2, <1>3 DEF TypeInv, RowsOK
<1>5. QED BY <1>1, <1>2, <1>3, <1>4 DEF Gone, Held

(* The connection and the hub take rows from the queue; they add none.     *)
LEMMA LinkEffect ==
  ASSUME TypeInv, Connect \/ Disconnect \/ NoticeDisconnect \/ Ingest \/ IngestFails
  PROVE  /\ UNCHANGED <<usage, text, rewritten, agent, cp, disk, reading, pending, lastOutput>>
         /\ faults' = faults \/ Fault
         /\ conn' \in {"none", "up", "lost"}
         /\ queue' \in Seq(Seq(Rows)) /\ Len(queue') <= QueueCap /\ lost' \subseteq Rows
         /\ Gone' \subseteq Gone
         /\ \/ hub' = hub /\ Gone' = Gone
            \/ \E batch \in Seq(Rows) : hub' = Ingested(batch) /\ Gone = RowsOf(batch) \cup Gone'
<1>1. /\ UNCHANGED <<usage, text, rewritten, agent, cp, disk, reading, pending, lastOutput>>
      /\ faults' = faults \/ Fault
  BY DEF Connect, Disconnect, NoticeDisconnect, Ingest, IngestFails, source, watcher
<1>2. Gone = Contents(queue) \cup lost /\ Gone' = Contents(queue') \cup lost' /\ InQueue = Contents(queue)
  BY DEF Gone, InQueue, Contents
<1>3. /\ queue \in Seq(Seq(Rows)) /\ Len(queue) <= QueueCap /\ QueueCap \in Nat /\ lost \subseteq Rows
      /\ Len(queue) \in Nat
  BY LimitAssumption DEF TypeInv, RowsOK
<1>4. CASE Connect \/ NoticeDisconnect
  BY <1>1, <1>2, <1>3, <1>4 DEF Connect, NoticeDisconnect
<1>5. CASE Disconnect
  <2>1. conn' = "lost" /\ queue' = <<>> /\ lost' = lost \cup Contents(queue) /\ hub' = hub
    BY <1>2, <1>5 DEF Disconnect
  <2>2. Contents(<<>>) = {} /\ Contents(queue) \subseteq Rows /\ <<>> \in Seq(Seq(Rows)) /\ Len(<<>>) <= QueueCap
    BY <1>3, QueueContents
  <2>3. QED BY <1>1, <1>2, <1>3, <2>1, <2>2
<1>6. CASE Ingest \/ IngestFails
  <2>1. queue # <<>> /\ queue' = Tail(queue) /\ conn' = conn
    BY <1>6 DEF Ingest, IngestFails
  <2>2. /\ Head(queue) \in Seq(Rows) /\ Tail(queue) \in Seq(Seq(Rows)) /\ Len(Tail(queue)) = Len(queue) - 1
        /\ Contents(queue) = RowsOf(Head(queue)) \cup Contents(Tail(queue))
    BY <1>3, <2>1, QueueContents
  <2>3. Len(queue') <= QueueCap
    BY <1>3, <2>1, <2>2
  <2>4. conn' \in {"none", "up", "lost"}
    BY <2>1 DEF TypeInv, RestOK
  <2>5. RowsOf(Head(queue)) \subseteq Rows
    BY <2>2, ListRows
  <2>6. CASE Ingest
    <3>1. hub' = Ingested(Head(queue)) /\ lost' = lost
      BY <2>6 DEF Ingest
    <3>2. QED BY <1>1, <1>2, <1>3, <2>1, <2>2, <2>3, <2>4, <3>1
  <2>7. CASE IngestFails
    <3>1. hub' = hub /\ lost' = lost \cup RowsOf(Head(queue))
      BY <2>7 DEF IngestFails
    <3>2. QED BY <1>1, <1>2, <1>3, <2>1, <2>2, <2>3, <2>4, <2>5, <3>1
  <2>8. QED BY <1>6, <2>6, <2>7
<1>7. QED BY <1>4, <1>5, <1>6

(* The flush, the end and the start of the watcher, the connection and the *)
(* hub keep the types.                                                     *)
LEMMA OtherStepTypes ==
  ASSUME TypeInv,
         \/ FlushTick \/ Start \/ Crash \/ Shutdown
         \/ Connect \/ Disconnect \/ NoticeDisconnect \/ Ingest \/ IngestFails
  PROVE  TypeInv'
<1> USE DEF TypeInv
<1>1. /\ \A g \in Files : /\ cp[g].events \in Nat /\ cp[g].offset \in 0..MaxLines
                          /\ disk[g].events \in Nat /\ disk[g].offset \in 0..MaxLines
      /\ faults * MaxLines \in Nat /\ MaxLines \in Nat
      /\ NothingSeen \in [Messages -> 0..MaxOutput]
  <2>1. NothingSeen \in [Messages -> 0..MaxOutput]
    BY SizeAssumption DEF NothingSeen
  <2>2. faults * MaxLines \in Nat /\ MaxLines \in Nat
    BY EventBound DEF RestOK
  <2>3. QED BY <2>1, <2>2 DEF WatcherOK, Checkpoints
<1>2. CASE FlushTick
  <2>1. /\ agent = "up" /\ reading = None /\ Handed(Held, cp, lastOutput)
        /\ UNCHANGED <<usage, text, rewritten, agent, cp, reading, conn, hub, faults>>
    BY <1>2, TickEffect
  <2>2. RowsOK' /\ disk' \in {disk, cp} /\ lastOutput' \in {lastOutput, NothingSeen}
    BY <2>1 DEF Handed
  <2>3. SourceOK' /\ WatcherOK' /\ RestOK' /\ TextInv' /\ PlaceInv'
    BY <1>1, <2>1, <2>2 DEF SourceOK, WatcherOK, RestOK, TextInv, PlaceInv, Local
  <2>4. CountInv'
    <3> DEFINE base == faults * MaxLines
    <3>1. base' = base /\ base \in Nat
      BY <1>1, <2>1
    <3>2. \A g \in Files : cp[g].events <= base + cp[g].offset /\ disk[g].events <= base + MaxLines
      BY <2>1 DEF CountInv, Local
    <3> HIDE DEF base
    <3>3. \A g \in Files : cp[g].events <= base + MaxLines
      BY <1>1, <3>1, <3>2
    <3>4. \A g \in Files : disk'[g].events <= base + MaxLines
      BY <2>2, <3>2, <3>3
    <3>5. QED BY <2>1, <3>1, <3>2, <3>4 DEF CountInv, Local, base
  <2>5. QED BY <2>2, <2>3, <2>4
<1>3. CASE Start
  <2>1. /\ agent = "down" /\ agent' = "up" /\ cp' = disk
        /\ UNCHANGED <<usage, text, rewritten, disk, reading, pending, lastOutput, conn, queue, hub, lost, faults>>
    BY <1>3 DEF Start, source, link
  <2>2. reading = None /\ reading' = None
    BY <2>1 DEF PlaceInv
  <2>3. SourceOK' /\ WatcherOK' /\ RowsOK' /\ RestOK' /\ TextInv'
    BY <2>1 DEF SourceOK, WatcherOK, RowsOK, RestOK, TextInv
  <2>4. PlaceInv'
    BY <1>1, <2>1, <2>2 DEF PlaceInv, Local
  <2>5. CountInv'
    BY <2>1, <2>2 DEF CountInv, Local
  <2>6. QED BY <2>3, <2>4, <2>5
<1>4. CASE Crash \/ Shutdown
  <2>1. /\ agent = "up" /\ agent' = "down" /\ reading' = None /\ conn' = "none" /\ Fault
        /\ pending' = <<>> /\ queue' = <<>> /\ lastOutput' = NothingSeen
        /\ UNCHANGED <<usage, text, rewritten, cp, hub>>
        /\ (disk' = disk \/ (disk' = cp /\ reading = None)) /\ lost' \subseteq Rows
    BY <1>4, DownEffect
  <2>2. SourceOK' /\ TextInv'
    BY <2>1 DEF SourceOK, TextInv
  <2>3. WatcherOK'
    BY <1>1, <2>1 DEF WatcherOK
  <2>4. RestOK'
    BY <2>1, MoreFaults DEF RestOK
  <2>5. RowsOK'
    <3>1. <<>> \in Seq(Rows) /\ <<>> \in Seq(Seq(Rows)) /\ Len(<<>>) = 0 /\ BacklogCap \in Nat /\ QueueCap \in Nat
      BY LimitAssumption
    <3>2. QED BY <2>1, <3>1 DEF RowsOK
  <2>6. PlaceInv'
    BY <1>1, <2>1 DEF PlaceInv, Local
  <2>7. CountInv'
    <3> DEFINE base == faults * MaxLines
               later == faults' * MaxLines
    <3>1. base \in Nat /\ later \in Nat /\ later = base + MaxLines
      BY <2>1, MoreFaults
    <3>2. /\ \A g \in Files : cp[g].events <= base + Local(g) /\ disk[g].events <= base + MaxLines
          /\ reading = None => \A g \in Files : Local(g) = cp[g].offset
      BY <2>1 DEF CountInv, Local
    <3> HIDE DEF base, later
    <3>3. \A g \in Files : disk'[g].events <= later /\ disk'[g].events \in Nat /\ disk'[g].offset \in Nat
      BY <1>1, <2>1, <3>1, <3>2
    <3>4. \A g \in Files : disk'[g].events <= later + MaxLines /\ disk'[g].events <= later + disk'[g].offset
      BY <1>1, <3>1, <3>3
    <3>5. QED BY <2>1, <3>4 DEF CountInv, later
  <2>8. QED BY <2>2, <2>3, <2>4, <2>5, <2>6, <2>7
<1>5. CASE Connect \/ Disconnect \/ NoticeDisconnect \/ Ingest \/ IngestFails
  <2>1. /\ UNCHANGED <<usage, text, rewritten, agent, cp, disk, reading, pending, lastOutput>>
        /\ faults' = faults \/ Fault
        /\ conn' \in {"none", "up", "lost"}
        /\ queue' \in Seq(Seq(Rows)) /\ Len(queue') <= QueueCap /\ lost' \subseteq Rows
        /\ hub' = hub \/ \E batch \in Seq(Rows) : hub' = Ingested(batch)
    BY <1>5, LinkEffect
  <2>2. hub' \in [Keys -> 0..MaxOutput]
    BY <2>1, IngestedTable DEF RestOK
  <2>3. SourceOK' /\ WatcherOK' /\ RowsOK' /\ TextInv' /\ PlaceInv'
    BY <2>1 DEF SourceOK, WatcherOK, RowsOK, TextInv, PlaceInv, Local
  <2>4. RestOK'
    BY <2>1, <2>2, MoreFaults DEF RestOK
  <2>5. CountInv'
    <3> DEFINE base == faults * MaxLines
               later == faults' * MaxLines
    <3>1. base \in Nat /\ later \in Nat /\ base <= later
      BY <2>1, MoreFaults
    <3>2. /\ \A g \in Files : Local(g)' = Local(g) /\ Local(g) \in Nat
      BY <1>1, <2>1 DEF Local, WatcherOK, Readers
    <3>3. /\ agent = "up" => \A g \in Files : cp[g].events <= base + Local(g)
          /\ \A g \in Files : disk[g].events <= base + MaxLines
          /\ agent = "down" => \A g \in Files : disk[g].events <= base + disk[g].offset
      BY DEF CountInv
    <3> HIDE DEF base, later
    <3>4. agent = "up" => \A g \in Files : cp[g].events <= later + Local(g)
      BY <1>1, <3>1, <3>2, <3>3
    <3>5. \A g \in Files : disk[g].events <= later + MaxLines
      BY <1>1, <3>1, <3>3
    <3>6. agent = "down" => \A g \in Files : disk[g].events <= later + disk[g].offset
      BY <1>1, <3>1, <3>3
    <3>7. QED BY <2>1, <3>2, <3>4, <3>5, <3>6 DEF CountInv, later
  <2>6. QED BY <2>3, <2>4, <2>5
<1>6. QED BY <1>2, <1>3, <1>4, <1>5

(* Types, places and counters are right throughout.                        *)
LEMMA TypeInvariant == Spec => []TypeInv
<1>1. Init => TypeInv
  <2> SUFFICES ASSUME Init PROVE TypeInv
    OBVIOUS
  <2>1. /\ MaxOutput \in Nat /\ MaxLines \in Nat /\ MaxFaults \in Nat /\ BacklogCap \in Nat /\ QueueCap \in Nat
        /\ Len(<<>>) = 0 /\ <<>> \in Seq(Lines) /\ <<>> \in Seq(Rows) /\ <<>> \in Seq(Seq(Rows))
    BY SizeAssumption, LimitAssumption
  <2>2. faults = 0 /\ faults \in 0..MaxFaults
    BY <2>1 DEF Init
  <2>3. MaxEvents \in Nat /\ faults * MaxLines \in Nat
    BY <2>2, EventBound
  <2>4. Fresh \in Checkpoints /\ Fresh.offset = 0 /\ Fresh.events = 0
    BY <2>1, <2>3 DEF Fresh, Checkpoints
  <2>5. SourceOK /\ WatcherOK /\ RowsOK /\ RestOK
    BY <2>1, <2>2, <2>4 DEF Init, SourceOK, WatcherOK, RowsOK, RestOK, NothingSeen
  <2>6. TextInv /\ PlaceInv
    BY <2>1, <2>4 DEF Init, TextInv, PlaceInv, Local, Files
  <2>7. CountInv
    BY <2>1, <2>3, <2>4 DEF Init, CountInv, Local
  <2>8. QED BY <2>5, <2>6, <2>7 DEF TypeInv
<1>2. TypeInv /\ [Next]_vars => TypeInv'
  <2>1. ASSUME TypeInv, UNCHANGED vars PROVE TypeInv'
    BY <2>1 DEF vars, source, watcher, link, TypeInv, SourceOK, WatcherOK, RowsOK, RestOK, TextInv, PlaceInv,
                CountInv, Local
  <2>2. QED
    BY <2>1, SourceStepTypes, FileStepTypes, ReadStepTypes, OtherStepTypes DEF Next
<1>3. QED BY <1>1, <1>2, PTL DEF Spec

(* Bounded variables stay in bounds; rows carry only keys and outputs a    *)
(* transcript can yield.                                                   *)
THEOREM TypeCorrect == Spec => []TypeOK
<1>1. TypeInv => TypeOK
  BY DEF TypeInv, SourceOK, WatcherOK, RowsOK, RestOK, TypeOK
<1>2. QED BY <1>1, TypeInvariant, PTL

-----------------------------------------------------------------------------
(* No line of a Claude transcript disappears unaccounted for.              *)

(* What is on its way stays so while no stored output shrinks and every    *)
(* row is kept, or stored.                                                 *)
LEMMA StillOnItsWay ==
  ASSUME TypeInv, TypeInv', NEW k \in Keys, NEW n \in Nat, NEW R \in SUBSET Rows, NEW Q \in SUBSET Rows,
         \A x \in Keys : hub'[x] >= hub[x],
         \A r \in R : r \in Q \/ hub'[r.key] >= r.out,
         OnItsWay(k, n, R)
  PROVE  hub'[k] >= n \/ \E r \in Q : r.key = k /\ r.out >= n
<1>1. hub[k] \in Nat /\ hub'[k] \in Nat
  BY SizeAssumption DEF TypeInv, RestOK
<1>2. CASE hub[k] >= n
  BY <1>1, <1>2
<1>3. ASSUME NEW r \in R, r.key = k, r.out >= n
      PROVE  hub'[k] >= n \/ \E q \in Q : q.key = k /\ q.out >= n
  <2>1. r.out \in Nat
    BY SizeAssumption DEF Rows
  <2>2. r \in Q \/ hub'[k] >= r.out
    BY <1>3
  <2>3. CASE r \in Q
    BY <1>3, <2>3
  <2>4. CASE hub'[k] >= r.out
    BY <1>1, <1>3, <2>1, <2>4
  <2>5. QED BY <2>2, <2>3, <2>4
<1>4. QED BY <1>2, <1>3 DEF OnItsWay

(* The rows the invariants are about are rows, and the lines lines.        *)
LEMMA RowsAndLines ==
  ASSUME TypeInv
  PROVE  /\ Gone \subseteq Rows /\ Held \subseteq Rows /\ Gone \subseteq Held
         /\ \A f \in ClaudeFiles : \A i \in 1..Len(text[f]) :
              text[f][i] \in Lines /\ text[f][i].of \in Messages /\ text[f][i].of \in Keys /\ text[f][i].out \in Nat
         /\ \A m \in Messages : m \in Keys /\ lastOutput[m] \in Nat
         /\ \A f \in Files : /\ cp[f].offset \in Nat /\ disk[f].offset \in Nat /\ Local(f) \in Nat
                             /\ Len(text[f]) \in Nat
<1> USE DEF TypeInv
<1>1. Gone \subseteq Rows
  <2>1. InQueue = Contents(queue) /\ queue \in Seq(Seq(Rows))
    BY DEF InQueue, Contents, RowsOK
  <2>2. QED BY <2>1, QueueContents DEF Gone, RowsOK
<1>2. Held \subseteq Rows
  BY <1>1, ListRows DEF Held, RowsOK
<1>3. ASSUME NEW f \in ClaudeFiles, NEW i \in 1..Len(text[f])
      PROVE  text[f][i] \in Lines /\ text[f][i].of \in Messages /\ text[f][i].of \in Keys /\ text[f][i].out \in Nat
  <2>1. text[f] \in Seq(Lines)
    BY DEF SourceOK, Files
  <2>2. text[f][i] \in Lines
    BY <2>1, ElementOfSeq
  <2>3. text[f][i].of \in Messages
    BY DEF TextInv
  <2>4. text[f][i].out \in Nat
    BY <2>2, SizeAssumption DEF Lines
  <2>5. QED BY <2>2, <2>3, <2>4 DEF Keys
<1>4. \A m \in Messages : m \in Keys /\ lastOutput[m] \in Nat
  BY SizeAssumption DEF WatcherOK, Keys
<1>5. \A f \in Files : cp[f].offset \in Nat /\ disk[f].offset \in Nat /\ Local(f) \in Nat
  BY DEF WatcherOK, Checkpoints, Readers, Local
<1>6. \A f \in Files : Len(text[f]) \in Nat
  BY DEF SourceOK
<1>7. QED BY <1>1, <1>2, <1>3, <1>4, <1>5, <1>6 DEF Held

(* A new line is not yet read; a file that starts over is not accounted.   *)
LEMMA SourceStepClaude ==
  ASSUME TypeInv, TypeInv', ClaudeInv, NEW f \in Files,
         Rewrite(f) \/ \E k \in Messages \cup CodexFiles : WriteLine(f, k)
  PROVE  ClaudeInv'
<1> USE DEF ClaudeInv
<1>1. UNCHANGED <<agent, cp, disk, reading, pending, lastOutput, conn, queue, hub, lost>>
      /\ rewritten \subseteq rewritten'
  BY DEF Rewrite, WriteLine, watcher, link
<1>2. Gone' = Gone /\ Held' = Held /\ \A g \in Files : Local(g)' = Local(g)
  BY <1>1 DEF Gone, Held, InQueue, Local
<1>3. SeenInv'
  BY <1>1, <1>2 DEF SeenInv, OnItsWay
<1>4. ASSUME NEW g \in ClaudeFiles \ rewritten', NEW i \in 1..Len(text'[g])
      PROVE  (i \in 1..Len(text[g]) /\ text'[g][i] = text[g][i]) \/ i > Len(text[g])
  <2>1. g \in Files /\ Len(text[g]) \in Nat /\ text[g] \in Seq(Lines)
    BY DEF Files, TypeInv, SourceOK
  <2>2. CASE Rewrite(f)
    <3>1. g # f /\ text' = [text EXCEPT ![f] = <<>>]
      BY <2>2 DEF Rewrite
    <3>2. text'[g] = text[g]
      BY <2>1, <3>1 DEF TypeInv, SourceOK
    <3>3. QED BY <3>2
  <2>3. ASSUME NEW k \in Messages \cup CodexFiles, WriteLine(f, k)
        PROVE  (i \in 1..Len(text[g]) /\ text'[g][i] = text[g][i]) \/ i > Len(text[g])
    <3> DEFINE line == [of |-> k, out |-> usage[k] + 1]
    <3>1. text' = [text EXCEPT ![f] = Append(@, line)]
      BY <2>3 DEF WriteLine
    <3> HIDE DEF line
    <3>2. text'[g] = IF g = f THEN Append(text[g], line) ELSE text[g]
      BY <2>1, <3>1 DEF TypeInv, SourceOK
    <3>3. \A j \in 1..Len(text[g]) : Append(text[g], line)[j] = text[g][j]
      BY <2>1
    <3>4. i \in Nat
      OBVIOUS
    <3>5. CASE i \in 1..Len(text[g])
      BY <3>2, <3>3, <3>5
    <3>6. CASE i \notin 1..Len(text[g])
      BY <2>1, <3>4, <3>6
    <3>7. QED BY <3>5, <3>6
  <2>4. QED BY <2>2, <2>3
<1>5. LinesInv'
  <2> SUFFICES ASSUME NEW g \in ClaudeFiles \ rewritten', NEW i \in 1..Len(text'[g])
               PROVE  /\ i <= disk'[g].offset => OnItsWay(text[g][i].of, text[g][i].out, Gone)'
                      /\ agent' = "up" /\ i <= Local(g)' => OnItsWay(text[g][i].of, text[g][i].out, Held)'
    BY DEF LinesInv
  <2>1. g \in Files /\ g \in ClaudeFiles \ rewritten
    BY <1>1 DEF Files
  <2>2. CASE i \in 1..Len(text[g]) /\ text'[g][i] = text[g][i]
    BY <1>1, <1>2, <2>1, <2>2 DEF LinesInv, OnItsWay
  <2>3. CASE i > Len(text[g])
    <3>1. Local(g) <= Len(text[g]) /\ disk[g].offset <= Len(text[g])
      BY <2>1 DEF TypeInv, PlaceInv
    <3>2. Local(g) \in Nat /\ disk[g].offset \in Nat /\ Len(text[g]) \in Nat /\ i \in Nat
      BY <2>1, RowsAndLines
    <3>3. ~ (i <= disk[g].offset) /\ ~ (i <= Local(g))
      BY <2>3, <3>1, <3>2
    <3>4. QED BY <1>1, <1>2, <2>1, <3>3
  <2>4. QED BY <1>4, <2>2, <2>3
<1>6. QED BY <1>3, <1>5

(* Opening a file, or reaching its end, changes nothing that is accounted. *)
LEMMA FileStepClaude ==
  ASSUME TypeInv, ClaudeInv, (\E f \in Files : OpenFile(f)) \/ EndOfFile
  PROVE  ClaudeInv'
<1> USE DEF ClaudeInv
<1>1. UNCHANGED <<text, rewritten, agent, disk, pending, lastOutput, queue, hub, lost>>
  BY DEF OpenFile, EndOfFile, source, link
<1>2. Gone' = Gone /\ Held' = Held
  BY <1>1 DEF Gone, Held, InQueue
<1>3. \A g \in Files \ rewritten : Local(g)' = Local(g)
  <2>1. ASSUME NEW f \in Files, OpenFile(f), NEW g \in Files \ rewritten PROVE Local(g)' = Local(g)
    <3>1. /\ cp' = [cp EXCEPT ![f] = Resumed(f)] /\ reading = None
          /\ reading' = IF Len(text[f]) = Resumed(f).offset THEN None ELSE [file |-> f, at |-> Resumed(f).offset]
      BY <2>1 DEF OpenFile
    <3>2. cp[g].offset <= Len(text[g]) /\ cp[g].offset \in Nat /\ Len(text[g]) \in Nat
      BY RowsAndLines DEF TypeInv, PlaceInv
    <3>3. g = f => Resumed(f) = cp[f]
      BY <3>2 DEF Resumed
    <3>4. cp'[g] = cp[g]
      BY <3>1, <3>3 DEF TypeInv, WatcherOK
    <3>5. QED BY <3>1, <3>3, <3>4 DEF Local
  <2>2. ASSUME EndOfFile, NEW g \in Files PROVE Local(g)' = Local(g)
    <3>1. cp' = [cp EXCEPT ![reading.file].offset = reading.at] /\ reading # None /\ reading' = None
      BY <2>2 DEF EndOfFile
    <3>2. reading.file \in Files
      BY <3>1 DEF TypeInv, WatcherOK, Readers
    <3>3. QED BY <3>1, <3>2 DEF Local, TypeInv, WatcherOK, Checkpoints
  <2>3. QED BY <2>1, <2>2
<1>4. QED BY <1>1, <1>2, <1>3 DEF SeenInv, LinesInv, OnItsWay, Files

(* A line that is read yields a row, or repeats an output already seen.    *)
LEMMA ReadStepClaude ==
  ASSUME TypeInv, TypeInv', ClaudeInv, ReadLine
  PROVE  ClaudeInv'
<1> USE DEF ClaudeInv
<1>0. PICK f : f = reading.file
  OBVIOUS
<1> DEFINE line == text[f][reading.at + 1]
           outputs == IF line.out > lastOutput[line.of] THEN [lastOutput EXCEPT ![line.of] = line.out]
                      ELSE lastOutput
<1>1. /\ f \in Files /\ reading # None /\ reading' = [file |-> f, at |-> reading.at + 1]
      /\ reading.at \in Nat /\ reading.at + 1 \in 1..Len(text[f])
      /\ agent = "up" /\ reading' # None
      /\ UNCHANGED <<source, agent, conn, hub, faults>>
      /\ \/ /\ f \in ClaudeFiles /\ line.of \in Messages /\ cp' = cp
            /\ Handed(Held \cup RowsOf(ClaudeRows(line)), cp, outputs)
         \/ /\ f \in CodexFiles
            /\ cp' = [cp EXCEPT ![f] = [offset |-> cp[f].offset, last |-> line.out,
                                        events |-> cp[f].events + 1]]
            /\ Handed(Held \cup RowsOf(CodexRows(f, line)), cp', lastOutput)
  BY <1>0, ReadEffect
<1>2. UNCHANGED <<text, rewritten, agent, hub>>
  BY <1>1 DEF source
<1>3. Held \subseteq Held' /\ Gone \subseteq Gone' /\ (disk' = disk \/ (disk' = cp' /\ Held' = Gone'))
  BY <1>1 DEF Handed
<1>4. \A g \in Files : cp'[g].offset = cp[g].offset
  <2>1. cp \in [Files -> Checkpoints]
    BY DEF TypeInv, WatcherOK
  <2>2. ASSUME NEW l, NEW n, cp' = [cp EXCEPT ![f] = [offset |-> cp[f].offset, last |-> l, events |-> n]]
        PROVE  \A g \in Files : cp'[g].offset = cp[g].offset
    BY <2>1, <2>2
  <2> HIDE DEF line, outputs
  <2>3. QED BY <1>1, <2>2
<1>5. ASSUME f \in ClaudeFiles
      PROVE  /\ cp' = cp /\ line.of \in Messages /\ line.out \in Nat /\ line.out > 0
             /\ Held' = Held \cup RowsOf(ClaudeRows(line)) /\ lastOutput' \in {outputs, NothingSeen}
  <2>1. f \notin CodexFiles
    BY <1>5, KindAssumption
  <2>2. line \in Lines
    BY <1>1, <1>5, RowsAndLines
  <2>3. line.out \in Nat /\ line.out > 0
    BY <2>2, SizeAssumption DEF Lines
  <2> HIDE DEF line, outputs
  <2>4. QED BY <1>1, <2>1, <2>3 DEF Handed
<1>6. ASSUME f \in ClaudeFiles, line.out > lastOutput[line.of]
      PROVE  \E r \in Held' : r.key = line.of /\ r.out = line.out
  <2> DEFINE r == [key |-> line.of, out |-> line.out]
  <2>1. ClaudeRows(line) = <<r>>
    BY <1>6 DEF ClaudeRows
  <2>2. r \in RowsOf(<<r>>)
    <3> HIDE DEF r
    <3>1. <<r>>[1] = r /\ 1 \in DOMAIN <<r>>
      OBVIOUS
    <3>2. QED BY <3>1 DEF RowsOf, Range
  <2>3. r \in Held'
    BY <1>5, <1>6, <2>1, <2>2
  <2>4. QED BY <2>3
<1>7. SeenInv'
  <2>1. CASE lastOutput' = NothingSeen
    BY <2>1 DEF SeenInv, NothingSeen
  <2>2. CASE lastOutput' = lastOutput
    BY <1>2, <1>3, <2>2 DEF SeenInv, OnItsWay
  <2>3. CASE f \in ClaudeFiles /\ line.out > lastOutput[line.of] /\ lastOutput' = [lastOutput EXCEPT ![line.of] = line.out]
    <3>1. line.of \in Messages /\ line.out \in Nat
      BY <1>5, <2>3
    <3>2. PICK r \in Held' : r.key = line.of /\ r.out = line.out
      BY <1>6, <2>3
    <3> HIDE DEF line
    <3>3. \A m \in Messages : lastOutput'[m] = IF m = line.of THEN line.out ELSE lastOutput[m]
      BY <2>3 DEF TypeInv, WatcherOK
    <3> SUFFICES ASSUME NEW m \in Messages, lastOutput'[m] > 0
                 PROVE  hub'[m] >= lastOutput'[m] \/ \E q \in Held' : q.key = m /\ q.out >= lastOutput'[m]
      BY DEF SeenInv, OnItsWay
    <3>4. CASE m = line.of
      <4>1. r.key = m /\ r.out = lastOutput'[m] /\ r.out \in Nat
        BY <3>1, <3>2, <3>3, <3>4
      <4>2. r.out >= lastOutput'[m]
        BY <4>1
      <4>3. QED BY <3>2, <4>1, <4>2
    <3>5. CASE m # line.of
      BY <1>2, <1>3, <3>3, <3>5 DEF SeenInv, OnItsWay
    <3>6. QED BY <3>4, <3>5
  <2>4. f \in CodexFiles => lastOutput' \in {lastOutput, NothingSeen}
    <3>1. f \in CodexFiles => f \notin ClaudeFiles
      BY KindAssumption
    <3> HIDE DEF line, outputs
    <3>2. QED BY <1>1, <3>1 DEF Handed
  <2>5. f \in ClaudeFiles \/ f \in CodexFiles
    BY <1>1 DEF Files
  <2>6. QED BY <1>5, <2>1, <2>2, <2>3, <2>4, <2>5
<1>8. ASSUME f \in ClaudeFiles
      PROVE  hub[line.of] >= line.out \/ \E q \in Held' : q.key = line.of /\ q.out >= line.out
  <2>1. line.of \in Messages /\ line.out \in Nat /\ line.out > 0 /\ lastOutput[line.of] \in Nat
    BY <1>5, <1>8, RowsAndLines
  <2>2. CASE line.out > lastOutput[line.of]
    <3>1. PICK r \in Held' : r.key = line.of /\ r.out = line.out
      BY <1>6, <1>8, <2>2
    <3> HIDE DEF line
    <3>2. r.out >= line.out
      BY <2>1, <3>1
    <3>3. QED BY <3>1, <3>2
  <2>3. CASE ~ (line.out > lastOutput[line.of])
    <3> HIDE DEF line
    <3>1. line.out <= lastOutput[line.of] /\ lastOutput[line.of] > 0
      BY <2>1, <2>3
    <3>2. OnItsWay(line.of, lastOutput[line.of], Held)
      BY <2>1, <3>1 DEF SeenInv
    <3>3. hub[line.of] \in Nat
      BY <2>1, SizeAssumption DEF TypeInv, RestOK, Keys
    <3>4. \A q \in Held : q.out \in Nat
      BY RowsAndLines, SizeAssumption DEF Rows
    <3>5. hub[line.of] >= line.out \/ \E q \in Held : q.key = line.of /\ q.out >= line.out
      BY <2>1, <3>1, <3>2, <3>3, <3>4 DEF OnItsWay
    <3>6. QED BY <1>3, <3>5
  <2>4. QED BY <2>2, <2>3
<1>9. LinesInv'
  <2> SUFFICES ASSUME NEW g \in ClaudeFiles \ rewritten, NEW i \in 1..Len(text[g])
               PROVE  /\ i <= disk'[g].offset =>
                           hub[text[g][i].of] >= text[g][i].out
                           \/ \E q \in Gone' : q.key = text[g][i].of /\ q.out >= text[g][i].out
                      /\ i <= Local(g)' =>
                           hub[text[g][i].of] >= text[g][i].out
                           \/ \E q \in Held' : q.key = text[g][i].of /\ q.out >= text[g][i].out
    BY <1>2 DEF LinesInv, OnItsWay
  <2>1. g \in Files /\ i \in Nat /\ cp[g].offset \in Nat /\ Local(g) \in Nat /\ cp[g].offset <= Local(g)
    BY RowsAndLines DEF Files, TypeInv, PlaceInv
  <2>2. /\ i <= disk[g].offset => OnItsWay(text[g][i].of, text[g][i].out, Gone)
        /\ i <= Local(g) => OnItsWay(text[g][i].of, text[g][i].out, Held)
    BY <1>1 DEF LinesInv
  <2>3. i <= Local(g) => \/ hub[text[g][i].of] >= text[g][i].out
                         \/ \E q \in Held' : q.key = text[g][i].of /\ q.out >= text[g][i].out
    BY <1>3, <2>2 DEF OnItsWay
  <2>4. i <= Local(g)' => \/ hub[text[g][i].of] >= text[g][i].out
                          \/ \E q \in Held' : q.key = text[g][i].of /\ q.out >= text[g][i].out
    <3>1. CASE g # f
      <4>1. Local(g)' = Local(g)
        BY <1>0, <1>1, <1>4, <2>1, <3>1 DEF Local
      <4>2. QED BY <2>3, <4>1
    <3>2. CASE g = f /\ i = reading.at + 1
      BY <1>8, <3>2
    <3>3. CASE g = f /\ i # reading.at + 1
      <4>1. Local(g) = reading.at /\ Local(g)' = reading.at + 1
        BY <1>0, <1>1, <3>3 DEF Local
      <4>2. i <= Local(g)' => i <= Local(g)
        BY <1>1, <2>1, <3>3, <4>1
      <4>3. QED BY <2>3, <4>2
    <3>4. QED BY <3>1, <3>2, <3>3
  <2>5. i <= disk'[g].offset => \/ hub[text[g][i].of] >= text[g][i].out
                                \/ \E q \in Gone' : q.key = text[g][i].of /\ q.out >= text[g][i].out
    <3>1. CASE disk' = disk
      BY <1>3, <2>2, <3>1 DEF OnItsWay
    <3>2. CASE disk' = cp' /\ Held' = Gone'
      <4>1. disk'[g].offset = cp[g].offset
        BY <1>4, <2>1, <3>2
      <4>2. i <= disk'[g].offset => i <= Local(g)
        BY <2>1, <4>1
      <4>3. QED BY <2>3, <3>2, <4>2
    <3>3. QED BY <1>3, <3>1, <3>2
  <2>6. QED BY <2>4, <2>5
<1>10. QED BY <1>7, <1>9

(* The flush, the end and the start of the watcher, the connection and the *)
(* hub lose track of no row.                                               *)
LEMMA OtherStepClaude ==
  ASSUME TypeInv, TypeInv', ClaudeInv,
         \/ FlushTick \/ Start \/ Crash \/ Shutdown
         \/ Connect \/ Disconnect \/ NoticeDisconnect \/ Ingest \/ IngestFails
  PROVE  ClaudeInv'
<1> USE DEF ClaudeInv
<1>1. CASE FlushTick
  <2>1. /\ agent = "up" /\ reading = None /\ Handed(Held, cp, lastOutput)
        /\ UNCHANGED <<usage, text, rewritten, agent, cp, reading, conn, hub, faults>>
    BY <1>1, TickEffect
  <2>2. /\ Held' = Held /\ Gone \subseteq Gone' /\ (disk' = disk \/ (disk' = cp /\ Held' = Gone'))
        /\ lastOutput' \in {lastOutput, NothingSeen}
    BY <2>1 DEF Handed
  <2>3. SeenInv'
    BY <2>1, <2>2 DEF SeenInv, OnItsWay, NothingSeen
  <2>4. \A g \in Files : Local(g)' = Local(g) /\ Local(g) = cp[g].offset
    BY <2>1 DEF Local
  <2>5. LinesInv'
    BY <2>1, <2>2, <2>4 DEF LinesInv, OnItsWay, Files
  <2>6. QED BY <2>3, <2>5
<1>2. CASE Start
  <2>1. /\ agent = "down" /\ agent' = "up" /\ cp' = disk
        /\ UNCHANGED <<text, rewritten, disk, reading, pending, lastOutput, queue, hub, lost>>
    BY <1>2 DEF Start, source, link
  <2>2. reading = None
    BY <2>1 DEF TypeInv, PlaceInv
  <2>3. Gone' = Gone /\ Held' = Held /\ Gone \subseteq Held
    BY <2>1 DEF Gone, Held, InQueue
  <2>4. \A g \in Files : Local(g)' = disk[g].offset
    BY <2>1, <2>2 DEF Local
  <2>5. SeenInv'
    BY <2>1, <2>3 DEF SeenInv, OnItsWay
  <2>6. LinesInv'
    BY <2>1, <2>3, <2>4 DEF LinesInv, OnItsWay, Files
  <2>7. QED BY <2>5, <2>6
<1>3. CASE Crash \/ Shutdown
  <2>1. /\ agent = "up" /\ agent' = "down" /\ lastOutput' = NothingSeen
        /\ UNCHANGED <<text, rewritten, cp, hub>>
        /\ \/ disk' = disk /\ Gone' = Gone
           \/ disk' = cp /\ reading = None /\ Gone' = Held
    BY <1>3, DownEffect
  <2>2. SeenInv'
    BY <2>1 DEF SeenInv, NothingSeen
  <2>3. reading = None => \A g \in Files : Local(g) = cp[g].offset
    BY DEF Local
  <2>4. LinesInv'
    BY <2>1, <2>3 DEF LinesInv, OnItsWay, Files
  <2>5. QED BY <2>2, <2>4
<1>4. CASE Connect \/ Disconnect \/ NoticeDisconnect \/ Ingest \/ IngestFails
  <2>1. /\ UNCHANGED <<text, rewritten, agent, cp, disk, reading, pending, lastOutput>>
        /\ \/ hub' = hub /\ Gone' = Gone
           \/ \E batch \in Seq(Rows) : hub' = Ingested(batch) /\ Gone = RowsOf(batch) \cup Gone'
    BY <1>4, LinkEffect
  <2>2. hub \in [Keys -> 0..MaxOutput]
    BY DEF TypeInv, RestOK
  <2>3. /\ \A x \in Keys : hub'[x] >= hub[x]
        /\ \A r \in Gone : r \in Gone' \/ hub'[r.key] >= r.out
    <3>1. CASE hub' = hub /\ Gone' = Gone
      <4>1. \A x \in Keys : hub[x] \in Nat
        BY <2>2, SizeAssumption
      <4>2. QED BY <3>1, <4>1
    <3>2. ASSUME NEW batch \in Seq(Rows), hub' = Ingested(batch), Gone = RowsOf(batch) \cup Gone'
          PROVE  /\ \A x \in Keys : hub'[x] >= hub[x]
                 /\ \A r \in Gone : r \in Gone' \/ hub'[r.key] >= r.out
      BY <2>2, <3>2, IngestedTable
    <3>3. QED BY <2>1, <3>1, <3>2
  <2>4. Held = Gone \cup RowsOf(pending) /\ Held' = Gone' \cup RowsOf(pending)
    BY <2>1 DEF Held
  <2>5. \A r \in Held : r \in Held' \/ hub'[r.key] >= r.out
    BY <2>3, <2>4
  <2>6. Gone \subseteq Rows /\ Held \subseteq Rows /\ Gone' \subseteq Rows /\ Held' \subseteq Rows
    <3>1. Gone \subseteq Rows /\ Held \subseteq Rows
      BY RowsAndLines
    <3>2. Gone' \subseteq Rows
      BY <1>4, <3>1, LinkEffect
    <3>3. QED BY <2>4, <3>1, <3>2
  <2>7. ASSUME NEW k \in Keys, NEW n \in Nat
        PROVE  /\ OnItsWay(k, n, Gone) => hub'[k] >= n \/ \E r \in Gone' : r.key = k /\ r.out >= n
               /\ OnItsWay(k, n, Held) => hub'[k] >= n \/ \E r \in Held' : r.key = k /\ r.out >= n
    BY <2>3, <2>5, <2>6, StillOnItsWay
  <2>8. SeenInv'
    <3> SUFFICES ASSUME NEW m \in Messages, lastOutput[m] > 0
                 PROVE  hub'[m] >= lastOutput[m] \/ \E r \in Held' : r.key = m /\ r.out >= lastOutput[m]
      BY <2>1 DEF SeenInv, OnItsWay
    <3>1. m \in Keys /\ lastOutput[m] \in Nat /\ OnItsWay(m, lastOutput[m], Held)
      BY RowsAndLines DEF SeenInv
    <3>2. QED BY <2>7, <3>1
  <2>9. LinesInv'
    <3> SUFFICES ASSUME NEW g \in ClaudeFiles \ rewritten, NEW i \in 1..Len(text[g])
                 PROVE  /\ i <= disk[g].offset =>
                             hub'[text[g][i].of] >= text[g][i].out
                             \/ \E q \in Gone' : q.key = text[g][i].of /\ q.out >= text[g][i].out
                        /\ agent = "up" /\ i <= Local(g) =>
                             hub'[text[g][i].of] >= text[g][i].out
                             \/ \E q \in Held' : q.key = text[g][i].of /\ q.out >= text[g][i].out
      BY <2>1 DEF LinesInv, OnItsWay, Local
    <3>1. text[g][i].of \in Keys /\ text[g][i].out \in Nat
      BY RowsAndLines
    <3>2. /\ i <= disk[g].offset => OnItsWay(text[g][i].of, text[g][i].out, Gone)
          /\ agent = "up" /\ i <= Local(g) => OnItsWay(text[g][i].of, text[g][i].out, Held)
      BY DEF LinesInv
    <3>3. QED BY <2>7, <3>1, <3>2
  <2>10. QED BY <2>8, <2>9
<1>5. QED BY <1>1, <1>2, <1>3, <1>4

(* A crash re-reads from the saved offset, and no unemitted row is lost:   *)
(* what is given up, and so in lost, was given up at a full queue, a full  *)
(* backlog, a lost connection, a failed ingest or a shutdown.              *)
THEOREM AccountedTheorem == Spec => []NothingUnaccounted
<1>1. TypeInv /\ Init => ClaudeInv
  BY DEF Init, ClaudeInv, SeenInv, LinesInv, NothingSeen, Files
<1>2. TypeInv /\ TypeInv' /\ ClaudeInv /\ [Next]_vars => ClaudeInv'
  <2>1. ASSUME ClaudeInv, UNCHANGED vars PROVE ClaudeInv'
    BY <2>1 DEF vars, source, watcher, link, ClaudeInv, SeenInv, LinesInv, OnItsWay, Held, Gone, InQueue, Local
  <2>2. QED
    BY <2>1, SourceStepClaude, FileStepClaude, ReadStepClaude, OtherStepClaude DEF Next
<1>3. TypeInv /\ ClaudeInv => NothingUnaccounted
  <2> SUFFICES ASSUME TypeInv, ClaudeInv, NEW f \in ClaudeFiles \ rewritten, NEW i \in 1..MaxLines,
                      i <= Len(text[f])
               PROVE  /\ i <= disk[f].offset => OnItsWay(text[f][i].of, text[f][i].out, Gone)
                      /\ agent = "up" /\ i <= Local(f) => OnItsWay(text[f][i].of, text[f][i].out, Held)
    BY DEF NothingUnaccounted, Local, Gone, Held
  <2>1. Len(text[f]) \in Nat
    BY RowsAndLines DEF Files
  <2>2. i \in 1..Len(text[f])
    BY <2>1
  <2>3. QED BY <2>2 DEF ClaudeInv, LinesInv
<1>4. QED BY <1>1, <1>2, <1>3, TypeInvariant, PTL DEF Spec

-----------------------------------------------------------------------------
(* A Codex session is counted once.                                        *)

(* What the lemmas below need of the types.                                *)
LEMMA CodexTypes ==
  ASSUME TypeInv, NEW g \in CodexFiles \ rewritten
  PROVE  /\ g \in Files /\ g \notin ClaudeFiles /\ Len(text[g]) \in Nat /\ text[g] \in Seq(Lines)
         /\ cp[g].offset \in Nat /\ cp[g].events \in Nat /\ disk[g].offset \in Nat /\ disk[g].events \in Nat
         /\ Local(g) \in Nat /\ Local(g) <= Len(text[g]) /\ disk[g].offset <= Len(text[g])
         /\ cp[g].offset <= Local(g)
         /\ \A i \in 1..MaxEvents : <<g, i>> \in Keys /\ <<g, i>> \notin Messages
<1>1. g \in Files /\ g \notin ClaudeFiles
  BY KindAssumption DEF Files
<1>2. /\ cp[g].offset \in Nat /\ cp[g].events \in Nat /\ disk[g].offset \in Nat /\ disk[g].events \in Nat
      /\ Local(g) \in Nat /\ Len(text[g]) \in Nat /\ text[g] \in Seq(Lines)
  BY <1>1 DEF TypeInv, WatcherOK, SourceOK, Checkpoints, Readers, Local
<1>3. Local(g) <= Len(text[g]) /\ disk[g].offset <= Len(text[g]) /\ cp[g].offset <= Local(g)
  BY <1>1 DEF TypeInv, PlaceInv
<1>4. ASSUME NEW i \in 1..MaxEvents PROVE <<g, i>> \in Keys /\ <<g, i>> \notin Messages
  <2>1. MaxEvents \in Nat
    BY EventBound DEF TypeInv, RestOK
  <2>2. <<g, i>> \in CodexFiles \X Nat
    BY <2>1
  <2>3. QED BY <2>2, KindAssumption DEF Keys
<1>5. QED BY <1>1, <1>2, <1>3, <1>4

(* Fewer rows, and a table that stored some of them, have the same gains.  *)
LEMMA StillGains ==
  ASSUME TypeInv, NEW g \in CodexFiles \ rewritten, AllGains(g), UNCHANGED text, Held' \subseteq Held,
         \A i \in 1..MaxEvents : \/ hub'[<<g, i>>] = hub[<<g, i>>]
                                 \/ \E r \in Held : r.key = <<g, i>> /\ hub'[<<g, i>>] = r.out
  PROVE  AllGains(g)'
<1>1. \A i, out : IsGain(g, i, out)' <=> IsGain(g, i, out)
  BY DEF IsGain, Total
<1>2. \A r \in Held', i \in 1..MaxEvents : r.key = <<g, i>> => IsGain(g, i, r.out)
  BY DEF AllGains
<1>3. \A i \in 1..MaxEvents : hub'[<<g, i>>] # 0 => IsGain(g, i, hub'[<<g, i>>])
  BY DEF AllGains
<1>4. QED BY <1>2, <1>3 DEF AllGains, IsGain, Total

(* A line at the end changes no gain of a line before it.                  *)
LEMMA SourceStepCodex ==
  ASSUME TypeInv, CodexInv, NEW f \in Files,
         Rewrite(f) \/ \E k \in Messages \cup CodexFiles : WriteLine(f, k)
  PROVE  CodexInv'
<1>1. UNCHANGED <<agent, cp, disk, reading, pending, lastOutput, conn, queue, hub, lost>>
      /\ rewritten \subseteq rewritten'
  BY DEF Rewrite, WriteLine, watcher, link
<1>2. Held' = Held /\ \A g \in Files : Local(g)' = Local(g)
  BY <1>1 DEF Gone, Held, InQueue, Local
<1> SUFFICES ASSUME NEW g \in CodexFiles \ rewritten' PROVE InStep(g)'
  BY DEF CodexInv
<1>3. g \in CodexFiles \ rewritten
  BY <1>1
<1>4. /\ g \in Files /\ Len(text[g]) \in Nat /\ text[g] \in Seq(Lines)
      /\ Local(g) \in Nat /\ Local(g) <= Len(text[g])
      /\ disk[g].offset \in Nat /\ disk[g].offset <= Len(text[g])
  BY <1>3, CodexTypes
<1>5. Len(text'[g]) \in Nat /\ Len(text[g]) <= Len(text'[g])
      /\ \A i \in 1..Len(text[g]) : text'[g][i] = text[g][i]
  <2>1. CASE Rewrite(f)
    <3>1. g # f /\ text' = [text EXCEPT ![f] = <<>>]
      BY <2>1 DEF Rewrite
    <3>2. text'[g] = text[g]
      BY <1>4, <3>1 DEF TypeInv, SourceOK
    <3>3. QED BY <1>4, <3>2
  <2>2. ASSUME NEW k \in Messages \cup CodexFiles, WriteLine(f, k)
        PROVE  Len(text'[g]) \in Nat /\ Len(text[g]) <= Len(text'[g])
               /\ \A i \in 1..Len(text[g]) : text'[g][i] = text[g][i]
    <3> DEFINE line == [of |-> k, out |-> usage[k] + 1]
    <3>1. text' = [text EXCEPT ![f] = Append(@, line)]
      BY <2>2 DEF WriteLine
    <3> HIDE DEF line
    <3>2. text'[g] = IF g = f THEN Append(text[g], line) ELSE text[g]
      BY <1>4, <3>1 DEF TypeInv, SourceOK
    <3>3. Len(Append(text[g], line)) = Len(text[g]) + 1
          /\ \A j \in 1..Len(text[g]) : Append(text[g], line)[j] = text[g][j]
      BY <1>4
    <3>4. QED BY <1>4, <3>2, <3>3
  <2>3. QED BY <2>1, <2>2
<1>6. \A i \in Nat : i <= Len(text[g]) => Total(g, i)' = Total(g, i)
  BY <1>4, <1>5 DEF Total
<1>7. ASSUME NEW i \in Nat, NEW out, IsGain(g, i, out) PROVE IsGain(g, i, out)'
  <2>1. i \in 1..Len(text[g]) /\ out = Total(g, i) - Total(g, i - 1)
    BY <1>7 DEF IsGain
  <2>2. i - 1 \in Nat /\ i - 1 <= Len(text[g]) /\ i <= Len(text[g]) /\ i \in 1..Len(text'[g])
    BY <1>4, <1>5, <2>1
  <2>3. Total(g, i)' = Total(g, i) /\ Total(g, i - 1)' = Total(g, i - 1)
    BY <1>6, <2>2
  <2>4. QED BY <2>1, <2>2, <2>3 DEF IsGain
<1>8. AllGains(g) => AllGains(g)'
  <2>1. \A i \in 1..MaxEvents : i \in Nat
    OBVIOUS
  <2>2. QED BY <1>1, <1>2, <1>7, <2>1 DEF AllGains
<1>9. InStep(g)
  BY <1>3 DEF CodexInv
<1>10. Total(g, Local(g))' = Total(g, Local(g)) /\ Total(g, disk[g].offset)' = Total(g, disk[g].offset)
  <2>1. Local(g)' = Local(g) /\ disk' = disk
    BY <1>1, <1>2, <1>4
  <2>2. QED BY <1>4, <1>6, <2>1 DEF Total
<1>11. QED BY <1>1, <1>2, <1>4, <1>8, <1>9, <1>10 DEF InStep

(* Opening a file resumes in step; its end leaves the counters alone.      *)
LEMMA FileStepCodex ==
  ASSUME TypeInv, CodexInv, (\E f \in Files : OpenFile(f)) \/ EndOfFile
  PROVE  CodexInv'
<1>1. UNCHANGED <<text, rewritten, agent, disk, pending, lastOutput, queue, hub, lost>>
  BY DEF OpenFile, EndOfFile, source, link
<1>2. Held' = Held
  BY <1>1 DEF Gone, Held, InQueue
<1> SUFFICES ASSUME NEW g \in CodexFiles \ rewritten PROVE InStep(g)'
  BY <1>1 DEF CodexInv
<1>3. g \in Files /\ Len(text[g]) \in Nat /\ cp[g].offset \in Nat /\ cp[g].offset <= Len(text[g])
  BY CodexTypes DEF TypeInv, PlaceInv
<1>4. Local(g)' = Local(g) /\ cp'[g].events = cp[g].events /\ cp'[g].last = cp[g].last
  <2>1. ASSUME NEW f \in Files, OpenFile(f)
        PROVE  Local(g)' = Local(g) /\ cp'[g].events = cp[g].events /\ cp'[g].last = cp[g].last
    <3>1. /\ cp' = [cp EXCEPT ![f] = Resumed(f)] /\ reading = None
          /\ reading' = IF Len(text[f]) = Resumed(f).offset THEN None ELSE [file |-> f, at |-> Resumed(f).offset]
      BY <2>1 DEF OpenFile
    <3>2. g = f => Resumed(f) = cp[f]
      BY <1>3 DEF Resumed
    <3>3. cp'[g] = cp[g]
      BY <1>3, <3>1, <3>2 DEF TypeInv, WatcherOK
    <3>4. QED BY <3>1, <3>2, <3>3 DEF Local
  <2>2. ASSUME EndOfFile
        PROVE  Local(g)' = Local(g) /\ cp'[g].events = cp[g].events /\ cp'[g].last = cp[g].last
    <3>1. cp' = [cp EXCEPT ![reading.file].offset = reading.at] /\ reading # None /\ reading' = None
      BY <2>2 DEF EndOfFile
    <3>2. reading.file \in Files
      BY <3>1 DEF TypeInv, WatcherOK, Readers
    <3>3. QED BY <1>3, <3>1, <3>2 DEF Local, TypeInv, WatcherOK, Checkpoints
  <2>3. QED BY <2>1, <2>2
<1>5. AllGains(g)' <=> AllGains(g)
  BY <1>1, <1>2 DEF AllGains, IsGain, Total
<1>6. InStep(g)
  BY DEF CodexInv
<1>7. Total(g, Local(g))' = Total(g, Local(g)) /\ Total(g, disk[g].offset)' = Total(g, disk[g].offset)
  BY <1>1, <1>4 DEF Total
<1>8. QED BY <1>1, <1>4, <1>5, <1>6, <1>7 DEF InStep

(* In step, a line yields its gain under its own number; a checkpoint that *)
(* is saved in the middle of a file is ahead of its offset.                *)
LEMMA ReadStepCodex ==
  ASSUME TypeInv, TypeInv', CodexInv, ReadLine
  PROVE  CodexInv'
<1>0. PICK f : f = reading.file
  OBVIOUS
<1> DEFINE line == text[f][reading.at + 1]
           outputs == IF line.out > lastOutput[line.of] THEN [lastOutput EXCEPT ![line.of] = line.out]
                      ELSE lastOutput
           next == [offset |-> cp[f].offset, last |-> line.out, events |-> cp[f].events + 1]
<1>1. /\ f \in Files /\ reading # None /\ reading' = [file |-> f, at |-> reading.at + 1]
      /\ reading.at \in Nat /\ reading.at + 1 \in 1..Len(text[f])
      /\ line \in Lines /\ agent = "up" /\ reading' # None
      /\ UNCHANGED <<source, agent, conn, hub, faults>>
      /\ \/ /\ f \in ClaudeFiles /\ line.of \in Messages /\ cp' = cp
            /\ Handed(Held \cup RowsOf(ClaudeRows(line)), cp, outputs)
         \/ /\ f \in CodexFiles
            /\ cp' = [cp EXCEPT ![f] = next]
            /\ Handed(Held \cup RowsOf(CodexRows(f, line)), cp', lastOutput)
  BY <1>0, ReadEffect
<1>2. UNCHANGED <<text, rewritten, agent, hub>>
  BY <1>1 DEF source
<1>3. disk' = disk \/ disk' = cp'
  BY <1>1 DEF Handed
<1> SUFFICES ASSUME NEW g \in CodexFiles \ rewritten PROVE InStep(g)'
  BY <1>2 DEF CodexInv
<1>4. /\ g \in Files /\ g \notin ClaudeFiles /\ Len(text[g]) \in Nat /\ text[g] \in Seq(Lines)
      /\ cp[g].offset \in Nat /\ cp[g].events \in Nat /\ disk[g].offset \in Nat /\ disk[g].events \in Nat
      /\ Local(g) \in Nat /\ Local(g) <= Len(text[g])
      /\ \A i \in 1..MaxEvents : <<g, i>> \in Keys /\ <<g, i>> \notin Messages
  BY CodexTypes
<1>5. InStep(g)
  BY DEF CodexInv
<1>6. \A i, out : IsGain(g, i, out)' <=> IsGain(g, i, out)
  BY <1>2 DEF IsGain, Total
<1>7. CASE g # f
  <2>1. cp'[g] = cp[g]
    <3>1. cp \in [Files -> Checkpoints]
      BY DEF TypeInv, WatcherOK
    <3> HIDE DEF line, outputs, next
    <3>2. QED BY <1>1, <1>4, <1>7, <3>1
  <2>2. Local(g) = cp[g].offset /\ Local(g)' = cp[g].offset
    BY <1>0, <1>1, <1>7, <2>1 DEF Local
  <2>3. \A r \in Held' \ Held, i \in 1..MaxEvents : r.key # <<g, i>>
    <3>1. ASSUME NEW r \in RowsOf(ClaudeRows(line)), line.of \in Messages, NEW i \in 1..MaxEvents
          PROVE  r.key # <<g, i>>
      <4>1. r.key = line.of
        <5>1. ClaudeRows(line) = <<>> \/ ClaudeRows(line) = <<[key |-> line.of, out |-> line.out]>>
          BY DEF ClaudeRows
        <5> HIDE DEF line
        <5>2. QED BY <3>1, <5>1 DEF RowsOf, Range
      <4>2. QED BY <1>4, <3>1, <4>1
    <3>2. ASSUME NEW r \in RowsOf(CodexRows(f, line)), NEW i \in 1..MaxEvents
          PROVE  r.key # <<g, i>>
      <4>1. r.key = <<f, cp[f].events + 1>>
        <5> DEFINE more == Increment(line.out, cp[f].last)
        <5>1. \/ CodexRows(f, line) = <<>>
              \/ CodexRows(f, line) = <<[key |-> <<f, cp[f].events + 1>>, out |-> more]>>
          BY DEF CodexRows
        <5> HIDE DEF line, more
        <5>2. QED BY <3>2, <5>1 DEF RowsOf, Range
      <4>2. QED BY <1>7, <4>1
    <3> HIDE DEF line, outputs, next
    <3>3. QED BY <1>1, <3>1, <3>2 DEF Handed
  <2>4. AllGains(g) => AllGains(g)'
    BY <1>2, <1>6, <2>3 DEF AllGains
  <2>5. Total(g, Local(g))' = Total(g, Local(g)) /\ Total(g, disk[g].offset)' = Total(g, disk'[g].offset)
    BY <1>2, <2>2 DEF Total
  <2>6. QED BY <1>1, <1>2, <1>3, <1>5, <2>1, <2>2, <2>4, <2>5 DEF InStep
<1>8. CASE g = f
  <2>1. /\ cp' = [cp EXCEPT ![g] = next] /\ Held' = Held \cup RowsOf(CodexRows(g, line))
        /\ line = text[g][reading.at + 1]
    <3> HIDE DEF line, outputs, next
    <3>1. Held' = Held \cup RowsOf(CodexRows(g, line)) /\ cp' = [cp EXCEPT ![g] = next]
      BY <1>1, <1>4, <1>8 DEF Handed
    <3>2. QED BY <1>8, <3>1 DEF line
  <2>2. line.out \in Nat /\ line.out > 0
    BY <1>1, SizeAssumption DEF Lines
  <2>3. /\ cp'[g].offset = cp[g].offset /\ cp'[g].events = cp[g].events + 1 /\ cp'[g].last = line.out
    <3>1. cp \in [Files -> Checkpoints]
      BY DEF TypeInv, WatcherOK
    <3>2. cp'[g] = next
      BY <1>4, <2>1, <3>1
    <3> HIDE DEF line
    <3>3. QED BY <1>8, <3>2
  <2>4. Local(g) = reading.at /\ Local(g)' = reading.at + 1
    BY <1>0, <1>1, <1>8 DEF Local
  <2>5. reading.at + 1 \in 1..Len(text[g]) /\ reading.at \in Nat
    BY <1>1, <1>8
  <2>6. Total(g, reading.at + 1) = line.out /\ Total(g, reading.at + 1 - 1) = Total(g, reading.at)
    <3>1. reading.at + 1 # 0 /\ reading.at + 1 - 1 = reading.at
      BY <2>5
    <3>2. QED BY <2>1, <3>1 DEF Total
  <2>7. Total(g, reading.at) \in Nat /\ Total(g, reading.at) <= line.out
    <3>1. CASE reading.at = 0
      BY <2>2, <3>1 DEF Total
    <3>2. CASE reading.at # 0
      <4>1. reading.at \in 1..Len(text[g])
        BY <1>4, <2>5, <3>2
      <4>2. text[g][reading.at] \in Lines
        BY <1>4, <4>1, ElementOfSeq
      <4>3. text[g][reading.at].out <= text[g][reading.at + 1].out
        <5>1. reading.at <= reading.at + 1
          BY <2>5
        <5>2. QED BY <2>5, <4>1, <5>1 DEF TypeInv, TextInv
      <4>4. text[g][reading.at].out \in Nat
        BY <4>2, SizeAssumption DEF Lines
      <4>5. Total(g, reading.at) = text[g][reading.at].out
        BY <3>2 DEF Total
      <4>6. QED BY <2>1, <4>3, <4>4, <4>5
    <3>3. QED BY <3>1, <3>2
  <2> DEFINE number == cp[g].events + 1
             more == Increment(line.out, cp[g].last)
  <2>8. ASSUME cp[g].events = Local(g)
        PROVE  AllGains(g)'
    <3>1. cp[g].last = Total(g, reading.at) /\ AllGains(g) /\ number = reading.at + 1
      BY <1>1, <1>5, <2>4, <2>8 DEF InStep
    <3> HIDE DEF line
    <3>2. more = line.out - Total(g, reading.at)
      BY <2>2, <2>7, <3>1 DEF Increment
    <3>3. IsGain(g, number, more)
      BY <2>5, <2>6, <3>1, <3>2 DEF IsGain
    <3>4. CodexRows(g, line) = <<>> \/ CodexRows(g, line) = <<[key |-> <<g, number>>, out |-> more]>>
      BY DEF CodexRows
    <3> HIDE DEF number, more
    <3>5. \A r \in RowsOf(CodexRows(g, line)) : r.key = <<g, number>> /\ r.out = more
      BY <3>4 DEF RowsOf, Range
    <3>6. \A r \in Held', i \in 1..MaxEvents : r.key = <<g, i>> => IsGain(g, i, r.out)
      <4> SUFFICES ASSUME NEW r \in Held', NEW i \in 1..MaxEvents, r.key = <<g, i>> PROVE IsGain(g, i, r.out)
        OBVIOUS
      <4>1. CASE r \in Held
        BY <3>1, <4>1 DEF AllGains
      <4>2. CASE r \in RowsOf(CodexRows(g, line))
        <5>1. i = number /\ r.out = more
          BY <3>5, <4>2
        <5>2. QED BY <3>3, <5>1
      <4>3. QED BY <2>1, <4>1, <4>2
    <3>7. QED BY <1>2, <1>6, <3>1, <3>6 DEF AllGains
  <2>9. Total(g, Local(g))' = line.out
    <3>1. Total(g, Local(g))' = Total(g, reading.at + 1)
      BY <1>2, <2>4 DEF Total
    <3>2. QED BY <2>6, <3>1
  <2> HIDE DEF line, next, outputs
  <2>10. cp[g].events + 1 = reading.at + 1 => cp[g].events = Local(g)
    BY <1>4, <2>4, <2>5
  <2>11. Local(g)' <= cp'[g].events
    BY <1>1, <1>4, <1>5, <2>3, <2>4 DEF InStep
  <2>12. CASE disk' = disk
    <3>1. Total(g, disk[g].offset)' = Total(g, disk[g].offset)
      BY <1>2, <2>12 DEF Total
    <3>2. disk[g].events = disk[g].offset => cp[g].events = Local(g)
      BY <1>1, <1>5 DEF InStep
    <3>3. cp[g].events = Local(g) => cp'[g].events = Local(g)'
      BY <2>3, <2>4
    <3>4. disk[g].offset <= disk[g].events /\ (disk[g].events = disk[g].offset => disk[g].last = Total(g, disk[g].offset))
      BY <1>5 DEF InStep
    <3>5. cp'[g].events = Local(g)' => cp[g].events = Local(g)
      BY <2>3, <2>4, <2>10
    <3>6. QED BY <2>3, <2>8, <2>9, <2>11, <2>12, <3>1, <3>2, <3>3, <3>4, <3>5 DEF InStep
  <2>13. CASE disk' = cp'
    <3>1. cp[g].offset <= reading.at
      BY <2>4, CodexTypes
    <3>2. reading.at <= cp[g].events
      BY <1>1, <1>5, <2>4 DEF InStep
    <3>3. disk'[g].offset < disk'[g].events /\ disk'[g].offset <= disk'[g].events /\ disk'[g].events # disk'[g].offset
      BY <1>4, <2>3, <2>5, <2>13, <3>1, <3>2
    <3>4. cp'[g].events = Local(g)' => cp[g].events = Local(g)
      BY <2>3, <2>4, <2>10
    <3>5. QED BY <2>3, <2>8, <2>9, <2>11, <3>3, <3>4 DEF InStep
  <2>14. QED BY <1>3, <2>12, <2>13
<1>9. QED BY <1>7, <1>8

(* A saved checkpoint is the watcher's; a restarted watcher is as much in  *)
(* step as its checkpoint; the hub stores what it is sent.                 *)
LEMMA OtherStepCodex ==
  ASSUME TypeInv, CodexInv,
         \/ FlushTick \/ Start \/ Crash \/ Shutdown
         \/ Connect \/ Disconnect \/ NoticeDisconnect \/ Ingest \/ IngestFails
  PROVE  CodexInv'
<1>1. UNCHANGED <<text, rewritten>>
  BY DEF FlushTick, Start, Crash, Shutdown, Connect, Disconnect, NoticeDisconnect, Ingest, IngestFails, source
<1> SUFFICES ASSUME NEW g \in CodexFiles \ rewritten PROVE InStep(g)'
  BY <1>1 DEF CodexInv
<1>2. InStep(g) /\ g \in Files
  BY CodexTypes DEF CodexInv
<1>3. CASE FlushTick
  <2>1. /\ agent = "up" /\ reading = None /\ Handed(Held, cp, lastOutput)
        /\ UNCHANGED <<agent, cp, reading, hub>>
    BY <1>3, TickEffect
  <2>2. Held' = Held /\ (disk' = disk \/ disk' = cp)
    BY <2>1 DEF Handed
  <2>3. AllGains(g)' <=> AllGains(g)
    BY <1>1, <2>1, <2>2 DEF AllGains, IsGain, Total
  <2>4. Local(g)' = Local(g) /\ Local(g) = cp[g].offset
    BY <2>1 DEF Local
  <2>5. \A i : Total(g, i)' = Total(g, i)
    BY <1>1 DEF Total
  <2>6. Total(g, Local(g))' = Total(g, cp[g].offset) /\ Total(g, disk[g].offset)' = Total(g, disk'[g].offset)
    BY <1>1, <2>4 DEF Total
  <2>7. QED BY <1>2, <2>1, <2>2, <2>3, <2>4, <2>6 DEF InStep
<1>4. CASE Start
  <2>1. /\ agent = "down" /\ agent' = "up" /\ cp' = disk
        /\ UNCHANGED <<disk, reading, pending, queue, hub, lost>>
    BY <1>4 DEF Start, link
  <2>2. reading = None
    BY <2>1 DEF TypeInv, PlaceInv
  <2>3. Held' = Held
    BY <2>1 DEF Gone, Held, InQueue
  <2>4. AllGains(g)' <=> AllGains(g)
    BY <1>1, <2>1, <2>3 DEF AllGains, IsGain, Total
  <2>5. Local(g)' = disk[g].offset
    BY <2>1, <2>2 DEF Local
  <2>6. Total(g, Local(g))' = Total(g, disk[g].offset) /\ Total(g, disk[g].offset)' = Total(g, disk[g].offset)
    BY <1>1, <2>1, <2>5 DEF Total
  <2>7. QED BY <1>2, <2>1, <2>4, <2>5, <2>6 DEF InStep
<1>5. CASE Crash \/ Shutdown
  <2>1. /\ agent = "up" /\ agent' = "down" /\ hub' = hub /\ Held' = Gone'
        /\ \/ disk' = disk /\ Gone' = Gone
           \/ disk' = cp /\ reading = None /\ Gone' = Held
    BY <1>5, DownEffect
  <2>2. Held' \subseteq Held
    BY <2>1 DEF Held
  <2>3. AllGains(g) => AllGains(g)'
    BY <1>1, <2>1, <2>2, StillGains
  <2>4. Total(g, disk[g].offset)' = Total(g, disk'[g].offset)
    BY <1>1 DEF Total
  <2>5. reading = None => Local(g) = cp[g].offset
    BY DEF Local
  <2>6. QED BY <1>2, <2>1, <2>3, <2>4, <2>5 DEF InStep
<1>6. CASE Connect \/ Disconnect \/ NoticeDisconnect \/ Ingest \/ IngestFails
  <2>1. /\ UNCHANGED <<agent, cp, disk, reading, pending>> /\ Gone' \subseteq Gone
        /\ \/ hub' = hub
           \/ \E batch \in Seq(Rows) : hub' = Ingested(batch) /\ Gone = RowsOf(batch) \cup Gone'
    BY <1>6, LinkEffect
  <2>2. Held' \subseteq Held /\ Gone \subseteq Held
    BY <2>1 DEF Held
  <2>3. \A i \in 1..MaxEvents : \/ hub'[<<g, i>>] = hub[<<g, i>>]
                                \/ \E r \in Held : r.key = <<g, i>> /\ hub'[<<g, i>>] = r.out
    <3>1. ASSUME NEW batch \in Seq(Rows), hub' = Ingested(batch), Gone = RowsOf(batch) \cup Gone',
                 NEW i \in 1..MaxEvents
          PROVE  \/ hub'[<<g, i>>] = hub[<<g, i>>]
                 \/ \E r \in Held : r.key = <<g, i>> /\ hub'[<<g, i>>] = r.out
      <4>1. <<g, i>> \in Keys
        BY CodexTypes
      <4>2. hub \in [Keys -> 0..MaxOutput]
        BY DEF TypeInv, RestOK
      <4>3. \/ hub'[<<g, i>>] = hub[<<g, i>>]
            \/ \E r \in RowsOf(batch) : r.key = <<g, i>> /\ hub'[<<g, i>>] = r.out
        BY <3>1, <4>1, <4>2, IngestedTable
      <4>4. QED BY <2>2, <3>1, <4>3
    <3>2. QED BY <2>1, <3>1
  <2>4. AllGains(g) => AllGains(g)'
    BY <1>1, <2>2, <2>3, StillGains
  <2>5. Local(g)' = Local(g)
    BY <2>1 DEF Local
  <2>6. Total(g, Local(g))' = Total(g, Local(g)) /\ Total(g, disk[g].offset)' = Total(g, disk[g].offset)
    BY <1>1, <2>1, <2>5 DEF Total
  <2>7. QED BY <1>2, <2>1, <2>4, <2>5, <2>6 DEF InStep
<1>7. QED BY <1>3, <1>4, <1>5, <1>6

(* "The hub's dedup absorbs the duplicates": in step with the lines read,  *)
(* each row of a Codex session is the increment of the line it is numbered *)
(* after, however often that line was read, sent and ingested.             *)
THEOREM CountsOnceTheorem == Spec => []CodexCountsOnce
<1>1. TypeInv /\ Init => CodexInv
  <2> SUFFICES ASSUME TypeInv, Init, NEW g \in CodexFiles \ rewritten PROVE InStep(g)
    BY DEF CodexInv
  <2>1. /\ g \in Files /\ cp[g] = Fresh /\ disk[g] = Fresh /\ reading = None /\ Local(g) = 0
        /\ pending = <<>> /\ queue = <<>> /\ lost = {} /\ hub = [k \in Keys |-> 0]
    BY DEF Init, Files, Local, Fresh
  <2>2. Held = {}
    <3>1. InQueue = Contents(queue) /\ <<>> \in Seq(Seq(Rows)) /\ <<>> \in Seq(Rows)
      BY DEF InQueue, Contents
    <3>2. QED BY <2>1, <3>1, QueueContents, ListRows DEF Held, Gone
  <2>3. \A i \in 1..MaxEvents : hub[<<g, i>>] = 0
    BY <2>1, CodexTypes
  <2>4. AllGains(g)
    BY <2>2, <2>3 DEF AllGains
  <2>5. QED BY <2>1, <2>4 DEF InStep, Fresh, Total
<1>2. TypeInv /\ TypeInv' /\ CodexInv /\ [Next]_vars => CodexInv'
  <2>1. ASSUME CodexInv, UNCHANGED vars PROVE CodexInv'
    BY <2>1 DEF vars, source, watcher, link, CodexInv, InStep, AllGains, IsGain, Total, Held, Gone, InQueue, Local
  <2>2. QED
    BY <2>1, SourceStepCodex, FileStepCodex, ReadStepCodex, OtherStepCodex DEF Next
<1>3. CodexInv => CodexCountsOnce
  <2> SUFFICES ASSUME CodexInv, NEW f \in CodexFiles \ rewritten, agent = "up", cp[f].events = Local(f),
                      NEW i \in 1..MaxEvents, hub[<<f, i>>] # 0
               PROVE  i <= Len(text[f]) /\ hub[<<f, i>>] = Total(f, i) - Total(f, i - 1)
    BY DEF CodexCountsOnce, Local, Total
  <2>1. IsGain(f, i, hub[<<f, i>>])
    BY DEF CodexInv, InStep, AllGains
  <2>2. QED BY <2>1 DEF IsGain
<1>4. QED BY <1>1, <1>2, <1>3, TypeInvariant, PTL DEF Spec
=============================================================================
