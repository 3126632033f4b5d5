------------------------------- MODULE Metrics ------------------------------
(***************************************************************************)
(* Metric samples, from the agent's buffer to the hub's tiers: metricsLoop *)
(* and sendMetrics (agent/internal/daemon/loops.go), ingestMetrics         *)
(* (hub/internal/agenthub/metrics.go) and the cron that rolls each tier    *)
(* into the next and expires it (hub/internal/metrics/downsample.go).      *)
(*                                                                         *)
(* One series; a sample is a key (a system, an app) and a time.  A row     *)
(* holds the set of samples it sums up.  Time is counted in ticks of the   *)
(* agent's sampling interval.                                              *)
(***************************************************************************)
EXTENDS Integers, Sequences, FiniteSets, FiniteSetsExt, SequencesExt

CONSTANTS
  Keys,       \* systems or apps
  Widths,     \* bucket width of each tier but the first, as of the tier below
  Retain,     \* how long rows of each tier live
  BufferCap,  \* batches buffered while the hub is away (240)
  MaxTime,    \* bound: the clock
  MaxFaults   \* bound: lost connections, crashes, failed transactions

ASSUME WidthAssumption ==
  /\ Widths \in Seq(Nat \ {0}) /\ Len(Retain) = Len(Widths) + 1
  /\ \A i \in DOMAIN Widths : Retain[i] >= Widths[i] /\ Retain[i] <= Retain[i + 1]
  /\ \A i, j \in DOMAIN Widths :
       /\ i <= j => Widths[j] % Widths[i] = 0
       /\ j = i + 1 => Retain[i] + Widths[i] <= Retain[j]

ASSUME BoundAssumption ==
  /\ Retain \in Seq(Nat) /\ BufferCap \in Nat /\ MaxTime \in Nat /\ MaxFaults \in Nat

VARIABLES
  now,      \* the clock
  sampled,  \* metricsLoop has taken this tick's batch
  conn,     \* d.conn: "none", "up" or "lost" (closed, not yet noticed)
  buf,      \* d.metricsBuf, oldest batch first
  wire,     \* metrics frames under way
  rows,     \* the metric tables: [tier, key, at, of]
  pass,     \* the cron's position in Steps, 0 when it is not running
  failed,   \* tiers whose aggregation failed in this pass
  turn,     \* history: per rolled tier, the clock when a pass last tried to roll it up
  late,     \* history: <<tier, sample>>, came when its bucket above had had its turn
  held,     \* history: <<tier, sample>>, held back below it while its bucket had its turn
  lost,     \* history: samples given up on the way
  expired,  \* history: samples of expired rows of the last tier, or given up by a pass that failed
  faults

link    == <<conn, buf, wire>>
history == <<turn, late, held, lost, expired>>
vars    == <<now, sampled, link, rows, pass, failed, history, faults>>

Tiers   == 1..Len(Retain)
Rolled  == 1..Len(Widths)  \* the tiers with one above them
Samples == [key : Keys, at : 0..MaxTime]
Rows    == [tier : Tiers, key : Keys, at : 0..MaxTime, of : SUBSET Samples]

\* A row sums up samples of its own key.
TypeOK ==
  /\ now \in 0..MaxTime /\ sampled \in BOOLEAN
  /\ conn \in {"none", "up", "lost"}
  /\ buf \in Seq(SUBSET Samples) /\ Len(buf) <= BufferCap
  /\ wire \in Seq(SUBSET Samples)
  /\ \A r \in rows : /\ r.tier \in Tiers /\ r.at \in 0..MaxTime
                     /\ \A s \in r.of : s \in Samples /\ s.key = r.key
  /\ pass \in 0..(2 * Len(Retain)) /\ failed \subseteq Tiers
  /\ turn \in [Rolled -> 0..MaxTime]
  /\ late \subseteq Rolled \X Samples /\ held \subseteq Rolled \X Samples
  /\ lost \subseteq Samples /\ expired \subseteq Samples
  /\ faults \in 0..MaxFaults

Init ==
  /\ now = 0 /\ sampled = FALSE
  /\ conn = "none" /\ buf = <<>> /\ wire = <<>>
  /\ rows = {} /\ pass = 0 /\ failed = {}
  /\ turn = [i \in Rolled |-> 0]
  /\ late = {} /\ held = {} /\ lost = {} /\ expired = {}
  /\ faults = 0

Fault == faults < MaxFaults /\ faults' = faults + 1

All(batches) == UNION ToSet(batches)

\* A pass takes no time on this clock.
Tick ==
  /\ now < MaxTime /\ pass = 0
  /\ now' = now + 1 /\ sampled' = FALSE
  /\ UNCHANGED <<link, rows, pass, failed, history, faults>>

-----------------------------------------------------------------------------
(* The agent.                                                              *)

\* MUTANT: the buffer is sent and kept.
SendMetricsKeeps(batch) ==
  IF conn = "none" THEN buf' = Append(buf, batch) /\ UNCHANGED <<wire, lost>>
  ELSE /\ wire' = wire \o (IF buf = <<>> THEN <<batch>> ELSE <<All(buf), batch>>)
       /\ UNCHANGED <<buf, lost>>

\* sendMetrics.  What is sent on a connection that is closed is gone, the
\* backlog with it.
SendMetrics(batch) ==
  IF conn = "none"
    THEN LET more == Append(buf, batch)
             over == Len(more) - BufferCap
         IN  /\ buf' = IF over > 0 THEN SubSeq(more, over + 1, Len(more)) ELSE more
             /\ lost' = lost \cup (IF over > 0 THEN All(SubSeq(more, 1, over)) ELSE {})
             /\ UNCHANGED wire
    ELSE /\ buf' = <<>>
         /\ IF conn = "up"
              THEN /\ wire' = wire \o (IF buf = <<>> THEN <<batch>> ELSE <<All(buf), batch>>)
                   /\ UNCHANGED lost
              ELSE lost' = lost \cup All(buf) \cup batch /\ UNCHANGED wire

\* metricsLoop: the apps that run at this tick.
Sample(running) ==
  /\ ~sampled /\ sampled' = TRUE
  /\ SendMetrics({[key |-> k, at |-> now] : k \in running})
  /\ UNCHANGED <<now, conn, rows, pass, failed, turn, late, held, expired, faults>>

Connect ==
  /\ conn = "none" /\ conn' = "up"
  /\ UNCHANGED <<now, sampled, buf, wire, rows, pass, failed, history, faults>>

Break ==
  /\ Fault /\ conn = "up" /\ conn' = "lost"
  /\ wire' = <<>> /\ lost' = lost \cup All(wire)
  /\ UNCHANGED <<now, sampled, buf, rows, pass, failed, turn, late, held, expired>>

\* d.Run sets d.conn to nil.
NoticeLoss ==
  /\ conn = "lost" /\ conn' = "none"
  /\ UNCHANGED <<now, sampled, buf, wire, rows, pass, failed, history, faults>>

\* The buffer is in memory only.
AgentCrash ==
  /\ Fault /\ conn' = "none" /\ buf' = <<>> /\ wire' = <<>>
  /\ lost' = lost \cup All(buf) \cup All(wire)
  /\ UNCHANGED <<now, sampled, rows, pass, failed, turn, late, held, expired>>

-----------------------------------------------------------------------------
(* The hub.                                                                *)

Bucket(t, i) == t - (t % Widths[i])

\* Samples of a frame that come when a pass has begun, at the lowest tier, after
\* their bucket of a tier was over.
TooLate(frame) ==
  {g \in Rolled \X frame : Bucket(g[2].at, g[1]) < Bucket(turn[1], g[1])}

\* ingestMetrics, one transaction per frame.
Ingest ==
  /\ wire # <<>> /\ wire' = Tail(wire)
  /\ \/ /\ rows' = rows \cup {[tier |-> 1, key |-> s.key, at |-> s.at, of |-> {s}] : s \in Head(wire)}
        /\ late' = late \cup TooLate(Head(wire))
        /\ UNCHANGED <<lost, faults>>
     \/ Fault /\ lost' = lost \cup Head(wire) /\ UNCHANGED <<rows, late>>
  /\ UNCHANGED <<now, sampled, conn, buf, pass, failed, turn, held, expired>>

\* MUTANT: a tier is expired before it is rolled up.
ExpireFirst ==
  [p \in 1..(2 * Len(Retain)) |-> [do |-> IF p % 2 = 1 THEN "expire" ELSE "roll", tier |-> (p + 1) \div 2]]

\* Run: the steps of a pass.
Steps ==
  [p \in 1..(2 * Len(Retain)) |-> [do |-> IF p % 2 = 1 THEN "roll" ELSE "expire", tier |-> (p + 1) \div 2]]

\* The cron's schedule: the first width.  The hub may be down and skip it.
StartPass ==
  /\ pass = 0 /\ now > 0 /\ now % Widths[1] = 0
  /\ pass' = 1 /\ failed' = {}
  /\ UNCHANGED <<now, sampled, link, rows, history, faults>>

Step(do) ==
  /\ pass # 0 /\ Steps[pass].do = do
  /\ pass' = IF pass = Len(Steps) THEN 0 ELSE pass + 1

\* MUTANT: the bucket that is still filling is rolled up too.
CutoffNow(i) == now

\* Only completed buckets.
Cutoff(i) == Bucket(now, i)

\* The newest row of a key in the tier above; -1 when it has none.
LastBucket(i, k) == Max({r.at : r \in {x \in rows : x.tier = i + 1 /\ x.key = k}} \cup {-1})

\* MUTANT: the bucket rolled up last is rolled up again.
NewerOrSame(b, last) == b >= last

\* Skip buckets already aggregated for this key.
Newer(b, last) == b > last

\* aggregateTier: what the pass adds to the tier above.
Aggregated(i) ==
  LET from == {r \in rows : r.tier = i /\ r.at < Cutoff(i)}
  IN  {[tier |-> i + 1, key |-> g[1], at |-> g[2],
        of |-> UNION {r.of : r \in {x \in from : x.key = g[1] /\ Bucket(x.at, i) = g[2]}}] :
         g \in {<<r.key, Bucket(r.at, i)>> : r \in {x \in from : Newer(Bucket(x.at, i), LastBucket(i, x.key))}}}

\* What a failed aggregation of tier i keeps from the buckets above that the
\* rest of its pass will close: Run goes on to the next tier.
HeldBack(i) ==
  {g \in Rolled \X Samples :
     g[1] > i /\ \E x \in Aggregated(i) : g[2] \in x.of /\ Bucket(x.at, g[1]) < Bucket(now, g[1])}

Roll ==
  /\ Step("roll")
  /\ LET i == Steps[pass].tier IN
       \/ i \notin Rolled /\ UNCHANGED <<rows, turn, held, failed, faults>>
       \/ /\ i \in Rolled /\ turn' = [turn EXCEPT ![i] = now]
          /\ rows' = rows \cup Aggregated(i) /\ UNCHANGED <<held, failed, faults>>
       \/ /\ i \in Rolled /\ turn' = [turn EXCEPT ![i] = now]
          /\ Fault /\ failed' = failed \cup {i}
          /\ held' = held \cup HeldBack(i) /\ UNCHANGED rows
  /\ UNCHANGED <<now, sampled, link, late, lost, expired>>

\* enforceRetention, also after an aggregation that failed.
Expire ==
  /\ Step("expire")
  /\ LET i    == Steps[pass].tier
         gone == {r \in rows : r.tier = i /\ r.at < now - Retain[i]}
     IN  /\ rows' = rows \ gone
         /\ expired' = IF i \in Rolled \ failed THEN expired ELSE expired \cup UNION {r.of : r \in gone}
  /\ UNCHANGED <<now, sampled, link, failed, turn, late, held, lost, faults>>

Next ==
  \/ Tick
  \/ \E running \in SUBSET Keys \ {{}} : Sample(running)
  \/ Connect \/ Break \/ NoticeLoss \/ AgentCrash
  \/ Ingest \/ StartPass \/ Roll \/ Expire

Spec == Init /\ [][Next]_vars

-----------------------------------------------------------------------------
(* Properties.                                                             *)

Stored == UNION {r.of : r \in rows}

\* What may part the sample s from its bucket above tier i.
Missed(i, s) == <<i, s>> \in late \cup held

\* A sample is in one place: buffered, under way, on the hub, or given up.  No
\* flush of the backlog sends it twice (sendMetrics, ingestMetrics).
SampleInOnePlace ==
  LET frames == buf \o wire
      had    == Stored \cup expired
  IN  /\ \A i, j \in DOMAIN frames : i # j => frames[i] \cap frames[j] = {}
      /\ (All(buf) \cup All(wire)) \cap (had \cup lost) = {}
      /\ had \cap lost = {}

\* A key has one row per bucket of a tier: rolling up again what was rolled up
\* before, or what arrived late, adds none (aggregateTier).
OneRowPerBucket ==
  \A r, x \in rows : r.tier > 1 /\ r.tier = x.tier /\ r.key = x.key /\ r.at = x.at => r = x

\* A bucket sums up every row of the tier below in its span (aggregateTier),
\* except samples that came once a pass had begun after the bucket was over, and
\* samples that the failed aggregation of a lower tier held back while the same
\* pass went on to close the bucket (Run, downsample.go:82-84).  That a pass is
\* skipped, or that the tier's own aggregation fails, costs a bucket nothing.
BucketIsWhole ==
  \A r, x \in rows :
    r.tier + 1 = x.tier /\ r.key = x.key /\ Bucket(r.at, r.tier) = x.at
      => \A s \in r.of : s \in x.of \/ Missed(r.tier, s)

\* A stored sample stays in some row until the last tier expires it, unless it
\* came too late or was held back, or the pass that expires it had failed to
\* roll it up (Run).
NothingForgotten ==
  [][\A s \in Stored \ Stored' : (\E i \in Rolled : Missed(i, s)) \/ s \in expired']_rows
=============================================================================
