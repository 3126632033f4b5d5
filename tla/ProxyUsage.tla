------------------------------ MODULE ProxyUsage ----------------------------
(***************************************************************************)
(* Usage metered at run time, from a model's response to the day's spend   *)
(* alert: the local proxy that reads the usage out of responses it passes  *)
(* on (agent/internal/tokenproxy), the buffer in front of the connection   *)
(* (agent/internal/daemon/tokens.go), and the ledger's pricing and alert   *)
(* (hub/internal/tokens), which agents' connections run concurrently.      *)
(*                                                                         *)
(* A response is a stream of events, each a line of two pieces (Lines).    *)
(***************************************************************************)
EXTENDS Integers, Sequences, FiniteSets, FiniteSetsExt, SequencesExt, Lines

CONSTANTS
  Requests,   \* proxied requests
  Script,     \* the events of each one's response: [type, out]
  Model,      \* each one's model, as the parts of its name
  Prices,     \* price per token of the models in the table
  BufferCap,  \* rows queueProxyRows keeps while the hub is away (5000)
  Threshold,  \* settings.spend_threshold_usd
  MaxDays,    \* bound: days
  MaxOther,   \* bound: rows of another agent
  MaxFaults   \* bound: broken connections and failed transactions

\* What the two providers' parsers tell apart.
Events == [type : {"start", "delta", "chunk", "usage"}, out : Nat]

ASSUME ResponseAssumption ==
  \A r \in Requests : Script[r] \in Seq(Events) /\ Model[r] \in Seq(STRING)

\* A threshold of zero turns the alert off (checkSpendThreshold).
ASSUME PriceAssumption ==
  (\A m \in DOMAIN Prices : Prices[m] \in Nat) /\ Threshold \in Nat \ {0}

ASSUME BoundAssumption == {BufferCap, MaxOther, MaxFaults} \subseteq Nat /\ MaxDays \in Nat \ {0}

\* The rows of the other agent are numbered.
ASSUME KindAssumption == \A r \in Requests, n \in 1..MaxOther : r # n

VARIABLES
  got,      \* pieces of each response read so far
  parser,   \* each response's sseParser
  at,       \* each handler: "read", "buffer" (its row was not sent) or "done"
  held,     \* the row each handler made of its response
  buf,      \* d.proxyRowsBuf
  flush,    \* flushProxyRows: [at, rows]
  conn,     \* d.conn: "up", "lost" (closed, not yet noticed) or "none"
  wire,     \* usage batches under way
  lost,     \* history: rows given up
  day,      \* today's date
  ledger,   \* the hub's rows: [of, cost, day]
  others,   \* rows of the other agent so far
  check,    \* checkSpendThreshold in each connection's handler: [at, day]
  lastAlertDay,
  alerted,  \* history: days an alert was sent
  faults

meter == <<got, parser, at, held>>
agent == <<buf, flush, conn, wire, lost>>
hub   == <<day, ledger, others, check, lastAlertDay, alerted>>
vars  == <<meter, agent, hub, faults>>

Handlers == {"agent", "other"}
NoUsage  == [key |-> FALSE, out |-> 0, saw |-> FALSE]

\* MUTANT: OccurredAtMS is left zero.
RowUndated(r) == [req |-> r, out |-> parser[r].row.out, day |-> 0]

\* What handle adds to the parser's row.
Row(r) == [req |-> r, out |-> parser[r].row.out, day |-> day]
RowType == [req : Requests, out : Nat, day : 1..MaxDays]

\* Buffers hold rows of requests; a handler is at a place of the code.
TypeOK ==
  /\ \A r \in Requests : /\ got[r] \in 0..(2 * Len(Script[r]))
                         /\ at[r] \in {"read", "buffer", "done"}
                         /\ parser[r].row.out \in Nat
                         /\ held[r] = <<>> <=> at[r] # "buffer"
  /\ ToSet(buf) \cup ToSet(flush.rows) \cup UNION {ToSet(w) : w \in ToSet(wire)} \subseteq RowType
  /\ flush.at \in {"idle", "send", "back"}
  /\ conn \in {"up", "lost", "none"}
  /\ day \in 1..MaxDays /\ lastAlertDay \in 0..MaxDays /\ alerted \subseteq 1..MaxDays
  /\ \A h \in Handlers : check[h].at \in {"rest", "date", "already", "sum", "mark"}
  /\ others \in 0..MaxOther /\ faults \in 0..MaxFaults

Init ==
  /\ got = [r \in Requests |-> 0]
  /\ parser = [r \in Requests |-> [partial |-> <<>>, row |-> NoUsage]]
  /\ at = [r \in Requests |-> "read"] /\ held = [r \in Requests |-> <<>>]
  /\ buf = <<>> /\ flush = [at |-> "idle", rows |-> <<>>]
  /\ conn = "none" /\ wire = <<>> /\ lost = {}
  /\ day = 1 /\ ledger = {} /\ others = 0
  /\ check = [h \in Handlers |-> [at |-> "rest", day |-> 1]]
  /\ lastAlertDay = 0 /\ alerted = {} /\ faults = 0

Fault == faults < MaxFaults /\ faults' = faults + 1

-----------------------------------------------------------------------------
(* The proxy.                                                              *)

\* consumeEvent.  Anthropic's message_start has the id and a first count, a
\* message_delta the output so far; OpenAI's chunks have the id, the last one
\* the usage.
Consume(row, e) ==
  LET counts == e.type \in {"start", "usage"} \/ (e.type = "delta" /\ e.out > 0)
  IN  [key |-> row.key \/ e.type # "delta",
       out |-> IF counts THEN e.out ELSE row.out,
       saw |-> row.saw \/ counts]

\* A line is an event; half of one does not parse.
ConsumeLine(r, row, line) ==
  IF Len(line) = 2 THEN Consume(row, Script[r][line[2] \div 2]) ELSE row

\* MUTANT: every read starts a new line.
FeedAfresh(r, text) ==
  [partial |-> <<>>,
   row     |-> FoldLeft(LAMBDA row, line : ConsumeLine(r, row, line), parser[r].row, Split(text).lines)]

Feed(r, text) ==
  LET split == Split(parser[r].partial \o text)
  IN  [partial |-> split.rest,
       row     |-> FoldLeft(LAMBDA row, line : ConsumeLine(r, row, line), parser[r].row, split.lines)]

\* handle: a read of any length, passed on and fed to the parser.
Read(r) ==
  /\ at[r] = "read"
  /\ \E n \in (got[r] + 1)..(2 * Len(Script[r])) :
       /\ got' = [got EXCEPT ![r] = n]
       /\ parser' = [parser EXCEPT ![r] = Feed(r, [i \in 1..(n - got[r]) |-> got[r] + i])]
  /\ UNCHANGED <<at, held, agent, hub, faults>>

\* emitTokenRows.  On a closed connection Send fails or queues for nobody.
Emits(rows)   == /\ conn # "none"
                 /\ IF conn = "up" THEN wire' = Append(wire, rows) /\ UNCHANGED lost
                    ELSE lost' = lost \cup {row.req : row \in ToSet(rows)} /\ UNCHANGED wire
NotEmitted    == conn # "up" /\ UNCHANGED <<wire, lost>>

\* The body ends, breaks off or the client leaves; result decides on the row.
Finish(r) ==
  /\ at[r] = "read"
  /\ IF parser[r].row.key /\ parser[r].row.saw
       THEN \/ Emits(<<Row(r)>>) /\ at' = [at EXCEPT ![r] = "done"] /\ UNCHANGED held
            \/ NotEmitted /\ at' = [at EXCEPT ![r] = "buffer"] /\ held' = [held EXCEPT ![r] = <<Row(r)>>]
       ELSE at' = [at EXCEPT ![r] = "done"] /\ UNCHANGED <<held, wire, lost>>
  /\ UNCHANGED <<got, parser, buf, flush, conn, hub, faults>>

\* queueProxyRows appends and applies the cap.
Queue(r) ==
  /\ at[r] = "buffer" /\ at' = [at EXCEPT ![r] = "done"] /\ held' = [held EXCEPT ![r] = <<>>]
  /\ LET more == buf \o held[r]
         over == Len(more) - BufferCap
     IN  /\ buf' = IF over > 0 THEN SubSeq(more, over + 1, Len(more)) ELSE more
         /\ lost' = IF over > 0 THEN lost \cup {more[i].req : i \in 1..over} ELSE lost
  /\ UNCHANGED <<got, parser, flush, conn, wire, hub, faults>>

\* flushProxyRows, on the metrics cadence.
FlushTakes ==
  /\ flush.at = "idle" /\ buf # <<>>
  /\ flush' = [at |-> "send", rows |-> buf] /\ buf' = <<>>
  /\ UNCHANGED <<meter, conn, wire, lost, hub, faults>>

FlushSends ==
  /\ flush.at = "send"
  /\ \/ Emits(flush.rows) /\ flush' = [at |-> "idle", rows |-> <<>>]
     \/ NotEmitted /\ flush' = [flush EXCEPT !.at = "back"]
  /\ UNCHANGED <<meter, buf, conn, hub, faults>>

\* MUTANT: rows queued since the buffer was taken are overwritten.
PutBackAlone == flush.rows

\* They go before what was queued meanwhile, and the cap is not applied.
PutBack == flush.rows \o buf

FlushReturns ==
  /\ flush.at = "back" /\ flush' = [at |-> "idle", rows |-> <<>>]
  /\ buf' = PutBack
  /\ UNCHANGED <<meter, conn, wire, lost, hub, faults>>

Connect ==
  /\ conn = "none" /\ conn' = "up"
  /\ UNCHANGED <<meter, buf, flush, wire, lost, hub, faults>>

Break ==
  /\ Fault /\ conn = "up" /\ conn' = "lost"
  /\ wire' = <<>> /\ lost' = lost \cup {row.req : row \in UNION {ToSet(wire[i]) : i \in DOMAIN wire}}
  /\ UNCHANGED <<meter, buf, flush, hub>>

NoticeLoss ==
  /\ conn = "lost" /\ conn' = "none"
  /\ UNCHANGED <<meter, buf, flush, wire, lost, hub, faults>>

-----------------------------------------------------------------------------
(* The ledger.                                                             *)

\* lookup: the exact name, else its longest prefix of two parts or more.
Priced(model) ==
  LET hits == {n \in 2..(Len(model) - 1) : SubSeq(model, 1, n) \in DOMAIN Prices}
  IN  IF model \in DOMAIN Prices THEN Prices[model]
      ELSE IF hits = {} THEN 0 ELSE Prices[SubSeq(model, 1, Max(hits))]

Cost(row) == Priced(Model[row.req]) * row.out

Midnight ==
  /\ day < MaxDays /\ day' = day + 1
  /\ UNCHANGED <<meter, agent, ledger, others, check, lastAlertDay, alerted, faults>>

Checks(h, from, to) == check[h].at = from /\ check' = [check EXCEPT ![h].at = to]

\* Ingest: one transaction, then the threshold.  Each response has its own
\* dedup key.
Ingest ==
  /\ wire # <<>> /\ wire' = Tail(wire)
  /\ \/ /\ Checks("agent", "rest", "date")
        /\ ledger' = ledger \cup {[of |-> row.req, cost |-> Cost(row), day |-> row.day] : row \in ToSet(Head(wire))}
        /\ UNCHANGED <<lost, faults>>
     \/ /\ Fault /\ check["agent"].at = "rest"
        /\ lost' = lost \cup {row.req : row \in ToSet(Head(wire))}
        /\ UNCHANGED <<check, ledger>>
  /\ UNCHANGED <<meter, buf, flush, conn, day, others, lastAlertDay, alerted>>

\* A row of another agent, for one token at price one.
IngestOther ==
  /\ others < MaxOther /\ others' = others + 1
  /\ Checks("other", "rest", "date")
  /\ ledger' = ledger \cup {[of |-> others', cost |-> 1, day |-> day]}
  /\ UNCHANGED <<meter, agent, day, lastAlertDay, alerted, faults>>

\* MUTANT: one alert for good.
EverAlerted(h) == lastAlertDay # 0

\* The alert of the day has been sent.
Already(h) == lastAlertDay = check[h].day

\* checkSpendThreshold takes the date; the lock only guards each access.
CheckDate(h) ==
  /\ check[h].at = "date" /\ check' = [check EXCEPT ![h] = [at |-> "already", day |-> day]]
  /\ UNCHANGED <<meter, agent, day, ledger, others, lastAlertDay, alerted, faults>>

CheckAlready(h) ==
  /\ Checks(h, "already", IF Already(h) THEN "rest" ELSE "sum")
  /\ UNCHANGED <<meter, agent, day, ledger, others, lastAlertDay, alerted, faults>>

Total(rows) == MapThenSumSet(LAMBDA row : row.cost, rows)
Spent(d) == Total({row \in ledger : row.day >= d})

CheckSum(h) ==
  /\ Checks(h, "sum", IF Spent(check[h].day) < Threshold THEN "rest" ELSE "mark")
  /\ UNCHANGED <<meter, agent, day, ledger, others, lastAlertDay, alerted, faults>>

\* The mark is set, and the alert sent, whether or not it arrives.
CheckMarks(h) ==
  /\ Checks(h, "mark", "rest")
  /\ lastAlertDay' = check[h].day /\ alerted' = alerted \cup {check[h].day}
  /\ UNCHANGED <<meter, agent, day, ledger, others, faults>>

Next ==
  \/ \E r \in Requests : Read(r) \/ Finish(r) \/ Queue(r)
  \/ FlushTakes \/ FlushSends \/ FlushReturns
  \/ Connect \/ Break \/ NoticeLoss
  \/ Midnight \/ Ingest \/ IngestOther
  \/ \E h \in Handlers : CheckDate(h) \/ CheckAlready(h) \/ CheckSum(h) \/ CheckMarks(h)

Spec == Init /\ [][Next]_vars

-----------------------------------------------------------------------------
(* Properties.                                                             *)

\* What is metered of a response does not depend on where its reads were cut:
\* it is what the events read so far say (sseParser.feed, consumeEvent).
ParsedAsWhole ==
  \A r \in Requests :
    parser[r].row = FoldLeft(Consume, NoUsage, SubSeq(Script[r], 1, got[r] \div 2))

\* A finished response's usage is in one place: with its handler, buffered, in
\* a flush, under way, in the ledger, or given up (queueProxyRows,
\* flushProxyRows running at the same time).
Places(r) ==
  LET has(rows) == {i \in DOMAIN rows : rows[i].req = r}
  IN  Cardinality(has(buf)) + Cardinality(has(flush.rows))
      + Cardinality(UNION {{i} \X has(wire[i]) : i \in DOMAIN wire})
      + Cardinality({x \in ledger : x.of = r})
      + (IF r \in lost THEN 1 ELSE 0) + (IF at[r] = "buffer" THEN 1 ELSE 0)
MeteredOnce ==
  \A r \in Requests :
    Places(r) = IF at[r] # "read" /\ parser[r].row.key /\ parser[r].row.saw THEN 1 ELSE 0

\* Once no check is running, a day whose spend has reached the threshold has
\* had its alert, however the ingests of several agents and midnight
\* interleave (checkSpendThreshold).
CrossingIsAlerted ==
  (\A h \in Handlers : check[h].at = "rest") /\ Spent(day) >= Threshold => day \in alerted
=============================================================================
