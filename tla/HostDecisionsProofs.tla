------------------------- MODULE HostDecisionsProofs ------------------------
(***************************************************************************)
(* What HostDecisions' run checks of the host's decisions, proved for any  *)
(* number of apps, definitions, requests, operations, crashes and broken   *)
(* connections: every operation of the CLI is waiting, applied or lost in  *)
(* a crash, in order; what the hub shows as approved was consented to; and *)
(* once nothing is under way, it shows what the host decided last.         *)
(***************************************************************************)
EXTENDS HostDecisions, SequenceTheorems, FiniteSetTheorems, TLAPS

-----------------------------------------------------------------------------
(* The operations of the CLI.                                              *)

Fates == {"given", "done", "lost"}

\* The queue q holds the operations that are still given, in the order they
\* were given, after all that were done; an import that was applied counts for
\* its hash, so no hash has been counted more often than operations precede
\* the queue.
Accounts(q, fates, counts) ==
  /\ \A i \in 1..Len(q) : q[i].n \in 1..Len(fates) /\ fates[q[i].n] = "given"
  /\ \A n \in 1..Len(fates) : fates[n] = "given" => \E i \in 1..Len(q) : q[i].n = n
  /\ \A i, j \in 1..Len(q) : i < j => q[i].n < q[j].n
  /\ \A n \in 1..Len(fates), i \in 1..Len(q) : fates[n] = "done" => n < q[i].n
  /\ \A h \in Hashes : counts[h] \in 0..Len(fates)
  /\ \A h \in Hashes, i \in 1..Len(q) : counts[h] < q[i].n

(* A new operation goes to the end.                                        *)
LEMMA Enqueued ==
  ASSUME NEW q \in Seq(Ops), NEW fates \in Seq(Fates), NEW counts, NEW op \in Ops,
         Accounts(q, fates, counts), op.n = Len(fates) + 1
  PROVE  Accounts(Append(q, op), Append(fates, "given"), counts)
<1> DEFINE p == Append(q, op)
           new == Append(fates, "given")
<1>1. Len(p) = Len(q) + 1 /\ Len(new) = Len(fates) + 1 /\ Len(q) \in Nat /\ Len(fates) \in Nat
  OBVIOUS
<1>2. p[Len(q) + 1] = op /\ \A i \in 1..Len(q) : p[i] = q[i]
  OBVIOUS
<1>3. new[Len(fates) + 1] = "given" /\ \A n \in 1..Len(fates) : new[n] = fates[n]
  OBVIOUS
<1> HIDE DEF p, new
<1>4. ASSUME NEW i \in 1..Len(p)
      PROVE  \/ i \in 1..Len(q) /\ p[i] = q[i]
             \/ i = Len(q) + 1 /\ p[i].n = Len(fates) + 1
  BY <1>1, <1>2
<1>5. \A i \in 1..Len(q) : q[i].n \in 1..Len(fates)
  BY DEF Accounts
<1>6. \A i \in 1..Len(p) : p[i].n \in 1..Len(new) /\ new[p[i].n] = "given"
  BY <1>1, <1>3, <1>4 DEF Accounts
<1>7. \A n \in 1..Len(new) : new[n] = "given" => \E i \in 1..Len(p) : p[i].n = n
  <2> SUFFICES ASSUME NEW n \in 1..Len(new), new[n] = "given" PROVE \E i \in 1..Len(p) : p[i].n = n
    OBVIOUS
  <2>1. CASE n \in 1..Len(fates)
    <3>1. PICK i \in 1..Len(q) : q[i].n = n
      BY <1>3, <2>1 DEF Accounts
    <3>2. i \in 1..Len(p) /\ p[i] = q[i]
      BY <1>1, <1>2
    <3>3. QED BY <3>1, <3>2
  <2>2. CASE n = Len(fates) + 1
    BY <1>1, <1>2, <2>2
  <2>3. QED BY <1>1, <2>1, <2>2
<1>8. \A i, j \in 1..Len(p) : i < j => p[i].n < p[j].n
  <2> SUFFICES ASSUME NEW i \in 1..Len(p), NEW j \in 1..Len(p), i < j PROVE p[i].n < p[j].n
    OBVIOUS
  <2>1. i \in 1..Len(q) /\ p[i] = q[i]
    BY <1>1, <1>2
  <2>2. QED BY <1>1, <1>4, <1>5, <2>1 DEF Accounts
<1>9. \A n \in 1..Len(new), i \in 1..Len(p) : new[n] = "done" => n < p[i].n
  <2> SUFFICES ASSUME NEW n \in 1..Len(new), NEW i \in 1..Len(p), new[n] = "done" PROVE n < p[i].n
    OBVIOUS
  <2>1. n \in 1..Len(fates) /\ fates[n] = "done"
    BY <1>1, <1>3
  <2>2. QED BY <1>1, <1>4, <2>1 DEF Accounts
<1>10. \A h \in Hashes : counts[h] \in 0..Len(new)
  BY <1>1 DEF Accounts
<1>11. \A h \in Hashes, i \in 1..Len(p) : counts[h] < p[i].n
  <2> SUFFICES ASSUME NEW h \in Hashes, NEW i \in 1..Len(p) PROVE counts[h] < p[i].n
    OBVIOUS
  <2>1. counts[h] \in 0..Len(fates) /\ \A j \in 1..Len(q) : counts[h] < q[j].n
    BY DEF Accounts
  <2>2. QED BY <1>1, <1>4, <2>1
<1>12. Accounts(p, new, counts)
  BY <1>6, <1>7, <1>8, <1>9, <1>10, <1>11 DEF Accounts
<1>13. QED BY <1>12 DEF p, new

(* The first operation is applied; an import counts for its hash once.     *)
LEMMA Applied ==
  ASSUME NEW q \in Seq(Ops), q # <<>>, NEW fates \in Seq(Fates), NEW counts, NEW later,
         Accounts(q, fates, counts),
         \A h \in Hashes : later[h] \in {counts[h], counts[h] + 1}
  PROVE  Accounts(Tail(q), [fates EXCEPT ![Head(q).n] = "done"], later)
<1> DEFINE p == Tail(q)
           n0 == q[1].n
           new == [fates EXCEPT ![n0] = "done"]
<1>1. Len(q) \in Nat /\ Len(q) > 0 /\ Len(p) = Len(q) - 1 /\ \A i \in 1..Len(p) : p[i] = q[i + 1]
  BY HeadTailProperties, EmptySeq
<1>2. n0 \in 1..Len(fates) /\ fates[n0] = "given" /\ Head(q) = q[1]
  BY <1>1 DEF Accounts
<1>3. /\ Len(new) = Len(fates) /\ Len(fates) \in Nat
      /\ \A n \in 1..Len(fates) : new[n] = IF n = n0 THEN "done" ELSE fates[n]
  BY <1>2, ExceptSeq DEF Fates
<1>4. \A i \in 1..Len(p) : i + 1 \in 1..Len(q) /\ n0 < p[i].n
  BY <1>1 DEF Accounts
<1> HIDE DEF p, new
<1>5. \A i \in 1..Len(p) : p[i].n \in 1..Len(new) /\ new[p[i].n] = "given"
  <2> SUFFICES ASSUME NEW i \in 1..Len(p) PROVE p[i].n \in 1..Len(new) /\ new[p[i].n] = "given"
    OBVIOUS
  <2>1. PICK j \in 1..Len(q) : p[i] = q[j]
    BY <1>1, <1>4
  <2>2. q[j].n \in 1..Len(fates) /\ fates[q[j].n] = "given" /\ n0 < q[j].n
    BY <1>4, <2>1 DEF Accounts
  <2>3. QED BY <1>2, <1>3, <2>1, <2>2
<1>6. ASSUME NEW n \in 1..Len(new), new[n] = "given" PROVE \E i \in 1..Len(p) : p[i].n = n
  <2>1. fates[n] = "given" /\ n # n0
    BY <1>3, <1>6
  <2>2. PICK i \in 1..Len(q) : q[i].n = n
    BY <1>3, <2>1 DEF Accounts
  <2>3. i - 1 \in 1..Len(p) /\ p[i - 1] = q[i]
    BY <1>1, <2>1, <2>2
  <2>4. QED BY <2>2, <2>3
<1>7. \A i, j \in 1..Len(p) : i < j => p[i].n < p[j].n
  <2> SUFFICES ASSUME NEW i \in 1..Len(p), NEW j \in 1..Len(p), i < j PROVE p[i].n < p[j].n
    OBVIOUS
  <2>1. i + 1 \in 1..Len(q) /\ j + 1 \in 1..Len(q) /\ i + 1 < j + 1
    BY <1>4
  <2>2. q[i + 1].n < q[j + 1].n
    BY <2>1 DEF Accounts
  <2>3. QED BY <1>1, <2>2
<1>8. \A n \in 1..Len(new), i \in 1..Len(p) : new[n] = "done" => n < p[i].n
  <2> SUFFICES ASSUME NEW n \in 1..Len(new), NEW i \in 1..Len(p), new[n] = "done" PROVE n < p[i].n
    OBVIOUS
  <2>1. n = n0 \/ (n \in 1..Len(fates) /\ fates[n] = "done")
    BY <1>3
  <2>2. PICK j \in 1..Len(q) : p[i] = q[j]
    BY <1>1, <1>4
  <2>3. QED BY <1>4, <2>1, <2>2 DEF Accounts
<1>9. \A h \in Hashes : later[h] \in 0..Len(new)
  <2> SUFFICES ASSUME NEW h \in Hashes PROVE later[h] \in 0..Len(new)
    OBVIOUS
  <2>1. 1 \in 1..Len(q)
    BY <1>1
  <2>2. counts[h] \in 0..Len(fates) /\ counts[h] < n0
    BY <2>1 DEF Accounts
  <2>3. QED BY <1>2, <1>3, <2>2
<1>10. \A h \in Hashes, i \in 1..Len(p) : later[h] < p[i].n
  <2> SUFFICES ASSUME NEW h \in Hashes, NEW i \in 1..Len(p) PROVE later[h] < p[i].n
    OBVIOUS
  <2>1. counts[h] \in Int /\ counts[h] < n0
    BY <1>1, <1>3 DEF Accounts
  <2>2. p[i].n \in Int /\ n0 < p[i].n /\ n0 \in Int
    BY <1>2, <1>3, <1>4, <1>5
  <2>3. QED BY <2>1, <2>2
<1>11. QED BY <1>2, <1>5, <1>6, <1>7, <1>8, <1>9, <1>10 DEF Accounts, p, new

(* A crash loses the operations that had been read and not applied, and    *)
(* what the agent only counted in memory.                                  *)
LEMMA Crashed ==
  ASSUME NEW d \in Seq(Ops), NEW s \in Seq(Ops), NEW fates \in Seq(Fates), NEW counts,
         Accounts(d \o s, fates, counts)
  PROVE  Accounts(s, [n \in DOMAIN fates |->
                        IF \E i \in DOMAIN d : d[i].n = n THEN "lost" ELSE fates[n]],
                  [h \in Hashes |-> 0])
<1> DEFINE q == d \o s
           new == [n \in DOMAIN fates |-> IF \E i \in DOMAIN d : d[i].n = n THEN "lost" ELSE fates[n]]
<1>1. /\ Len(d) \in Nat /\ Len(s) \in Nat /\ Len(q) = Len(d) + Len(s) /\ DOMAIN d = 1..Len(d)
      /\ \A i \in 1..Len(d) : q[i] = d[i]
      /\ \A i \in 1..Len(s) : q[Len(d) + i] = s[i]
  BY ConcatProperties
<1>2. new \in Seq(Fates) /\ Len(new) = Len(fates) /\ Len(fates) \in Nat /\ DOMAIN fates = 1..Len(fates)
  BY LenProperties DEF Fates
<1>3. \A n \in 1..Len(fates) : new[n] = IF \E i \in 1..Len(d) : d[i].n = n THEN "lost" ELSE fates[n]
  BY <1>1, <1>2
<1> HIDE DEF q, new
<1>4. Accounts(q, fates, counts)
  BY DEF q
<1>5. \A i \in 1..Len(s), j \in 1..Len(d) : d[j].n # s[i].n
  <2> SUFFICES ASSUME NEW i \in 1..Len(s), NEW j \in 1..Len(d) PROVE d[j].n # s[i].n
    OBVIOUS
  <2>1. q[j].n < q[Len(d) + i].n
    BY <1>1, <1>4 DEF Accounts
  <2>2. q[j].n \in Int
    BY <1>1, <1>2, <1>4 DEF Accounts
  <2>3. QED BY <1>1, <2>1, <2>2
<1>6. \A i \in 1..Len(s) : Len(d) + i \in 1..Len(q) /\ q[Len(d) + i] = s[i]
  BY <1>1
<1>7. \A i \in 1..Len(s) : s[i].n \in 1..Len(new) /\ new[s[i].n] = "given"
  <2> SUFFICES ASSUME NEW i \in 1..Len(s) PROVE s[i].n \in 1..Len(new) /\ new[s[i].n] = "given"
    OBVIOUS
  <2>1. s[i].n \in 1..Len(fates) /\ fates[s[i].n] = "given"
    BY <1>4, <1>6 DEF Accounts
  <2>2. ~\E j \in 1..Len(d) : d[j].n = s[i].n
    BY <1>5
  <2>3. new[s[i].n] = fates[s[i].n]
    BY <1>3, <2>1, <2>2
  <2>4. QED BY <1>2, <2>1, <2>3
<1>8. ASSUME NEW n \in 1..Len(new), new[n] = "given" PROVE \E i \in 1..Len(s) : s[i].n = n
  <2>1. fates[n] = "given" /\ \A j \in 1..Len(d) : d[j].n # n
    BY <1>2, <1>3, <1>8
  <2>2. PICK i \in 1..Len(q) : q[i].n = n
    BY <1>2, <1>4, <2>1 DEF Accounts
  <2>3. i \notin 1..Len(d)
    BY <1>1, <2>1, <2>2
  <2>4. PICK j \in 1..Len(s) : i = Len(d) + j
    <3>1. i - Len(d) \in 1..Len(s) /\ i = Len(d) + (i - Len(d))
      BY <1>1, <2>3
    <3>2. QED BY <3>1
  <2>5. QED BY <1>6, <2>2, <2>4
<1>9. \A i, j \in 1..Len(s) : i < j => s[i].n < s[j].n
  <2> SUFFICES ASSUME NEW i \in 1..Len(s), NEW j \in 1..Len(s), i < j PROVE s[i].n < s[j].n
    OBVIOUS
  <2>1. Len(d) + i \in 1..Len(q) /\ Len(d) + j \in 1..Len(q) /\ Len(d) + i < Len(d) + j
    BY <1>1
  <2>2. q[Len(d) + i].n < q[Len(d) + j].n
    BY <1>4, <2>1 DEF Accounts
  <2>3. QED BY <1>6, <2>2
<1>10. \A n \in 1..Len(new), i \in 1..Len(s) : new[n] = "done" => n < s[i].n
  <2> SUFFICES ASSUME NEW n \in 1..Len(new), NEW i \in 1..Len(s), new[n] = "done" PROVE n < s[i].n
    OBVIOUS
  <2>1. n \in 1..Len(fates) /\ fates[n] = "done"
    BY <1>2, <1>3
  <2>2. QED BY <1>4, <1>6, <2>1 DEF Accounts
<1>11. \A i \in 1..Len(s) : 0 < s[i].n
  BY <1>2, <1>7
<1>12. 0 \in 0..Len(new)
  BY <1>2
<1>13. Accounts(s, new, [h \in Hashes |-> 0])
  BY <1>7, <1>8, <1>9, <1>10, <1>11, <1>12 DEF Accounts
<1>14. QED BY <1>13 DEF new

(* What reading the spool directory, applying the first operation and      *)
(* giving a new one do to the operations that wait.                        *)
LEMMA WaitingSequences ==
  ASSUME NEW d \in Seq(Ops), NEW s \in Seq(Ops)
  PROVE  /\ d \o s \in Seq(Ops)
         /\ d # <<>> => /\ Tail(d) \in Seq(Ops) /\ d \o s # <<>>
                        /\ Head(d \o s) = Head(d) /\ Tail(d \o s) = Tail(d) \o s
         /\ \A op \in Ops : Append(s, op) \in Seq(Ops) /\ d \o Append(s, op) = Append(d \o s, op)
         /\ \A n \in 1..Len(s) :
              /\ SubSeq(s, 1, n) \in Seq(Ops) /\ SubSeq(s, n + 1, Len(s)) \in Seq(Ops)
              /\ SubSeq(s, 1, n) \o SubSeq(s, n + 1, Len(s)) = s
<1>1. d \o s \in Seq(Ops)
  BY ConcatProperties
<1>2. ASSUME d # <<>>
      PROVE  /\ Tail(d) \in Seq(Ops) /\ d \o s # <<>>
             /\ Head(d \o s) = Head(d) /\ Tail(d \o s) = Tail(d) \o s
  <2>1. /\ Len(d) \in Nat /\ Len(d) > 0 /\ Len(s) \in Nat /\ Len(d \o s) = Len(d) + Len(s)
        /\ \A i \in 1..Len(d) + Len(s) : (d \o s)[i] = IF i <= Len(d) THEN d[i] ELSE s[i - Len(d)]
    BY <1>2, ConcatProperties, EmptySeq
  <2>2. /\ d \o s # <<>> /\ Head(d \o s) = (d \o s)[1] /\ Head(d) = d[1]
        /\ Tail(d) \in Seq(Ops) /\ Len(Tail(d)) = Len(d) - 1
        /\ \A i \in 1..Len(Tail(d)) : Tail(d)[i] = d[i + 1]
    BY <1>1, <1>2, <2>1, HeadTailProperties, EmptySeq
  <2>3. /\ Tail(d \o s) \in Seq(Ops) /\ Len(Tail(d \o s)) = Len(d) + Len(s) - 1
        /\ \A i \in 1..Len(Tail(d \o s)) : Tail(d \o s)[i] = (d \o s)[i + 1]
    BY <1>1, <2>1, <2>2, HeadTailProperties
  <2>4. /\ Tail(d) \o s \in Seq(Ops) /\ Len(Tail(d) \o s) = Len(d) - 1 + Len(s)
        /\ \A i \in 1..Len(d) - 1 + Len(s) :
             (Tail(d) \o s)[i] = IF i <= Len(d) - 1 THEN Tail(d)[i] ELSE s[i - (Len(d) - 1)]
    BY <2>2, ConcatProperties
  <2>5. ASSUME NEW i \in 1..Len(Tail(d \o s)) PROVE Tail(d \o s)[i] = (Tail(d) \o s)[i]
    <3>1. i \in 1..Len(d) - 1 + Len(s) /\ i + 1 \in 1..Len(d) + Len(s)
      BY <2>1, <2>3
    <3>2. CASE i <= Len(d) - 1
      <4>1. Tail(d \o s)[i] = d[i + 1]
        BY <2>1, <2>3, <3>1, <3>2
      <4>2. (Tail(d) \o s)[i] = d[i + 1]
        BY <2>1, <2>2, <2>4, <3>1, <3>2
      <4>3. QED BY <4>1, <4>2
    <3>3. CASE ~(i <= Len(d) - 1)
      <4>1. Tail(d \o s)[i] = s[i + 1 - Len(d)]
        BY <2>1, <2>3, <3>1, <3>3
      <4>2. (Tail(d) \o s)[i] = s[i - (Len(d) - 1)]
        BY <2>1, <2>4, <3>1, <3>3
      <4>3. i + 1 - Len(d) = i - (Len(d) - 1)
        BY <2>1, <3>1
      <4>4. QED BY <4>1, <4>2, <4>3
    <3>4. QED BY <3>2, <3>3
  <2>6. Tail(d \o s) = Tail(d) \o s
    BY <2>1, <2>3, <2>4, <2>5, SeqEqual
  <2>7. QED
    BY <2>1, <2>2, <2>6
<1>3. ASSUME NEW op \in Ops
      PROVE  Append(s, op) \in Seq(Ops) /\ d \o Append(s, op) = Append(d \o s, op)
  <2>1. Append(s, op) \in Seq(Ops) /\ Append(s, op) = s \o <<op>> /\ <<op>> \in Seq(Ops)
    OBVIOUS
  <2>2. Append(d \o s, op) = (d \o s) \o <<op>>
    BY <1>1
  <2>3. QED BY <2>1, <2>2, ConcatAssociative
<1>4. ASSUME NEW n \in 1..Len(s)
      PROVE  /\ SubSeq(s, 1, n) \in Seq(Ops) /\ SubSeq(s, n + 1, Len(s)) \in Seq(Ops)
             /\ SubSeq(s, 1, n) \o SubSeq(s, n + 1, Len(s)) = s
  <2>1. Len(s) \in Nat /\ \A i \in 1..Len(s) : s[i] \in Ops
    BY ElementOfSeq, LenProperties
  <2>2. /\ SubSeq(s, 1, n) \in Seq(Ops) /\ Len(SubSeq(s, 1, n)) = n
        /\ \A i \in 1..n : SubSeq(s, 1, n)[i] = s[i]
    BY <2>1, SubSeqProperties
  <2>3. /\ SubSeq(s, n + 1, Len(s)) \in Seq(Ops) /\ Len(SubSeq(s, n + 1, Len(s))) = Len(s) - n
        /\ \A i \in 1..Len(s) - n : SubSeq(s, n + 1, Len(s))[i] = s[n + i]
    BY <2>1, SubSeqProperties
  <2>4. QED BY <2>1, <2>2, <2>3, ConcatProperties, SeqEqual
<1>5. QED BY <1>1, <1>2, <1>3, <1>4

-----------------------------------------------------------------------------
(* Type correctness, and the account of the operations.                    *)

Frames == Events \cup [register : Hashes]

HubOK   == hub \in Tables /\ work \in [Workers -> Works]
WiresOK == link \in BOOLEAN /\ down \in Seq(Tables) /\ up \in Seq(Frames)
AgentOK == local \in Tables /\ sending \subseteq Events /\ preApproved \in [Hashes -> Nat]
CliOK   == spool \in Seq(Ops) /\ drained \in Seq(Ops) /\ fate \in Seq(Fates) /\ Len(fate) <= MaxOps
HistOK  == consented \subseteq Hashes /\ astray \subseteq Apps
BoundsOK == edits \in 0..MaxEdits /\ faults \in 0..MaxFaults

AccountInv == Accounts(drained \o spool, fate, preApproved)

TypeInv == HubOK /\ WiresOK /\ AgentOK /\ CliOK /\ HistOK /\ BoundsOK /\ AccountInv

(* What a worker is doing, a frame and an operation carry what their kind  *)
(* needs.                                                                  *)
LEMMA Kinds ==
  /\ \A s \in Works : s.at = "save" => s.app \in Apps /\ s.was \in Rows \cup {None} /\ s.new \in Rows
  /\ \A s \in Works : s.at = "send" => s.rows \in Tables
  /\ \A f \in Frames : "app" \in DOMAIN f => f \in Events
  /\ \A f \in Frames : "register" \in DOMAIN f => f.register \in Hashes
  /\ \A op \in Ops : op.op = "import" => op.hash \in Hashes
  /\ \A op \in Ops : op.op # "import" => op.app \in Apps
<1>1. \A s \in Works : s.at = "save" => s.app \in Apps /\ s.was \in Rows \cup {None} /\ s.new \in Rows
  BY DEF Works, Nothing, ToSync
<1>2. \A s \in Works : s.at = "send" => s.rows \in Tables
  BY DEF Works, Nothing, ToSync
<1>3. \A f \in Frames : "app" \in DOMAIN f => f \in Events
  BY DEF Frames
<1>4. \A f \in Frames : "register" \in DOMAIN f => f.register \in Hashes
  BY DEF Frames, Events
<1>5. \A op \in Ops : op.op = "import" => op.hash \in Hashes
  BY DEF Ops
<1>6. \A op \in Ops : op.op # "import" => op.app \in Apps
  BY DEF Ops
<1>7. QED BY <1>1, <1>2, <1>3, <1>4, <1>5, <1>6

(* So do the ones the code builds.                                         *)
LEMMA Built ==
  /\ Nothing \in Works /\ ToSync \in Works
  /\ \A rows \in Tables : Syncing(rows) \in Works
  /\ \A a \in Apps, was \in Rows \cup {None}, new \in Rows : Saving(a, was, new) \in Works
  /\ \A h \in Hashes : [register |-> h] \in Frames
  /\ \A n \in 1..MaxOps, a \in Apps, o \in {"approve", "reject"} : [n |-> n, op |-> o, app |-> a] \in Ops
  /\ \A n \in 1..MaxOps, h \in Hashes : [n |-> n, op |-> "import", hash |-> h] \in Ops
BY DEF Works, Nothing, ToSync, Syncing, Saving, Frames, Ops

(* A queue that loses its first, or gets one more, is a queue.             *)
LEMMA Queues ==
  ASSUME NEW S, NEW q \in Seq(S)
  PROVE  /\ q # <<>> => Head(q) \in S /\ Tail(q) \in Seq(S)
         /\ \A x \in S : Append(q, x) \in Seq(S)
OBVIOUS

(* The steps of the hub keep the types.                                    *)
LEMMA HubStepTypes ==
  ASSUME TypeInv,
         \/ \E q \in Requests, a \in Apps, h \in Hashes : FindForEdit(q, a, h)
         \/ \E w \in Workers : Save(w) \/ ReadRows(w) \/ SendRows(w)
         \/ HearEvent \/ HearRegister
  PROVE  TypeInv'
<1> USE DEF TypeInv
<1>1. ASSUME NEW q \in Requests, NEW a \in Apps, NEW h \in Hashes, FindForEdit(q, a, h)
      PROVE  HubOK' /\ WiresOK' /\ astray' \subseteq Apps
  <2> DEFINE row == hub[a]
             keep == row # None /\ row.hash = h
             new == [hash |-> h, approval |-> IF keep THEN row.approval ELSE "pending"]
  <2>1. row \in Rows \cup {None} /\ new \in Rows
    BY DEF HubOK, Tables, Rows, Approvals
  <2>2. Saving(a, row, new) \in Works
    BY <2>1, Built
  <2>3. UNCHANGED <<hub, link, down, up, astray>> /\ work' = [work EXCEPT ![q] = Saving(a, row, new)]
    BY <1>1 DEF FindForEdit, Does, wires
  <2> HIDE DEF new
  <2>4. QED BY <2>2, <2>3 DEF HubOK, WiresOK, HistOK
<1>2. ASSUME NEW w \in Workers, Save(w) PROVE HubOK' /\ WiresOK' /\ astray' \subseteq Apps
  <2>1. work[w] \in Works /\ work[w].at = "save"
    BY <1>2 DEF Save, HubOK
  <2>2. work[w].app \in Apps /\ work[w].was \in Rows \cup {None} /\ work[w].new \in Rows
    BY <2>1, Kinds
  <2>3. Written(work[w].app, work[w].was, work[w].new) \subseteq Rows
    BY <2>2 DEF Written, HubOK, Tables, Rows
  <2>4. UNCHANGED <<link, down, up>> /\ work' \in [Workers -> Works]
    BY <1>2, Built DEF Save, Does, wires, HubOK
  <2>5. hub' \in Tables /\ astray' \subseteq Apps
    BY <1>2, <2>2, <2>3 DEF Save, HubOK, HistOK, Tables
  <2>6. QED BY <2>4, <2>5 DEF HubOK, WiresOK
<1>3. ASSUME NEW w \in Workers, ReadRows(w) PROVE HubOK' /\ WiresOK' /\ astray' \subseteq Apps
  BY <1>3, Built DEF ReadRows, Does, wires, HubOK, WiresOK, HistOK
<1>4. ASSUME NEW w \in Workers, SendRows(w) PROVE HubOK' /\ WiresOK' /\ astray' \subseteq Apps
  <2>1. work[w].rows \in Tables
    BY <1>4, Kinds DEF SendRows, HubOK
  <2>2. down' \in Seq(Tables)
    BY <1>4, <2>1, Queues DEF SendRows, WiresOK
  <2>3. QED BY <1>4, <2>2, Built DEF SendRows, Does, HubOK, WiresOK, HistOK
<1>5. ASSUME HearEvent PROVE HubOK' /\ WiresOK' /\ astray' \subseteq Apps
  <2>1. Head(up) \in Events /\ Tail(up) \in Seq(Frames)
    BY <1>5, Queues, Kinds DEF HearEvent, WiresOK
  <2> DEFINE e == Head(up)
             s == Saving(e.app, hub[e.app], [hub[e.app] EXCEPT !.approval = e.approval])
  <2>2. Concerns(e) => s \in Works
    BY <2>1, Built DEF Concerns, HubOK, Tables, Rows, Events
  <2>3. UNCHANGED <<hub, link, down, astray>> /\ up' = Tail(up) /\ Conn \in Workers
        /\ (IF Concerns(e) THEN work' = [work EXCEPT ![Conn] = s] ELSE UNCHANGED work)
    BY <1>5 DEF HearEvent, Does, Workers
  <2> HIDE DEF s
  <2>4. QED BY <2>1, <2>2, <2>3 DEF HubOK, WiresOK, HistOK
<1>6. ASSUME HearRegister PROVE HubOK' /\ WiresOK' /\ astray' \subseteq Apps
  <2>1. Head(up).register \in Hashes /\ Tail(up) \in Seq(Frames)
    BY <1>6, Queues, Kinds DEF HearRegister, WiresOK
  <2>2. hub' \in Tables
    BY <1>6, <2>1 DEF HearRegister, HubOK, Tables, Rows, Approvals
  <2>3. QED BY <1>6, <2>1, <2>2, Built DEF HearRegister, Does, HubOK, WiresOK, HistOK
<1>7. HubOK' /\ WiresOK' /\ astray' \subseteq Apps
  BY <1>1, <1>2, <1>3, <1>4, <1>5, <1>6
<1>8. UNCHANGED <<local, sending, preApproved, spool, drained, fate, consented, faults>>
  BY DEF FindForEdit, Save, ReadRows, SendRows, HearEvent, HearRegister, agent, cli
<1>9. BoundsOK'
  <2>1. UNCHANGED edits \/ (edits < MaxEdits /\ edits' = edits + 1)
    BY DEF FindForEdit, Save, ReadRows, SendRows, HearEvent, HearRegister
  <2>2. QED BY <1>8, <2>1, BoundAssumption DEF BoundsOK
<1>10. QED
  BY <1>7, <1>8, <1>9 DEF AgentOK, CliOK, HistOK, AccountInv

(* Losing the connection, or the agent, keeps the types; of the operations *)
(* only those that had been read are lost.                                 *)
LEMMA ConnectionStepTypes ==
  ASSUME TypeInv, Connect \/ Disconnect \/ Crash
  PROVE  TypeInv'
<1> USE DEF TypeInv
<1>1. faults' \in 0..MaxFaults /\ UNCHANGED <<edits, hub, local, spool, consented>>
  <2>1. UNCHANGED faults \/ (faults < MaxFaults /\ faults' = faults + 1)
    BY DEF Connect, Disconnect, Crash, Fault
  <2>2. QED BY <2>1, BoundAssumption DEF BoundsOK, Connect, Disconnect, Crash, agent, cli
<1>2. link' \in BOOLEAN
  BY DEF Connect, Disconnect, Crash, Drop
<1>3. WiresOK'
  <2>1. CASE Connect
    BY <1>2, <2>1, Zenon DEF WiresOK, Connect
  <2>2. CASE Disconnect \/ Crash
    <3>1. down' = <<>> /\ up' = <<>>
      BY <2>2 DEF Disconnect, Crash, Drop
    <3>2. down' \in Seq(Tables) /\ up' \in Seq(Frames)
      BY <3>1, EmptySeq
    <3>3. QED BY <1>2, <3>2 DEF WiresOK
  <2>3. QED BY <2>1, <2>2
<1>4. work' \in [Workers -> Works]
  BY Built DEF HubOK, Connect, Disconnect, Crash, Drop, Does
<1>5. \A i \in DOMAIN up : "app" \in DOMAIN up[i] => up[i].app \in Apps
  BY Kinds DEF WiresOK, Events
<1>6. astray' \subseteq Apps
  BY <1>5 DEF HistOK, AgentOK, Events, Connect, Disconnect, Crash, InFlight
<1>7. CASE Crash
  <2> DEFINE later == [n \in DOMAIN fate |-> IF \E i \in DOMAIN drained : drained[i].n = n
                                             THEN "lost" ELSE fate[n]]
  <2>1. /\ fate' = later /\ drained' = <<>> /\ sending' = {}
        /\ preApproved' = [h \in Hashes |-> 0]
    BY <1>7 DEF Crash
  <2>2. later \in Seq(Fates) /\ Len(later) = Len(fate)
    BY LenProperties DEF CliOK, Fates
  <2>3. Accounts(spool, later, [h \in Hashes |-> 0])
    BY Crashed DEF CliOK, AccountInv
  <2>4. drained' \o spool' = spool
    BY <1>1, <2>1, ConcatEmptySeq DEF CliOK
  <2>5. AccountInv'
    BY <2>1, <2>3, <2>4 DEF AccountInv
  <2>6. AgentOK' /\ CliOK'
    BY <1>1, <2>1, <2>2 DEF AgentOK, CliOK
  <2>7. QED BY <1>1, <1>3, <1>4, <1>6, <2>5, <2>6 DEF HubOK, HistOK, BoundsOK
<1>8. CASE Connect \/ Disconnect
  <2>1. UNCHANGED <<sending, preApproved, drained, fate>>
    BY <1>8 DEF Connect, Disconnect, agent, cli
  <2>2. QED
    BY <1>1, <1>3, <1>4, <1>6, <2>1 DEF HubOK, AgentOK, CliOK, HistOK, BoundsOK, AccountInv
<1>9. QED BY <1>7, <1>8

(* An app_sync leaves a well-formed row, and uses up no more pre-approvals *)
(* than there are.                                                         *)
LEMMA SyncTypes ==
  ASSUME TypeInv, Sync
  PROVE  TypeInv'
<1> USE DEF TypeInv
<1> DEFINE rows == Head(down)
           fresh == {a \in Apps : rows[a] # None /\ Adopted(a, rows[a]) # local[a]}
           uses(h) == Cardinality({a \in fresh : rows[a].hash = h})
           told == {[app |-> a, hash |-> local'[a].hash, approval |-> local'[a].approval] : a \in fresh}
<1>1. rows \in Tables /\ down' \in Seq(Tables)
  BY Queues DEF Sync, WiresOK
<1>2. /\ local' = [a \in Apps |-> Adopted(a, rows[a])]
      /\ preApproved' = [h \in Hashes |-> IF preApproved[h] = 0 THEN 0 ELSE preApproved[h] - uses(h)]
      /\ astray' = astray \cup {e.app : e \in told \cap sending} /\ sending' = sending \cup told
      /\ \A h \in Hashes : preApproved[h] = 0 \/ uses(h) <= preApproved[h]
  BY DEF Sync
<1>3. ASSUME NEW a \in Apps PROVE Adopted(a, rows[a]) \in Rows \cup {None}
  BY <1>1 DEF Adopted, AgentOK, Tables, Rows, Approvals
<1>4. ASSUME NEW a \in fresh PROVE local'[a] \in Rows
  <2>1. a \in Apps /\ rows[a] # None /\ local'[a] = Adopted(a, rows[a])
    BY <1>2
  <2>2. rows[a] \in Rows /\ local[a] \in Rows \cup {None}
    BY <1>1, <2>1 DEF AgentOK, Tables
  <2>3. QED BY <2>1, <2>2 DEF Adopted, Rows, Approvals
<1>5. told \subseteq Events
  BY <1>4 DEF Rows, Events
<1>6. \A h \in Hashes : uses(h) \in Nat
  BY AppsAssumption, FS_Subset, FS_CardinalityType
<1> HIDE DEF rows, fresh, uses, told
<1>7. ASSUME NEW h \in Hashes PROVE preApproved'[h] \in Nat /\ preApproved'[h] <= preApproved[h]
  BY <1>2, <1>6 DEF AgentOK
<1>8. AgentOK' /\ HistOK'
  <2>1. preApproved' \in [Hashes -> Nat]
    BY <1>2, <1>7
  <2>2. local' \in Tables
    BY <1>2, <1>3 DEF Tables
  <2>3. sending' \subseteq Events /\ astray' \subseteq Apps
    BY <1>2, <1>5 DEF AgentOK, HistOK, Events
  <2>4. QED BY <2>1, <2>2, <2>3 DEF AgentOK, HistOK, Sync
<1>9. UNCHANGED <<hub, link, up, work, drained, spool, fate, edits, faults>>
  BY DEF Sync, cli
<1>10. AccountInv'
  <2> DEFINE q == drained \o spool
  <2>1. q \in Seq(Ops) /\ Len(fate) \in Nat /\ Accounts(q, fate, preApproved)
    BY ConcatProperties DEF CliOK, AccountInv
  <2> HIDE DEF q
  <2>2. \A h \in Hashes : preApproved'[h] \in 0..Len(fate)
    BY <1>7, <2>1 DEF Accounts
  <2>3. \A h \in Hashes, i \in 1..Len(q) : preApproved'[h] < q[i].n
    <3> SUFFICES ASSUME NEW h \in Hashes, NEW i \in 1..Len(q) PROVE preApproved'[h] < q[i].n
      OBVIOUS
    <3>1. preApproved[h] < q[i].n /\ preApproved[h] \in Int /\ q[i].n \in Int
      BY <2>1 DEF Accounts
    <3>2. QED BY <1>7, <3>1
  <2>4. Accounts(q, fate, preApproved')
    BY <2>1, <2>2, <2>3 DEF Accounts
  <2>5. QED BY <1>9, <2>4 DEF AccountInv, q
<1>11. QED
  BY <1>1, <1>8, <1>9, <1>10 DEF HubOK, WiresOK, CliOK, BoundsOK

(* Sending an event keeps the frames typed.                                *)
LEMMA TellTypes ==
  ASSUME WiresOK, HistOK, NEW e \in Events, NEW waiting \in SUBSET Events, Tell(e, waiting)
  PROVE  up' \in Seq(Frames) /\ astray' \subseteq Apps
<1>1. e \in Frames /\ e.app \in Apps
  BY DEF Frames, Events
<1>2. QED BY <1>1, Queues DEF Tell, WiresOK, HistOK

(* The CLI gives operations one at a time.                                 *)
LEMMA CliStepTypes ==
  ASSUME TypeInv,
         \/ \E a \in Apps : CliDecide("approve", a) \/ CliDecide("reject", a)
         \/ \E h \in Hashes : CliImport(h)
  PROVE  TypeInv'
<1> USE DEF TypeInv
<1>1. /\ fate' = Append(fate, "given") /\ Len(fate) < MaxOps
      /\ UNCHANGED <<hub, wires, work, agent, astray, edits, faults>>
  BY DEF CliDecide, CliImport
<1>2. fate' \in Seq(Fates) /\ Len(fate') = Len(fate) + 1 /\ Len(fate') <= MaxOps /\ Len(fate') \in 1..MaxOps
  BY <1>1, BoundAssumption DEF CliOK, Fates
<1>3. \E op \in Ops : op.n = Len(fate) + 1 /\ spool' = Append(spool, op)
  <2>1. ASSUME NEW o \in {"approve", "reject"}, NEW a \in Apps, CliDecide(o, a)
        PROVE  \E op \in Ops : op.n = Len(fate) + 1 /\ spool' = Append(spool, op)
    BY <1>2, <2>1, Built DEF CliDecide
  <2>2. ASSUME NEW h \in Hashes, CliImport(h)
        PROVE  \E op \in Ops : op.n = Len(fate) + 1 /\ spool' = Append(spool, op)
    BY <1>2, <2>2, Built DEF CliImport
  <2>3. QED BY <2>1, <2>2
<1>4. PICK op \in Ops : op.n = Len(fate) + 1 /\ spool' = Append(spool, op)
  BY <1>3
<1>5. /\ spool' \in Seq(Ops) /\ drained \o spool' = Append(drained \o spool, op)
      /\ drained \o spool \in Seq(Ops)
  BY <1>4, WaitingSequences DEF CliOK
<1>6. Accounts(drained \o spool', fate', preApproved)
  BY <1>1, <1>4, <1>5, Enqueued DEF CliOK, AccountInv
<1>7. consented' \subseteq Hashes
  BY DEF HistOK, CliDecide, CliImport
<1>8. QED
  BY <1>1, <1>2, <1>5, <1>6, <1>7
  DEF HubOK, WiresOK, AgentOK, CliOK, HistOK, BoundsOK, AccountInv, wires, agent

(* Applying an operation is what Applied says of the operations.           *)
LEMMA DoneAccounts ==
  ASSUME TypeInv, Done, UNCHANGED spool, preApproved' \in [Hashes -> Nat],
         \A h \in Hashes : preApproved'[h] \in {preApproved[h], preApproved[h] + 1}
  PROVE  CliOK' /\ AccountInv' /\ Head(drained) \in Ops
<1> USE DEF TypeInv
<1>1. /\ drained # <<>> /\ drained' = Tail(drained)
      /\ fate' = [fate EXCEPT ![Head(drained).n] = "done"]
  BY DEF Done
<1>2. /\ Tail(drained) \in Seq(Ops) /\ drained \o spool # <<>> /\ drained \o spool \in Seq(Ops)
      /\ Head(drained \o spool) = Head(drained)
      /\ Tail(drained \o spool) = Tail(drained) \o spool /\ Head(drained) \in Ops
  BY <1>1, WaitingSequences, Queues DEF CliOK
<1>3. Accounts(Tail(drained) \o spool, fate', preApproved')
  BY <1>1, <1>2, Applied DEF CliOK, AccountInv
<1>4. Head(drained).n \in 1..Len(fate)
  <2>1. (drained \o spool)[1] = Head(drained \o spool) /\ 1 \in 1..Len(drained \o spool)
    BY <1>2
  <2>2. QED BY <1>2, <2>1 DEF AccountInv, Accounts
<1>5. fate' \in Seq(Fates) /\ Len(fate') = Len(fate)
  BY <1>1, <1>4, ExceptSeq DEF CliOK, Fates
<1>6. QED BY <1>1, <1>2, <1>3, <1>5 DEF CliOK, AccountInv

(* The steps of the agent keep the types.                                  *)
LEMMA AgentStepTypes ==
  ASSUME TypeInv, (\E e \in sending : SendEvent(e)) \/ Drain \/ ApplyImport \/ ApplyDecision
  PROVE  TypeInv'
<1> USE DEF TypeInv
<1>1. ASSUME NEW e \in sending, SendEvent(e) PROVE TypeInv'
  <2>1. up' \in Seq(Frames) /\ astray' \subseteq Apps
    <3>1. e \in Events /\ sending' \in SUBSET Events
      BY <1>1 DEF SendEvent, AgentOK
    <3>2. QED BY <1>1, <3>1, TellTypes DEF SendEvent
  <2>2. UNCHANGED <<hub, link, down, work, local, drained, preApproved, spool, fate, consented, edits, faults>>
        /\ sending' \subseteq sending
    BY <1>1 DEF SendEvent, cli
  <2>3. QED
    BY <2>1, <2>2 DEF HubOK, WiresOK, AgentOK, CliOK, HistOK, BoundsOK, AccountInv
<1>2. CASE Drain
  <2>1. PICK n \in 1..Len(spool) :
          drained' = SubSeq(spool, 1, n) /\ spool' = SubSeq(spool, n + 1, Len(spool))
    BY <1>2 DEF Drain
  <2>2. /\ drained' \in Seq(Ops) /\ spool' \in Seq(Ops) /\ drained' \o spool' = spool
        /\ drained \o spool = spool
    BY <1>2, <2>1, WaitingSequences, ConcatEmptySeq DEF Drain, CliOK
  <2>3. UNCHANGED <<hub, wires, work, local, sending, preApproved, fate, consented, astray, edits, faults>>
    BY <1>2 DEF Drain
  <2>4. QED
    BY <2>2, <2>3 DEF wires, HubOK, WiresOK, AgentOK, CliOK, HistOK, BoundsOK, AccountInv
<1>3. CASE ApplyImport
  <2>1. Head(drained) \in Ops
    BY <1>3, Queues DEF ApplyImport, Done, CliOK
  <2>2. Head(drained).hash \in Hashes
    BY <1>3, <2>1, Kinds DEF ApplyImport
  <2>3. preApproved' \in [Hashes -> Nat] /\ \A h \in Hashes : preApproved'[h] \in {preApproved[h], preApproved[h] + 1}
    BY <1>3, <2>2 DEF ApplyImport, AgentOK
  <2>4. CliOK' /\ AccountInv'
    BY <1>3, <2>3, DoneAccounts DEF ApplyImport
  <2>5. up' \in Seq(Frames)
    BY <1>3, <2>2, Built, Queues DEF ApplyImport, WiresOK
  <2>6. UNCHANGED <<hub, link, down, work, local, sending, consented, astray, edits, faults>>
    BY <1>3 DEF ApplyImport
  <2>7. QED
    BY <2>3, <2>4, <2>5, <2>6 DEF HubOK, WiresOK, AgentOK, HistOK, BoundsOK
<1>4. CASE ApplyDecision
  <2> DEFINE a == Head(drained).app
             approval == IF Head(drained).op = "approve" THEN "approved" ELSE "rejected"
             e == [app |-> a, hash |-> local[a].hash, approval |-> approval]
  <2>1. Head(drained) \in Ops
    BY <1>4, Queues DEF ApplyDecision, Done, CliOK
  <2>2. a \in Apps /\ approval \in Approvals
    BY <1>4, <2>1, Kinds DEF ApplyDecision, Approvals
  <2>3. UNCHANGED <<hub, link, down, work, sending, preApproved, spool, edits, faults>>
    BY <1>4 DEF ApplyDecision
  <2>4. CliOK' /\ AccountInv'
    BY <1>4, <2>3, DoneAccounts DEF ApplyDecision, AgentOK
  <2>5. CASE local[a] = None
    BY <1>4, <2>3, <2>4, <2>5 DEF ApplyDecision, HubOK, WiresOK, AgentOK, HistOK, BoundsOK
  <2>6. CASE local[a] # None
    <3>1. /\ local' = [local EXCEPT ![a].approval = approval]
          /\ consented' = IF approval = "approved" THEN consented \cup {local[a].hash} ELSE consented
          /\ Tell(e, sending)
      BY <1>4, <2>6 DEF ApplyDecision, Report
    <3>2. local[a] \in Rows /\ e \in Events
      BY <2>2, <2>6 DEF AgentOK, Tables, Rows, Events
    <3>3. up' \in Seq(Frames) /\ astray' \subseteq Apps
      BY <3>1, <3>2, TellTypes DEF AgentOK
    <3>4. local' \in Tables /\ consented' \subseteq Hashes
      BY <2>2, <3>1, <3>2 DEF AgentOK, HistOK, Tables, Rows
    <3>5. QED
      BY <2>3, <2>4, <3>3, <3>4 DEF HubOK, WiresOK, AgentOK, HistOK, BoundsOK
  <2>7. QED BY <2>5, <2>6
<1>5. QED BY <1>1, <1>2, <1>3, <1>4

(* The types, and the account of the operations, hold throughout.          *)
LEMMA TypeInvariant == Spec => []TypeInv
<1>1. Init => TypeInv
  <2> SUFFICES ASSUME Init PROVE TypeInv
    OBVIOUS
  <2>1. HubOK /\ AgentOK /\ HistOK
    BY Built DEF Init, HubOK, AgentOK, HistOK, Tables
  <2>2. CliOK /\ BoundsOK
    BY BoundAssumption DEF Init, CliOK, BoundsOK
  <2>3. drained \o spool = <<>> /\ Len(<<>>) = 0
    BY DEF Init
  <2>4. AccountInv
    BY <2>3 DEF Init, AccountInv, Accounts
  <2>5. WiresOK
    <3>1. down \in Seq(Tables) /\ up \in Seq(Frames)
      BY EmptySeq DEF Init
    <3>2. QED BY <3>1 DEF Init, WiresOK
  <2>6. QED BY <2>1, <2>2, <2>4, <2>5 DEF TypeInv
<1>2. TypeInv /\ [Next]_vars => TypeInv'
  <2>1. ASSUME TypeInv, UNCHANGED vars PROVE TypeInv'
    BY <2>1 DEF vars, wires, agent, cli, TypeInv, HubOK, WiresOK, AgentOK, CliOK, HistOK, BoundsOK, AccountInv
  <2>2. QED
    BY <2>1, HubStepTypes, ConnectionStepTypes, SyncTypes, CliStepTypes, AgentStepTypes DEF Next
<1>3. QED BY <1>1, <1>2, PTL DEF Spec

(* Rows, decisions and frames are well formed, and what waits is given.    *)
THEOREM TypeCorrect == Spec => []TypeOK
<1>1. TypeInv => TypeOK
  <2> SUFFICES ASSUME TypeInv PROVE TypeOK
    OBVIOUS
  <2> USE DEF TypeInv
  <2>1. preApproved \in [Hashes -> 0..MaxOps]
    BY BoundAssumption DEF AgentOK, CliOK, AccountInv, Accounts
  <2> DEFINE q == drained \o spool
  <2>2. /\ Len(drained) \in Nat /\ Len(spool) \in Nat
        /\ \A i \in 1..Len(drained) : i \in 1..Len(q) /\ q[i] = drained[i]
        /\ \A i \in 1..Len(spool) : Len(drained) + i \in 1..Len(q) /\ q[Len(drained) + i] = spool[i]
    BY ConcatProperties DEF CliOK
  <2>3. \A i \in 1..Len(q) : fate[q[i].n] = "given"
    BY DEF AccountInv, Accounts
  <2> HIDE DEF q
  <2>4. /\ \A i \in 1..Len(spool) : fate[spool[i].n] = "given"
        /\ \A i \in 1..Len(drained) : fate[drained[i].n] = "given"
    BY <2>2, <2>3
  <2>5. QED
    BY <2>1, <2>4 DEF HubOK, WiresOK, AgentOK, CliOK, HistOK, BoundsOK, TypeOK, Frames, Fates
<1>2. QED BY <1>1, TypeInvariant, PTL

(* What the user told the CLI is waiting, applied or lost in a crash of    *)
(* the agent, and is applied in the order it was told.                     *)
THEOREM AccountTheorem == Spec => []DecisionsAccounted
<1>1. TypeInv => DecisionsAccounted
  <2> SUFFICES ASSUME TypeInv PROVE DecisionsAccounted
    OBVIOUS
  <2> DEFINE q == drained \o spool
  <2>1. q \in Seq(Ops) /\ DOMAIN q = 1..Len(q) /\ DOMAIN fate = 1..Len(fate)
    BY ConcatProperties, LenProperties DEF TypeInv, CliOK
  <2>2. Accounts(q, fate, preApproved)
    BY DEF TypeInv, AccountInv
  <2> HIDE DEF q
  <2>3. \A n \in DOMAIN fate : (fate[n] = "given") <=> \E i \in DOMAIN q : q[i].n = n
    BY <2>1, <2>2 DEF Accounts
  <2>4. \A i, j \in DOMAIN q : i < j => q[i].n < q[j].n
    BY <2>1, <2>2 DEF Accounts
  <2>5. \A n \in DOMAIN fate, i \in DOMAIN q : fate[n] = "done" => n < q[i].n
    BY <2>1, <2>2 DEF Accounts
  <2>6. QED BY <2>3, <2>4, <2>5 DEF DecisionsAccounted, q
<1>2. QED BY <1>1, TypeInvariant, PTL

-----------------------------------------------------------------------------
(* What the hub shows as approved was consented to.                        *)

\* Rows, events, frames and operations that approve nothing but what is in c.
ConsentedRows(c)   == {row \in Rows : row.approval = "approved" => row.hash \in c}
ConsentedEvents(c) == {e \in Events : e.approval = "approved" => e.hash \in c}
ConsentedFrames(c) == ConsentedEvents(c) \cup [register : c]
ConsentedOps(c)    == {op \in Ops : op.op = "import" => op.hash \in c}

\* Whatever can still become an approval on the hub, at any place of its way
\* there, approves nothing the host did not consent to: the rows, the saves
\* requests and the connection's handler are about to do, the frames, the
\* events, the host's own rows, its pre-approvals, and the CLI's operations.
HubConsent   == \A a \in Apps \ astray : hub[a] \in ConsentedRows(consented) \cup {None}
SaveConsent  == \A w \in Workers : work[w].at = "save" /\ work[w].app \notin astray
                                     => work[w].new \in ConsentedRows(consented)
FrameConsent == up \in Seq(ConsentedFrames(consented))
AgentConsent == /\ local \in [Apps -> ConsentedRows(consented) \cup {None}]
                /\ sending \subseteq ConsentedEvents(consented)
                /\ \A h \in Hashes : preApproved[h] > 0 => h \in consented
OpConsent    == spool \in Seq(ConsentedOps(consented)) /\ drained \in Seq(ConsentedOps(consented))

ConsentInv == HubConsent /\ SaveConsent /\ FrameConsent /\ AgentConsent /\ OpConsent

(* Consent given later takes nothing away.                                 *)
LEMMA MoreConsent ==
  ASSUME NEW c, NEW d, c \subseteq d
  PROVE  /\ ConsentedRows(c) \subseteq ConsentedRows(d)
         /\ ConsentedEvents(c) \subseteq ConsentedEvents(d)
         /\ \A q \in Seq(ConsentedFrames(c)) : q \in Seq(ConsentedFrames(d))
         /\ \A q \in Seq(ConsentedOps(c)) : q \in Seq(ConsentedOps(d))
<1>1. ASSUME NEW S, NEW T, S \subseteq T, NEW q \in Seq(S) PROVE q \in Seq(T)
  BY <1>1
<1>2. /\ ConsentedRows(c) \subseteq ConsentedRows(d)
      /\ ConsentedEvents(c) \subseteq ConsentedEvents(d)
      /\ ConsentedOps(c) \subseteq ConsentedOps(d)
  BY DEF ConsentedRows, ConsentedEvents, ConsentedOps
<1>3. ConsentedFrames(c) \subseteq ConsentedFrames(d)
  BY <1>2 DEF ConsentedFrames
<1>4. QED BY <1>1, <1>2, <1>3

(* The hub's steps approve nothing on their own: an edit keeps an approval *)
(* only with its definition, an event approves the definition it names.    *)
LEMMA HubStepConsent ==
  ASSUME TypeInv, ConsentInv,
         \/ \E q \in Requests, a \in Apps, h \in Hashes : FindForEdit(q, a, h)
         \/ \E w \in Workers : Save(w) \/ ReadRows(w) \/ SendRows(w)
         \/ HearEvent \/ HearRegister
  PROVE  ConsentInv'
<1> USE DEF ConsentInv
<1>1. UNCHANGED <<local, sending, preApproved, spool, drained, consented>>
  BY DEF FindForEdit, Save, ReadRows, SendRows, HearEvent, HearRegister, agent, cli
<1>2. AgentConsent' /\ OpConsent'
  BY <1>1 DEF AgentConsent, OpConsent
<1>3. work \in [Workers -> Works] /\ hub \in Tables
  BY DEF TypeInv, HubOK
<1>4. ASSUME NEW q \in Requests, NEW a \in Apps, NEW h \in Hashes, FindForEdit(q, a, h)
      PROVE  HubConsent' /\ SaveConsent' /\ FrameConsent'
  <2> DEFINE row == hub[a]
             keep == row # None /\ row.hash = h
             new == [hash |-> h, approval |-> IF keep THEN row.approval ELSE "pending"]
  <2>1. UNCHANGED <<hub, up, astray>> /\ work' = [work EXCEPT ![q] = Saving(a, row, new)]
    BY <1>4 DEF FindForEdit, Does, wires
  <2>2. a \notin astray => new \in ConsentedRows(consented)
    BY <1>3 DEF HubConsent, ConsentedRows, Tables, Rows, Approvals
  <2> HIDE DEF new
  <2>3. SaveConsent'
    BY <1>1, <1>3, <2>1, <2>2 DEF SaveConsent, Saving
  <2>4. QED BY <1>1, <2>1, <2>3 DEF HubConsent, FrameConsent
<1>5. ASSUME NEW w \in Workers, Save(w) PROVE HubConsent' /\ SaveConsent' /\ FrameConsent'
  <2> DEFINE s == work[w]
  <2>1. s \in Works /\ s.at = "save"
    BY <1>3, <1>5 DEF Save
  <2>2. s.app \in Apps /\ s.was \in Rows \cup {None} /\ s.new \in Rows
    BY <2>1, Kinds
  <2>3. PICK row \in Written(s.app, s.was, s.new) : hub' = [hub EXCEPT ![s.app] = row]
    BY <1>5 DEF Save
  <2>4. /\ astray' = IF hub[s.app] = s.was THEN astray ELSE astray \cup {s.app}
        /\ UNCHANGED up /\ \E next \in {Nothing, ToSync} : work' = [work EXCEPT ![w] = next]
    BY <1>5 DEF Save, Does, wires
  <2>5. s.app \notin astray' => row = s.new
    BY <1>3, <2>2, <2>3, <2>4 DEF Written, Rows, Tables
  <2>6. HubConsent'
    BY <1>1, <1>3, <2>1, <2>2, <2>3, <2>4, <2>5 DEF HubConsent, SaveConsent, Tables
  <2>7. SaveConsent'
    BY <1>1, <1>3, <2>4 DEF SaveConsent, Nothing, ToSync
  <2>8. QED BY <1>1, <2>4, <2>6, <2>7 DEF FrameConsent
<1>6. ASSUME NEW w \in Workers, ReadRows(w) \/ SendRows(w)
      PROVE  HubConsent' /\ SaveConsent' /\ FrameConsent'
  <2>1. /\ UNCHANGED <<hub, up, astray>>
        /\ \E next \in {Nothing, Syncing(hub)} : work' = [work EXCEPT ![w] = next]
    BY <1>6 DEF ReadRows, SendRows, Does, wires
  <2>2. QED BY <1>1, <1>3, <2>1 DEF HubConsent, SaveConsent, FrameConsent, Nothing, Syncing
<1>7. ASSUME HearEvent PROVE HubConsent' /\ SaveConsent' /\ FrameConsent'
  <2> DEFINE e == Head(up)
             new == [hub[e.app] EXCEPT !.approval = e.approval]
  <2>1. UNCHANGED <<hub, astray>> /\ up' = Tail(up) /\ up # <<>> /\ "app" \in DOMAIN e
    BY <1>7 DEF HearEvent
  <2>2. e \in ConsentedFrames(consented) /\ FrameConsent'
    BY <1>1, <2>1, Queues DEF FrameConsent
  <2>3. e \in ConsentedEvents(consented)
    BY <2>1, <2>2 DEF ConsentedFrames
  <2>4. CASE ~Concerns(e)
    <3>1. UNCHANGED work
      BY <1>7, <2>4 DEF HearEvent
    <3>2. QED BY <1>1, <2>1, <2>2, <3>1 DEF HubConsent, SaveConsent
  <2>5. CASE Concerns(e)
    <3>1. work' = [work EXCEPT ![Conn] = Saving(e.app, hub[e.app], new)]
      BY <1>7, <2>5 DEF HearEvent, Does
    <3>2. new \in ConsentedRows(consented)
      BY <1>3, <2>3, <2>5 DEF Concerns, ConsentedEvents, ConsentedRows, Events, Rows, Tables
    <3> HIDE DEF new, e
    <3>3. SaveConsent'
      BY <1>1, <1>3, <2>1, <3>1, <3>2 DEF SaveConsent, Saving
    <3>4. QED BY <1>1, <2>1, <2>2, <3>3 DEF HubConsent
  <2>6. QED BY <2>4, <2>5
<1>8. ASSUME HearRegister PROVE HubConsent' /\ SaveConsent' /\ FrameConsent'
  <2> DEFINE h == Head(up).register
  <2>1. /\ UNCHANGED astray /\ up' = Tail(up) /\ up # <<>> /\ "register" \in DOMAIN Head(up)
        /\ work' = [work EXCEPT ![Conn] = ToSync]
    BY <1>8 DEF HearRegister, Does
  <2>2. Head(up) \in ConsentedFrames(consented) /\ FrameConsent'
    BY <1>1, <2>1, Queues DEF FrameConsent
  <2>3. h \in consented
    BY <2>1, <2>2 DEF ConsentedFrames, ConsentedEvents, Events
  <2>4. [hash |-> h, approval |-> "approved"] \in ConsentedRows(consented)
    BY <2>3 DEF ConsentedRows, Rows, Approvals, TypeInv, HistOK
  <2>5. UNCHANGED hub \/ \E a \in Apps : hub' = [hub EXCEPT ![a] = [hash |-> h, approval |-> "approved"]]
    BY <1>8 DEF HearRegister
  <2> HIDE DEF h
  <2>6. HubConsent'
    BY <1>1, <1>3, <2>1, <2>4, <2>5 DEF HubConsent, Tables
  <2>7. SaveConsent'
    BY <1>1, <1>3, <2>1 DEF SaveConsent, ToSync
  <2>8. QED BY <2>2, <2>6, <2>7
<1>9. QED BY <1>2, <1>4, <1>5, <1>6, <1>7, <1>8

(* A lost connection, or agent, takes decisions away and adds none.        *)
LEMMA ConnectionStepConsent ==
  ASSUME TypeInv, ConsentInv, Connect \/ Disconnect \/ Crash
  PROVE  ConsentInv'
<1> USE DEF ConsentInv
<1>1. UNCHANGED <<hub, local, spool, consented>> /\ astray \subseteq astray'
  BY DEF Connect, Disconnect, Crash, agent, cli
<1>2. \A w \in Workers : work'[w] \in {work[w], ToSync, Nothing}
  BY DEF Connect, Disconnect, Crash, Drop, Does, TypeInv, HubOK
<1>3. SaveConsent'
  BY <1>1, <1>2 DEF SaveConsent, ToSync, Nothing
<1>4. up' = up \/ up' = <<>>
  BY DEF Connect, Disconnect, Crash, Drop
<1>5. FrameConsent'
  BY <1>1, <1>4, EmptySeq DEF FrameConsent
<1>6. HubConsent'
  BY <1>1 DEF HubConsent
<1>7. CASE Crash
  <2>1. sending' = {} /\ drained' = <<>> /\ preApproved' = [h \in Hashes |-> 0]
    BY <1>7 DEF Crash
  <2>2. AgentConsent'
    BY <1>1, <2>1 DEF AgentConsent
  <2>3. OpConsent'
    BY <1>1, <2>1, EmptySeq DEF OpConsent
  <2>4. QED BY <1>3, <1>5, <1>6, <2>2, <2>3
<1>8. CASE Connect \/ Disconnect
  <2>1. UNCHANGED <<sending, preApproved, drained>>
    BY <1>8 DEF Connect, Disconnect, agent
  <2>2. QED BY <1>1, <1>3, <1>5, <1>6, <2>1 DEF AgentConsent, OpConsent
<1>9. QED BY <1>7, <1>8

(* applyAppSync approves a definition only when it is pre-approved.        *)
LEMMA SyncConsent ==
  ASSUME TypeInv, ConsentInv, Sync
  PROVE  ConsentInv'
<1> USE DEF ConsentInv
<1> DEFINE rows == Head(down)
           fresh == {a \in Apps : rows[a] # None /\ Adopted(a, rows[a]) # local[a]}
           uses(h) == Cardinality({a \in fresh : rows[a].hash = h})
           told == {[app |-> a, hash |-> local'[a].hash, approval |-> local'[a].approval] : a \in fresh}
<1>1. rows \in Tables
  BY Queues DEF Sync, TypeInv, WiresOK
<1>2. /\ local' = [a \in Apps |-> Adopted(a, rows[a])]
      /\ preApproved' = [h \in Hashes |-> IF preApproved[h] = 0 THEN 0 ELSE preApproved[h] - uses(h)]
      /\ astray \subseteq astray' /\ sending' = sending \cup told
      /\ UNCHANGED <<hub, up, work, spool, drained, consented>>
  BY DEF Sync, cli
<1>3. ASSUME NEW a \in Apps PROVE Adopted(a, rows[a]) \in ConsentedRows(consented) \cup {None}
  <2>1. local[a] \in ConsentedRows(consented) \cup {None} /\ rows[a] \in Rows \cup {None}
    BY <1>1 DEF AgentConsent, Tables
  <2>2. CASE rows[a] = None
    BY <2>1, <2>2 DEF Adopted
  <2>3. CASE rows[a] # None
    <3>1. rows[a].hash \in Hashes
      BY <2>1, <2>3 DEF Rows
    <3>2. preApproved[rows[a].hash] > 0 => rows[a].hash \in consented
      BY <3>1 DEF AgentConsent
    <3>3. QED BY <2>1, <2>3, <3>1, <3>2 DEF Adopted, ConsentedRows, Rows, Approvals
  <2>4. QED BY <2>2, <2>3
<1>4. ASSUME NEW a \in fresh PROVE local'[a] \in ConsentedRows(consented)
  <2>1. a \in Apps /\ rows[a] # None /\ local'[a] = Adopted(a, rows[a]) /\ Adopted(a, rows[a]) # local[a]
    BY <1>2
  <2>2. Adopted(a, rows[a]) = [hash |-> rows[a].hash,
          approval |-> IF preApproved[rows[a].hash] > 0 THEN "approved" ELSE "pending"]
    BY <2>1 DEF Adopted
  <2>3. rows[a].hash \in Hashes /\ (preApproved[rows[a].hash] > 0 => rows[a].hash \in consented)
    BY <1>1, <2>1 DEF AgentConsent, Tables, Rows
  <2>4. QED BY <2>1, <2>2, <2>3 DEF ConsentedRows, Rows, Approvals
<1>5. told \subseteq ConsentedEvents(consented)
  BY <1>4 DEF ConsentedRows, ConsentedEvents, Rows, Events
<1>6. \A h \in Hashes : uses(h) \in Nat
  BY AppsAssumption, FS_Subset, FS_CardinalityType
<1> HIDE DEF rows, fresh, uses, told
<1>7. ASSUME NEW h \in Hashes, preApproved'[h] > 0 PROVE h \in consented
  BY <1>2, <1>6, <1>7 DEF AgentConsent, TypeInv, AgentOK
<1>8. AgentConsent'
  BY <1>2, <1>3, <1>5, <1>7 DEF AgentConsent
<1>9. HubConsent' /\ SaveConsent' /\ FrameConsent' /\ OpConsent'
  BY <1>2 DEF HubConsent, SaveConsent, FrameConsent, OpConsent
<1>10. QED BY <1>8, <1>9

(* The CLI: an import is the host's consent to what it imports.            *)
LEMMA CliStepConsent ==
  ASSUME TypeInv, TypeInv', ConsentInv,
         \/ \E a \in Apps : CliDecide("approve", a) \/ CliDecide("reject", a)
         \/ \E h \in Hashes : CliImport(h)
  PROVE  ConsentInv'
<1> USE DEF ConsentInv
<1>1. UNCHANGED <<hub, up, work, local, sending, preApproved, drained, astray>> /\ consented \subseteq consented'
  BY DEF CliDecide, CliImport, wires, agent
<1>2. HubConsent' /\ SaveConsent' /\ AgentConsent'
  BY <1>1, MoreConsent DEF HubConsent, SaveConsent, AgentConsent
<1>3. FrameConsent'
  BY <1>1, MoreConsent DEF FrameConsent
<1>4. \E op : op \in ConsentedOps(consented') /\ spool' = Append(spool, op)
  <2>1. Len(fate') \in 1..MaxOps
    <3>1. fate' = Append(fate, "given") /\ fate \in Seq(Fates) /\ Len(fate) < MaxOps
      BY DEF CliDecide, CliImport, TypeInv, CliOK
    <3>2. QED BY <3>1, BoundAssumption DEF Fates
  <2>2. ASSUME NEW o \in {"approve", "reject"}, NEW a \in Apps, CliDecide(o, a)
        PROVE  \E op : op \in ConsentedOps(consented') /\ spool' = Append(spool, op)
    BY <2>1, <2>2, Built DEF CliDecide, ConsentedOps
  <2>3. ASSUME NEW h \in Hashes, CliImport(h)
        PROVE  \E op : op \in ConsentedOps(consented') /\ spool' = Append(spool, op)
    BY <2>1, <2>3, Built DEF CliImport, ConsentedOps
  <2>4. QED BY <2>2, <2>3
<1>5. spool \in Seq(ConsentedOps(consented')) /\ drained' \in Seq(ConsentedOps(consented'))
  BY <1>1, MoreConsent DEF OpConsent
<1>6. OpConsent'
  BY <1>4, <1>5, Queues DEF OpConsent
<1>7. QED BY <1>2, <1>3, <1>6

(* The agent: an import pre-approves what was imported, and an approval is *)
(* consent to the definition the app has by then.                          *)
LEMMA AgentStepConsent ==
  ASSUME TypeInv, ConsentInv, (\E e \in sending : SendEvent(e)) \/ Drain \/ ApplyImport \/ ApplyDecision
  PROVE  ConsentInv'
<1> USE DEF ConsentInv
<1>1. ASSUME NEW e \in sending, SendEvent(e) PROVE ConsentInv'
  <2>1. /\ UNCHANGED <<hub, work, local, preApproved, drained, spool, consented>>
        /\ sending' \subseteq sending /\ astray \subseteq astray'
    BY <1>1 DEF SendEvent, Tell, cli
  <2>2. e \in ConsentedFrames(consented)
    BY DEF AgentConsent, ConsentedFrames
  <2>3. FrameConsent'
    BY <1>1, <2>1, <2>2, Queues DEF SendEvent, Tell, FrameConsent
  <2>4. QED BY <2>1, <2>3 DEF HubConsent, SaveConsent, AgentConsent, OpConsent
<1>2. CASE Drain
  <2>1. /\ UNCHANGED <<hub, up, work, local, sending, preApproved, consented, astray>>
    BY <1>2 DEF Drain, wires
  <2>2. PICK n \in 1..Len(spool) :
          drained' = SubSeq(spool, 1, n) /\ spool' = SubSeq(spool, n + 1, Len(spool))
    BY <1>2 DEF Drain
  <2>3. Len(spool) \in Nat /\ \A i \in 1..Len(spool) : spool[i] \in ConsentedOps(consented)
    BY ElementOfSeq, LenProperties DEF OpConsent
  <2>4. OpConsent'
    BY <2>1, <2>2, <2>3, SubSeqProperties DEF OpConsent
  <2>5. QED BY <2>1, <2>4 DEF HubConsent, SaveConsent, FrameConsent, AgentConsent
<1>3. CASE ApplyImport
  <2> DEFINE op == Head(drained)
  <2>1. /\ UNCHANGED <<hub, work, local, sending, spool, consented, astray>>
        /\ drained # <<>> /\ drained' = Tail(drained) /\ op.op = "import"
        /\ preApproved' = [preApproved EXCEPT ![op.hash] = @ + 1]
        /\ up' = IF link THEN Append(up, [register |-> op.hash]) ELSE up
    BY <1>3 DEF ApplyImport, Done
  <2>2. op \in ConsentedOps(consented) /\ OpConsent'
    BY <2>1, Queues DEF OpConsent
  <2>3. op.hash \in consented /\ op.hash \in Hashes
    BY <2>1, <2>2, Kinds DEF ConsentedOps
  <2> HIDE DEF op
  <2>4. FrameConsent'
    BY <2>1, <2>3, Queues DEF FrameConsent, ConsentedFrames
  <2>5. AgentConsent'
    BY <2>1, <2>3 DEF AgentConsent, TypeInv, AgentOK
  <2>6. QED BY <2>1, <2>2, <2>4, <2>5 DEF HubConsent, SaveConsent
<1>4. CASE ApplyDecision
  <2> DEFINE a == Head(drained).app
             approval == IF Head(drained).op = "approve" THEN "approved" ELSE "rejected"
             e == [app |-> a, hash |-> local[a].hash, approval |-> approval]
  <2>1. /\ UNCHANGED <<hub, work, sending, preApproved, spool>>
        /\ drained # <<>> /\ drained' = Tail(drained) /\ Head(drained).op # "import"
    BY <1>4 DEF ApplyDecision, Done
  <2>2. consented \subseteq consented' /\ astray \subseteq astray'
    BY <1>4 DEF ApplyDecision, Report, Tell
  <2>3. HubConsent' /\ SaveConsent'
    BY <2>1, <2>2, MoreConsent DEF HubConsent, SaveConsent
  <2>4. OpConsent'
    <3>1. spool \in Seq(ConsentedOps(consented')) /\ drained \in Seq(ConsentedOps(consented'))
      BY <2>2, MoreConsent DEF OpConsent
    <3>2. QED BY <2>1, <3>1, Queues DEF OpConsent
  <2>5. /\ local \in [Apps -> ConsentedRows(consented') \cup {None}]
        /\ sending \subseteq ConsentedEvents(consented') /\ up \in Seq(ConsentedFrames(consented'))
    BY <2>2, MoreConsent DEF AgentConsent, FrameConsent
  <2>6. \A h \in Hashes : preApproved'[h] > 0 => h \in consented'
    BY <2>1, <2>2 DEF AgentConsent
  <2>7. CASE local[a] = None
    <3>1. UNCHANGED <<local, up>>
      BY <1>4, <2>7 DEF ApplyDecision
    <3>2. QED BY <2>1, <2>3, <2>4, <2>5, <2>6, <3>1 DEF AgentConsent, FrameConsent
  <2>8. CASE local[a] # None
    <3>1. /\ local' = [local EXCEPT ![a].approval = approval]
          /\ consented' = IF approval = "approved" THEN consented \cup {local[a].hash} ELSE consented
          /\ up' = IF link THEN Append(up, e) ELSE up
      BY <1>4, <2>8 DEF ApplyDecision, Report, Tell
    <3>2. a \in Apps /\ approval \in {"approved", "rejected"}
      <4>1. Head(drained) \in Ops
        BY <2>1, Queues DEF TypeInv, CliOK
      <4>2. QED BY <2>1, <4>1, Kinds
    <3>3. local[a] \in Rows
      BY <2>8, <3>2 DEF TypeInv, AgentOK, Tables
    <3> HIDE DEF a, approval
    <3>4. [local[a] EXCEPT !.approval = approval] \in ConsentedRows(consented')
      BY <3>1, <3>2, <3>3 DEF ConsentedRows, Rows, Approvals
    <3>5. e \in ConsentedFrames(consented')
      BY <3>1, <3>2, <3>3 DEF ConsentedFrames, ConsentedEvents, Events, Rows, Approvals
    <3> HIDE DEF e
    <3>6. FrameConsent'
      BY <2>5, <3>1, <3>5, Queues DEF FrameConsent
    <3>7. local' \in [Apps -> ConsentedRows(consented') \cup {None}]
      BY <2>5, <3>1, <3>2, <3>4
    <3>8. QED BY <2>1, <2>3, <2>4, <2>5, <2>6, <3>6, <3>7 DEF AgentConsent
  <2>9. QED BY <2>7, <2>8
<1>5. QED BY <1>1, <1>2, <1>3, <1>4

(* The hub shows "approved" only beside a definition the host has approved *)
(* or imported, unless an edit fell between the find and the save of an    *)
(* approval (onApprovalEvent, onAppRegister, apps.go).                     *)
THEOREM ConsentTheorem == Spec => []HubShowsConsent
<1>1. Init => ConsentInv
  <2> SUFFICES ASSUME Init PROVE ConsentInv
    OBVIOUS
  <2>1. HubConsent /\ SaveConsent
    BY DEF Init, HubConsent, SaveConsent, Nothing
  <2>2. AgentConsent
    BY DEF Init, AgentConsent
  <2>3. FrameConsent /\ OpConsent
    BY EmptySeq DEF Init, FrameConsent, OpConsent
  <2>4. QED BY <2>1, <2>2, <2>3 DEF ConsentInv
<1>2. TypeInv /\ TypeInv' /\ ConsentInv /\ [Next]_vars => ConsentInv'
  <2>1. ASSUME ConsentInv, UNCHANGED vars PROVE ConsentInv'
    BY <2>1 DEF vars, wires, agent, cli, ConsentInv, HubConsent, SaveConsent, FrameConsent, AgentConsent, OpConsent
  <2>2. QED
    BY <2>1, HubStepConsent, ConnectionStepConsent, SyncConsent, CliStepConsent, AgentStepConsent DEF Next
<1>3. ConsentInv => HubShowsConsent
  BY DEF ConsentInv, HubConsent, ConsentedRows, HubShowsConsent
<1>4. QED BY <1>1, <1>2, <1>3, TypeInvariant, PTL DEF Spec

-----------------------------------------------------------------------------
(* What the hub shows of a decision is what the host decided last.         *)

\* A frame that tells of app a's definition h.
Tells(f, a, h) == "app" \in DOMAIN f /\ f.app = a /\ f.hash = h

\* The frames q tell nothing of it, or last that it is v.
Silent(q, a, h)    == \A i \in 1..Len(q) : ~Tells(q[i], a, h)
LastTold(q, a, h, v) ==
  \A i \in 1..Len(q) :
    Tells(q[i], a, h) /\ (\A j \in 1..Len(q) : i < j => ~Tells(q[j], a, h)) => q[i].approval = v

\* Is the connection's handler about to save an approval of it.
Answering(a, h) == work[Conn].at = "save" /\ work[Conn].app = a /\ work[Conn].new.hash = h

\* What the hub will show beside app a's definition h, if anything, is v: the
\* last frame under way says so, else the save the handler is about to do,
\* else the row, unless nothing was decided of it there yet.
Arrives(a, h, v) ==
  /\ LastTold(up, a, h, v)
  /\ Silent(up, a, h) =>
       IF Answering(a, h) THEN work[Conn].new.approval = v
       ELSE hub[a] # None /\ hub[a].hash = h /\ hub[a].approval # "pending" => hub[a].approval = v

Waiting(a) == {x \in sending : x.app = a}

\* The decision of the host is on its way, or is the one event of the app that
\* has yet to be sent.
ArrivesInv ==
  \A a \in Apps \ astray, h \in Hashes, v \in Approvals :
    local[a] = [hash |-> h, approval |-> v] /\ Waiting(a) = {} => Arrives(a, h, v)
WaitsInv ==
  \A a \in Apps \ astray : \A e \in sending :
    Waiting(a) = {e} => local[a] = None \/ local[a] = [hash |-> e.hash, approval |-> e.approval]

\* A row that was never created is nowhere else.
UncreatedInv ==
  \A a \in Apps : hub[a] = None =>
    /\ local[a] = None
    /\ \A i \in 1..Len(down) : down[i][a] = None
    /\ \A w \in Workers : work[w].at = "send" => work[w].rows[a] = None

\* A request that changes a row resets its approval; the handler of the
\* connection leaves the definition alone.
SavesInv ==
  /\ \A q \in Requests : work[q].at = "save" => work[q].new = work[q].was \/ work[q].new.approval = "pending"
  /\ work[Conn].at = "save" => work[Conn].was # None /\ work[Conn].new.hash = work[Conn].was.hash

DecisionInv == ArrivesInv /\ WaitsInv /\ UncreatedInv /\ SavesInv

(* What remains of the frames under way when the first has been heard.     *)
LEMMA FirstHeard ==
  ASSUME NEW q \in Seq(Frames), q # <<>>, NEW a, NEW h, NEW v, LastTold(q, a, h, v)
  PROVE  /\ LastTold(Tail(q), a, h, v)
         /\ Silent(Tail(q), a, h) =>
              IF Tells(Head(q), a, h) THEN Head(q).approval = v ELSE Silent(q, a, h)
<1> DEFINE t == Tail(q)
<1>1. /\ Len(q) \in Nat /\ Len(t) = Len(q) - 1 /\ Head(q) = q[1] /\ 1 \in 1..Len(q)
      /\ \A i \in 1..Len(t) : t[i] = q[i + 1]
  BY HeadTailProperties, EmptySeq
<1>2. \A i \in 1..Len(t) : i + 1 \in 1..Len(q)
  BY <1>1
<1>3. \A j \in 1..Len(q) : j = 1 \/ (j - 1 \in 1..Len(t) /\ q[j] = t[j - 1])
  BY <1>1
<1> HIDE DEF t
<1>4. ASSUME NEW i \in 1..Len(t), Tells(t[i], a, h), \A j \in 1..Len(t) : i < j => ~Tells(t[j], a, h)
      PROVE  t[i].approval = v
  <2>1. ASSUME NEW j \in 1..Len(q), i + 1 < j PROVE ~Tells(q[j], a, h)
    <3>1. j - 1 \in 1..Len(t) /\ q[j] = t[j - 1] /\ i < j - 1
      BY <1>1, <1>3, <2>1
    <3>2. QED BY <1>4, <3>1
  <2>2. i + 1 \in 1..Len(q) /\ q[i + 1] = t[i]
    BY <1>1, <1>2
  <2>3. q[i + 1].approval = v
    BY <1>4, <2>1, <2>2 DEF LastTold
  <2>4. QED BY <2>2, <2>3
<1>5. ASSUME Silent(t, a, h), Tells(q[1], a, h) PROVE q[1].approval = v
  <2>1. \A j \in 1..Len(q) : 1 < j => ~Tells(q[j], a, h)
    BY <1>3, <1>5 DEF Silent
  <2>2. QED BY <1>1, <1>5, <2>1 DEF LastTold
<1>6. ASSUME Silent(t, a, h), ~Tells(q[1], a, h) PROVE Silent(q, a, h)
  BY <1>3, <1>6 DEF Silent
<1>7. LastTold(t, a, h, v)
  BY <1>4 DEF LastTold
<1>8. QED BY <1>1, <1>5, <1>6, <1>7 DEF t

(* What they tell when one more is sent.                                   *)
LEMMA OneMoreSent ==
  ASSUME NEW q \in Seq(Frames), NEW f \in Frames, NEW a, NEW h, NEW v
  PROVE  /\ Silent(Append(q, f), a, h) => Silent(q, a, h) /\ ~Tells(f, a, h)
         /\ IF Tells(f, a, h) THEN f.approval = v => LastTold(Append(q, f), a, h, v)
            ELSE LastTold(q, a, h, v) => LastTold(Append(q, f), a, h, v)
<1> DEFINE p == Append(q, f)
           n == Len(q)
<1>1. n \in Nat /\ Len(p) = n + 1 /\ p[n + 1] = f /\ \A i \in 1..n : p[i] = q[i]
  OBVIOUS
<1>2. n + 1 \in 1..(n + 1) /\ \A i \in 1..n : i \in 1..(n + 1) /\ i < n + 1
  BY <1>1
<1>3. \A i \in 1..(n + 1) : i \in 1..n \/ i = n + 1
  BY <1>1
<1> HIDE DEF p
<1>4. ASSUME Silent(p, a, h) PROVE Silent(q, a, h) /\ ~Tells(f, a, h)
  BY <1>1, <1>2, <1>4 DEF Silent
<1> HIDE DEF n
<1>5. ASSUME Tells(f, a, h), f.approval = v PROVE LastTold(p, a, h, v)
  <2> SUFFICES ASSUME NEW i \in 1..(n + 1), \A j \in 1..(n + 1) : i < j => ~Tells(p[j], a, h)
               PROVE  p[i].approval = v
    BY <1>1 DEF LastTold
  <2>1. i = n + 1
    BY <1>1, <1>2, <1>3, <1>5
  <2>2. QED BY <1>1, <1>5, <2>1
<1>6. ASSUME ~Tells(f, a, h), LastTold(q, a, h, v) PROVE LastTold(p, a, h, v)
  <2> SUFFICES ASSUME NEW i \in 1..(n + 1), Tells(p[i], a, h),
                      \A j \in 1..(n + 1) : i < j => ~Tells(p[j], a, h)
               PROVE  p[i].approval = v
    BY <1>1 DEF LastTold
  <2>1. i \in 1..n /\ p[i] = q[i]
    BY <1>1, <1>3, <1>6
  <2>2. \A j \in 1..n : i < j => ~Tells(q[j], a, h)
    BY <1>1, <1>2
  <2>3. Tells(q[i], a, h)
    BY <2>1
  <2>4. q[i].approval = v
    BY <1>6, <2>1, <2>2, <2>3 DEF LastTold, n
  <2>5. QED BY <2>1, <2>4
<1>7. QED BY <1>4, <1>5, <1>6 DEF p

(* An edit resets the approval, an event leaves the definition.            *)
LEMMA SavesStep ==
  ASSUME TypeInv, SavesInv, [Next]_vars
  PROVE  SavesInv'
<1>1. work \in [Workers -> Works] /\ hub \in Tables /\ Conn \in Workers
      /\ Conn \notin Requests /\ None \notin Rows /\ Requests \subseteq Workers
  BY KindAssumption DEF TypeInv, HubOK, Workers
<1>2. ASSUME \A w \in Workers : work'[w] = work[w] \/ work'[w].at # "save" PROVE SavesInv'
  BY <1>1, <1>2 DEF SavesInv
<1>3. ASSUME NEW q \in Requests, NEW a \in Apps, NEW h \in Hashes, FindForEdit(q, a, h) PROVE SavesInv'
  <2> DEFINE row == hub[a]
             keep == row # None /\ row.hash = h
             new == [hash |-> h, approval |-> IF keep THEN row.approval ELSE "pending"]
  <2>1. work' = [work EXCEPT ![q] = Saving(a, row, new)]
    BY <1>3 DEF FindForEdit, Does
  <2>2. new = row \/ new.approval = "pending"
    BY <1>1 DEF Tables, Rows
  <2> HIDE DEF row, new
  <2>3. /\ work'[q].new = new /\ work'[q].was = row
        /\ \A w \in Workers \ {q} : work'[w] = work[w]
    BY <1>1, <2>1 DEF Saving
  <2>4. QED BY <1>1, <2>2, <2>3 DEF SavesInv
<1>4. ASSUME NEW w \in Workers, Save(w) \/ ReadRows(w) \/ SendRows(w) PROVE SavesInv'
  <2>1. \E next \in {Nothing, ToSync, Syncing(hub)} : work' = [work EXCEPT ![w] = next]
    BY <1>4 DEF Save, ReadRows, SendRows, Does
  <2>2. QED BY <1>1, <1>2, <2>1 DEF Nothing, ToSync, Syncing
<1>5. CASE HearEvent
  <2> DEFINE e == Head(up)
             new == [hub[e.app] EXCEPT !.approval = e.approval]
  <2>1. CASE ~Concerns(e)
    <3>1. UNCHANGED work
      BY <1>5, <2>1 DEF HearEvent
    <3>2. QED BY <1>2, <3>1
  <2>2. CASE Concerns(e)
    <3>1. work' = [work EXCEPT ![Conn] = Saving(e.app, hub[e.app], new)] /\ hub[e.app] # None
      BY <1>5, <2>2 DEF HearEvent, Does, Concerns
    <3>2. e \in Events
      BY <1>5, Queues, Kinds DEF HearEvent, TypeInv, WiresOK
    <3>3. new.hash = hub[e.app].hash
      BY <1>1, <3>1, <3>2 DEF Events, Tables, Rows
    <3> HIDE DEF e, new
    <3>4. /\ work'[Conn].new = new /\ work'[Conn].was = hub[e.app]
          /\ \A w \in Workers \ {Conn} : work'[w] = work[w]
      BY <1>1, <3>1 DEF Saving
    <3>5. QED BY <1>1, <3>1, <3>3, <3>4 DEF SavesInv
  <2>3. QED BY <2>1, <2>2
<1>6. CASE HearRegister \/ Connect
  <2>1. work' = [work EXCEPT ![Conn] = ToSync]
    BY <1>6 DEF HearRegister, Connect, Does
  <2>2. QED BY <1>1, <1>2, <2>1 DEF ToSync
<1>7. CASE Disconnect \/ Crash
  <2>1. \A w \in Workers : work'[w] \in {work[w], Nothing}
    BY <1>7 DEF Disconnect, Crash, Drop
  <2>2. QED BY <1>2, <2>1 DEF Nothing
<1>8. CASE Sync \/ (\E e \in sending : SendEvent(e))
  <2>1. UNCHANGED work
    BY <1>8 DEF Sync, SendEvent
  <2>2. QED BY <1>2, <2>1
<1>9. CASE \/ \E a \in Apps : CliDecide("approve", a) \/ CliDecide("reject", a)
           \/ \E h \in Hashes : CliImport(h)
           \/ Drain \/ ApplyImport \/ ApplyDecision
  <2>1. UNCHANGED work
    BY <1>9 DEF CliDecide, CliImport, Drain, ApplyImport, ApplyDecision
  <2>2. QED BY <1>2, <2>1
<1>10. CASE UNCHANGED vars
  <2>1. UNCHANGED work
    BY <1>10 DEF vars
  <2>2. QED BY <1>2, <2>1
<1>11. QED BY <1>3, <1>4, <1>5, <1>6, <1>7, <1>8, <1>9, <1>10 DEF Next

(* The agent has no row that the hub has not.                              *)
LEMMA UncreatedStep ==
  ASSUME TypeInv, TypeInv', UncreatedInv, [Next]_vars
  PROVE  UncreatedInv'
<1>1. /\ work \in [Workers -> Works] /\ hub \in Tables /\ local \in Tables /\ None \notin Rows
      /\ hub' \in Tables /\ down \in Seq(Tables) /\ Conn \in Workers
  BY KindAssumption DEF TypeInv, HubOK, AgentOK, WiresOK, Workers
<1>2. ASSUME \A a \in Apps : hub'[a] = None => hub[a] = None /\ (local[a] = None => local'[a] = None),
             \A a \in Apps : (\A i \in 1..Len(down) : down[i][a] = None) /\ hub[a] = None
                             /\ (\A w \in Workers : work[w].at = "send" => work[w].rows[a] = None)
                             => (\A i \in 1..Len(down') : down'[i][a] = None),
             \A w \in Workers : \/ work'[w] = work[w] \/ work'[w].at # "send"
                                \/ work'[w].rows = hub
      PROVE  UncreatedInv'
  <2> SUFFICES ASSUME NEW a \in Apps, hub'[a] = None
               PROVE  /\ local'[a] = None
                      /\ \A i \in 1..Len(down') : down'[i][a] = None
                      /\ \A w \in Workers : work'[w].at = "send" => work'[w].rows[a] = None
    BY DEF UncreatedInv
  <2>1. hub[a] = None
    BY <1>2
  <2>2. /\ local[a] = None /\ \A i \in 1..Len(down) : down[i][a] = None
        /\ \A w \in Workers : work[w].at = "send" => work[w].rows[a] = None
    BY <2>1 DEF UncreatedInv
  <2>3. local'[a] = None
    BY <1>2, <2>2
  <2>4. \A i \in 1..Len(down') : down'[i][a] = None
    BY <1>2, <2>1, <2>2
  <2>5. \A w \in Workers : work'[w].at = "send" => work'[w].rows[a] = None
    BY <1>2, <2>1, <2>2
  <2>6. QED BY <2>3, <2>4, <2>5
<1>3. ASSUME NEW q \in Requests, NEW a \in Apps, NEW h \in Hashes, FindForEdit(q, a, h) PROVE UncreatedInv'
  <2>1. UNCHANGED <<hub, local, down>> /\ \E was, new : work' = [work EXCEPT ![q] = Saving(a, was, new)]
    BY <1>3 DEF FindForEdit, Does, wires, agent
  <2>2. \A w \in Workers : work'[w] = work[w] \/ work'[w].at # "send"
    BY <1>1, <2>1 DEF Saving
  <2>3. QED BY <1>2, <2>1, <2>2
<1>4. ASSUME NEW w \in Workers, Save(w) PROVE UncreatedInv'
  <2> DEFINE s == work[w]
  <2>1. s \in Works /\ s.at = "save"
    BY <1>1, <1>4 DEF Save
  <2>2. s.app \in Apps /\ s.was \in Rows \cup {None} /\ s.new \in Rows
    BY <2>1, Kinds
  <2>3. Written(s.app, s.was, s.new) \subseteq Rows
    BY <1>1, <2>2 DEF Written, Tables, Rows
  <2>4. /\ UNCHANGED <<local, down>> /\ \E next \in {Nothing, ToSync} : work' = [work EXCEPT ![w] = next]
        /\ \E row \in Written(s.app, s.was, s.new) : hub' = [hub EXCEPT ![s.app] = row]
    BY <1>4 DEF Save, Does, wires, agent
  <2>5. \A a \in Apps : hub'[a] = None => hub[a] = None
    BY <1>1, <2>2, <2>3, <2>4 DEF Tables
  <2>6. \A v \in Workers : work'[v] = work[v] \/ work'[v].at # "send"
    BY <1>1, <2>4 DEF Nothing, ToSync
  <2>7. QED BY <1>2, <2>4, <2>5, <2>6
<1>5. ASSUME NEW w \in Workers, ReadRows(w) PROVE UncreatedInv'
  <2>1. UNCHANGED <<hub, local, down>> /\ \E next \in {Nothing, Syncing(hub)} : work' = [work EXCEPT ![w] = next]
    BY <1>5 DEF ReadRows, Does, wires, agent
  <2>2. \A v \in Workers : work'[v] = work[v] \/ work'[v].at # "send" \/ work'[v].rows = hub
    BY <1>1, <2>1 DEF Nothing, Syncing
  <2>3. QED BY <1>2, <2>1, <2>2
<1>6. ASSUME NEW w \in Workers, SendRows(w) PROVE UncreatedInv'
  <2>1. /\ UNCHANGED <<hub, local>> /\ work' = [work EXCEPT ![w] = Nothing] /\ work[w].at = "send"
        /\ down' = Append(down, work[w].rows)
    BY <1>6 DEF SendRows, Does, agent
  <2>2. \A v \in Workers : work'[v] = work[v] \/ work'[v].at # "send"
    BY <1>1, <2>1 DEF Nothing
  <2>3. /\ Len(down') = Len(down) + 1 /\ Len(down) \in Nat
        /\ \A i \in 1..Len(down') : down'[i] = IF i <= Len(down) THEN down[i] ELSE work[w].rows
    <3>1. work[w].rows \in Tables
      BY <1>1, <2>1, Kinds
    <3>2. QED BY <1>1, <2>1, <3>1
  <2>4. \A i \in 1..Len(down') : i \in 1..Len(down) \/ down'[i] = work[w].rows
    BY <2>3
  <2>5. \A i \in 1..Len(down) : down'[i] = down[i]
    BY <2>3
  <2>6. \A a \in Apps : (\A i \in 1..Len(down) : down[i][a] = None) /\ work[w].rows[a] = None
                        => \A i \in 1..Len(down') : down'[i][a] = None
    BY <2>4, <2>5
  <2>7. QED BY <1>2, <2>1, <2>2, <2>6
<1>7. CASE HearEvent
  <2>1. UNCHANGED <<hub, local, down>>
        /\ (UNCHANGED work \/ \E a, was, new : work' = [work EXCEPT ![Conn] = Saving(a, was, new)])
    BY <1>7 DEF HearEvent, Does, agent
  <2>2. \A w \in Workers : work'[w] = work[w] \/ work'[w].at # "send"
    BY <1>1, <2>1 DEF Saving
  <2>3. QED BY <1>2, <2>1, <2>2
<1>8. CASE HearRegister
  <2>1. UNCHANGED <<local, down>> /\ work' = [work EXCEPT ![Conn] = ToSync]
    BY <1>8 DEF HearRegister, Does, agent
  <2>2. \A a \in Apps : hub'[a] = None => hub[a] = None
    <3>1. CASE UNCHANGED hub
      BY <3>1
    <3>2. CASE ~UNCHANGED hub
      <4>1. PICK b \in Apps : hub[b] = None /\ \E row : hub' = [hub EXCEPT ![b] = row]
        BY <1>8, <3>2 DEF HearRegister
      <4>2. QED BY <1>1, <4>1 DEF Tables
    <3>3. QED BY <3>1, <3>2
  <2>3. \A w \in Workers : work'[w] = work[w] \/ work'[w].at # "send"
    BY <1>1, <2>1 DEF ToSync
  <2>4. QED BY <1>2, <2>1, <2>2, <2>3
<1>9. CASE Connect \/ Disconnect \/ Crash
  <2>1. UNCHANGED <<hub, local>> /\ (UNCHANGED down \/ down' = <<>>)
    BY <1>9 DEF Connect, Disconnect, Crash, Drop, agent
  <2>2. \A w \in Workers : work'[w] \in {work[w], Nothing, ToSync}
    BY <1>1, <1>9 DEF Connect, Disconnect, Crash, Drop, Does
  <2>3. Len(<<>>) = 0 /\ 1..0 = {}
    OBVIOUS
  <2>4. \A w \in Workers : work'[w] = work[w] \/ work'[w].at # "send"
    BY <2>2 DEF Nothing, ToSync
  <2>5. QED BY <1>2, <2>1, <2>3, <2>4
<1>10. CASE Sync
  <2>1. /\ UNCHANGED <<hub, work>> /\ down # <<>> /\ down' = Tail(down)
        /\ local' = [a \in Apps |-> Adopted(a, Head(down)[a])]
    BY <1>10 DEF Sync
  <2>2. /\ Len(down) \in Nat /\ Len(down') = Len(down) - 1 /\ Head(down) = down[1] /\ 1 \in 1..Len(down)
        /\ \A i \in 1..Len(down') : down'[i] = down[i + 1]
    BY <1>1, <2>1, HeadTailProperties, EmptySeq
  <2>3. \A i \in 1..Len(down') : i + 1 \in 1..Len(down)
    BY <2>2
  <2> SUFFICES ASSUME NEW a \in Apps, hub'[a] = None
               PROVE  /\ local'[a] = None
                      /\ \A i \in 1..Len(down') : down'[i][a] = None
                      /\ \A w \in Workers : work'[w].at = "send" => work'[w].rows[a] = None
    BY DEF UncreatedInv
  <2>4. hub[a] = None
    BY <2>1
  <2>5. \A i \in 1..Len(down) : down[i][a] = None
    BY <2>4 DEF UncreatedInv
  <2>6. local'[a] = None
    BY <2>1, <2>2, <2>5 DEF Adopted
  <2>7. \A i \in 1..Len(down') : down'[i][a] = None
    BY <2>2, <2>3, <2>5
  <2>8. QED BY <2>1, <2>4, <2>6, <2>7 DEF UncreatedInv
<1>11. CASE \/ \E e \in sending : SendEvent(e)
            \/ \E a \in Apps : CliDecide("approve", a) \/ CliDecide("reject", a)
            \/ \E h \in Hashes : CliImport(h)
            \/ Drain \/ ApplyImport \/ UNCHANGED vars
  <2>1. UNCHANGED <<hub, work, local, down>>
    BY <1>11 DEF SendEvent, CliDecide, CliImport, Drain, ApplyImport, vars, wires, agent
  <2>2. QED BY <1>2, <2>1
<1>12. CASE ApplyDecision
  <2>1. UNCHANGED <<hub, work, down>>
        /\ \/ UNCHANGED local
           \/ \E b, v : local[b] # None /\ local' = [local EXCEPT ![b].approval = v]
    BY <1>12 DEF ApplyDecision
  <2>2. \A a \in Apps : local[a] = None => local'[a] = None
    BY <1>1, <2>1 DEF Tables
  <2>3. QED BY <1>2, <2>1, <2>2
<1>13. QED
  BY <1>3, <1>4, <1>5, <1>6, <1>7, <1>8, <1>9, <1>10, <1>11, <1>12 DEF Next

(* The hub's steps bring a decision nearer, or make its app astray.        *)
LEMMA HubStepArrives ==
  ASSUME TypeInv, DecisionInv,
         \/ \E q \in Requests, a \in Apps, h \in Hashes : FindForEdit(q, a, h)
         \/ \E w \in Workers : Save(w) \/ ReadRows(w) \/ SendRows(w)
         \/ HearEvent \/ HearRegister
  PROVE  ArrivesInv' /\ WaitsInv'
<1>1. UNCHANGED <<local, sending>> /\ astray \subseteq astray'
  BY DEF FindForEdit, Save, ReadRows, SendRows, HearEvent, HearRegister, agent
<1>2. WaitsInv'
  BY <1>1 DEF DecisionInv, WaitsInv, Waiting
<1> SUFFICES ASSUME NEW a \in Apps \ astray', NEW h \in Hashes, NEW v \in Approvals,
                    local'[a] = [hash |-> h, approval |-> v], Waiting(a)' = {}
             PROVE  Arrives(a, h, v)'
  BY <1>2 DEF ArrivesInv
<1>3. a \in Apps \ astray /\ local[a] = [hash |-> h, approval |-> v] /\ Waiting(a) = {}
  BY <1>1 DEF Waiting
<1>4. Arrives(a, h, v)
  BY <1>3 DEF DecisionInv, ArrivesInv
<1>5. work \in [Workers -> Works] /\ hub \in Tables /\ up \in Seq(Frames)
      /\ Conn \in Workers /\ Conn \notin Requests /\ None \notin Rows
      /\ \A w \in Workers : w = Conn \/ w \in Requests
  BY KindAssumption DEF TypeInv, HubOK, WiresOK, Workers
<1>6. ASSUME UNCHANGED <<up, hub>>, work'[Conn] = work[Conn] PROVE Arrives(a, h, v)'
  BY <1>4, <1>6 DEF Arrives, Answering
<1>7. ASSUME NEW q \in Requests, NEW b \in Apps, NEW g \in Hashes, FindForEdit(q, b, g)
      PROVE  Arrives(a, h, v)'
  <2>1. UNCHANGED <<hub, up>> /\ \E next : work' = [work EXCEPT ![q] = next]
    BY <1>7 DEF FindForEdit, Does, wires
  <2>2. QED BY <1>5, <1>6, <2>1
<1>8. ASSUME NEW w \in Workers, Save(w) PROVE Arrives(a, h, v)'
  <2> DEFINE s == work[w]
  <2>1. s \in Works /\ s.at = "save"
    BY <1>5, <1>8 DEF Save
  <2>2. s.app \in Apps /\ s.was \in Rows \cup {None} /\ s.new \in Rows
    BY <2>1, Kinds
  <2>3. PICK row \in Written(s.app, s.was, s.new) : hub' = [hub EXCEPT ![s.app] = row]
    BY <1>8 DEF Save
  <2>4. /\ astray' = IF hub[s.app] = s.was THEN astray ELSE astray \cup {s.app}
        /\ UNCHANGED up /\ \E next \in {Nothing, ToSync} : work' = [work EXCEPT ![w] = next]
    BY <1>8 DEF Save, Does, wires
  <2>5. s.app = a => row = s.new /\ hub[a] = s.was
    BY <1>5, <2>2, <2>3, <2>4 DEF Written, Rows, Tables
  <2>6. hub'[a] = IF s.app = a THEN s.new ELSE hub[a]
    BY <1>5, <2>3, <2>5 DEF Tables
  <2>7. CASE w = Conn
    <3>1. ~Answering(a, h)'
      BY <1>5, <2>4, <2>7 DEF Answering, Nothing, ToSync
    <3>2. s.app = a => s.new.hash = hub[a].hash /\ hub[a] # None
      BY <2>1, <2>5, <2>7 DEF DecisionInv, SavesInv
    <3>3. Answering(a, h) <=> s.app = a /\ s.new.hash = h
      BY <2>1, <2>7 DEF Answering
    <3>4. QED BY <1>4, <2>2, <2>4, <2>6, <2>7, <3>1, <3>2, <3>3 DEF Arrives
  <2>8. CASE w \in Requests
    <3>1. work'[Conn] = work[Conn]
      BY <1>5, <2>4, <2>8
    <3>2. s.new = s.was \/ s.new.approval = "pending"
      BY <2>1, <2>8 DEF DecisionInv, SavesInv
    <3>3. hub'[a] = hub[a] \/ hub'[a].approval = "pending"
      BY <2>5, <2>6, <3>2
    <3>4. QED BY <1>4, <2>4, <3>1, <3>3 DEF Arrives, Answering
  <2>9. QED BY <1>5, <2>7, <2>8
<1>9. ASSUME NEW w \in Workers, ReadRows(w) \/ SendRows(w) PROVE Arrives(a, h, v)'
  <2>1. /\ UNCHANGED <<hub, up>> /\ work[w].at # "save"
        /\ \E next \in {Nothing, Syncing(hub)} : work' = [work EXCEPT ![w] = next]
    BY <1>9 DEF ReadRows, SendRows, Does, wires
  <2>2. CASE w = Conn
    <3>1. ~Answering(a, h) /\ ~Answering(a, h)'
      BY <1>5, <2>1, <2>2 DEF Answering, Nothing, Syncing
    <3>2. QED BY <1>4, <2>1, <3>1 DEF Arrives
  <2>3. CASE w # Conn
    BY <1>5, <1>6, <2>1, <2>3
  <2>4. QED BY <2>2, <2>3
<1>10. CASE HearEvent
  <2> DEFINE e == Head(up)
             new == [hub[e.app] EXCEPT !.approval = e.approval]
  <2>1. /\ UNCHANGED hub /\ up' = Tail(up) /\ up # <<>> /\ "app" \in DOMAIN e
        /\ work[Conn] = Nothing
    BY <1>10 DEF HearEvent
  <2>2. e \in Events
    BY <1>5, <2>1, Queues, Kinds
  <2>3. LastTold(up, a, h, v) /\ ~Answering(a, h)
    BY <1>4, <2>1 DEF Arrives, Answering, Nothing
  <2>4. /\ LastTold(up', a, h, v)
        /\ Silent(up', a, h) => IF Tells(e, a, h) THEN e.approval = v ELSE Silent(up, a, h)
    BY <1>5, <2>1, <2>3, FirstHeard
  <2>5. Tells(e, a, h) <=> e.app = a /\ e.hash = h
    BY <2>1 DEF Tells
  <2>6. ~Tells(e, a, h) /\ Silent(up', a, h) =>
          (hub[a] # None /\ hub[a].hash = h /\ hub[a].approval # "pending" => hub[a].approval = v)
    BY <1>4, <2>3, <2>4 DEF Arrives
  <2>7. CASE ~Concerns(e)
    <3>1. UNCHANGED work
      BY <1>10, <2>7 DEF HearEvent
    <3>2. ~Answering(a, h)'
      BY <2>3, <3>1 DEF Answering
    <3>3. Tells(e, a, h) => ~(hub[a] # None /\ hub[a].hash = h)
      BY <2>5, <2>7 DEF Concerns
    <3>4. QED BY <2>1, <2>4, <2>6, <3>2, <3>3 DEF Arrives
  <2>8. CASE Concerns(e)
    <3>1. work' = [work EXCEPT ![Conn] = Saving(e.app, hub[e.app], new)]
          /\ hub[e.app] # None /\ hub[e.app].hash = e.hash
      BY <1>10, <2>8 DEF HearEvent, Does, Concerns
    <3>2. new.hash = e.hash /\ new.approval = e.approval
      BY <1>5, <2>2, <3>1 DEF Events, Tables, Rows
    <3> HIDE DEF e, new
    <3>3. work'[Conn] = Saving(e.app, hub[e.app], new)
      BY <1>5, <3>1
    <3>4. (Answering(a, h)' <=> Tells(e, a, h)) /\ work'[Conn].new.approval = e.approval
      BY <2>5, <3>2, <3>3 DEF Answering, Saving
    <3>5. QED BY <2>1, <2>4, <2>6, <3>4 DEF Arrives
  <2>9. QED BY <2>7, <2>8
<1>11. CASE HearRegister
  <2>1. /\ up' = Tail(up) /\ up # <<>> /\ "register" \in DOMAIN Head(up) /\ work[Conn] = Nothing
        /\ work' = [work EXCEPT ![Conn] = ToSync]
    BY <1>11 DEF HearRegister, Does
  <2>2. ~Answering(a, h) /\ ~Answering(a, h)'
    BY <1>5, <2>1 DEF Answering, Nothing, ToSync
  <2>3. Head(up) \in Frames
    BY <1>5, <2>1, Queues
  <2>4. ~Tells(Head(up), a, h)
    BY <2>1, <2>3 DEF Tells, Frames, Events
  <2>5. LastTold(up', a, h, v) /\ (Silent(up', a, h) => Silent(up, a, h))
    BY <1>4, <1>5, <2>1, <2>4, FirstHeard DEF Arrives
  <2>6. hub'[a] = hub[a]
    <3>1. hub[a] # None
      BY <1>3, <1>5 DEF DecisionInv, UncreatedInv, Rows
    <3>2. CASE UNCHANGED hub
      BY <3>2
    <3>3. CASE ~UNCHANGED hub
      <4>1. PICK b \in Apps : hub[b] = None /\ \E row : hub' = [hub EXCEPT ![b] = row]
        BY <1>11, <3>3 DEF HearRegister
      <4>2. QED BY <1>5, <3>1, <4>1 DEF Tables
    <3>4. QED BY <3>2, <3>3
  <2>7. QED BY <1>4, <2>2, <2>5, <2>6 DEF Arrives
<1>12. QED BY <1>7, <1>8, <1>9, <1>10, <1>11

(* What a lost connection, or agent, takes with it is astray.              *)
LEMMA ConnectionStepArrives ==
  ASSUME TypeInv, DecisionInv, Connect \/ Disconnect \/ Crash
  PROVE  ArrivesInv' /\ WaitsInv'
<1>1. /\ UNCHANGED <<hub, local>> /\ astray \subseteq astray' /\ sending' \subseteq sending
      /\ \A e \in sending : e \in sending' \/ e.app \in astray'
  BY DEF Connect, Disconnect, Crash, agent
<1>2. ASSUME NEW a \in Apps \ astray' PROVE Waiting(a)' = Waiting(a)
  BY <1>1 DEF Waiting
<1>3. WaitsInv'
  BY <1>1, <1>2 DEF DecisionInv, WaitsInv
<1> SUFFICES ASSUME NEW a \in Apps \ astray', NEW h \in Hashes, NEW v \in Approvals,
                    local'[a] = [hash |-> h, approval |-> v], Waiting(a)' = {}
             PROVE  Arrives(a, h, v)'
  BY <1>3 DEF ArrivesInv
<1>4. Arrives(a, h, v)
  BY <1>1, <1>2 DEF DecisionInv, ArrivesInv
<1>5. work \in [Workers -> Works] /\ Conn \in Workers
  BY DEF TypeInv, HubOK, Workers
<1>6. CASE Connect
  <2>1. UNCHANGED up /\ work[Conn] = Nothing /\ work' = [work EXCEPT ![Conn] = ToSync]
    BY <1>6 DEF Connect, Does
  <2>2. ~Answering(a, h) /\ ~Answering(a, h)'
    BY <1>5, <2>1 DEF Answering, Nothing, ToSync
  <2>3. QED BY <1>1, <1>4, <2>1, <2>2 DEF Arrives
<1>7. CASE Disconnect \/ Crash
  <2>1. up' = <<>> /\ InFlight \subseteq astray'
        /\ work'[Conn] = IF work[Conn].at = "save" THEN work[Conn] ELSE Nothing
    BY <1>5, <1>7 DEF Disconnect, Crash, Drop
  <2>2. DOMAIN up = 1..Len(up)
    BY LenProperties DEF TypeInv, WiresOK
  <2>3. Silent(up, a, h)
    BY <2>1, <2>2 DEF Silent, Tells, InFlight
  <2>4. LastTold(up', a, h, v)
    <3>1. 1..Len(up') = {}
      BY <2>1
    <3>2. QED BY <3>1 DEF LastTold
  <2>5. (Answering(a, h)' <=> Answering(a, h))
        /\ (Answering(a, h) => work'[Conn].new.approval = work[Conn].new.approval)
    BY <2>1 DEF Answering, Nothing
  <2>6. QED BY <1>1, <1>4, <2>3, <2>4, <2>5 DEF Arrives
<1>8. QED BY <1>6, <1>7

(* applyAppSync tells the hub of every app it changes.                     *)
LEMMA SyncArrives ==
  ASSUME TypeInv, TypeInv', DecisionInv, Sync
  PROVE  ArrivesInv' /\ WaitsInv'
<1> DEFINE rows == Head(down)
           fresh == {a \in Apps : rows[a] # None /\ Adopted(a, rows[a]) # local[a]}
           told == {[app |-> a, hash |-> local'[a].hash, approval |-> local'[a].approval] : a \in fresh}
<1>1. /\ local' = [a \in Apps |-> Adopted(a, rows[a])] /\ sending' = sending \cup told
      /\ astray' = astray \cup {e.app : e \in told \cap sending}
      /\ UNCHANGED <<hub, up, work>>
  BY DEF Sync
<1>2. local' \in Tables /\ None \notin Rows
  BY KindAssumption DEF TypeInv, AgentOK
<1>3. ASSUME NEW a \in Apps PROVE a \in fresh \/ local'[a] = None \/ local'[a] = local[a]
  BY <1>1 DEF Adopted
<1>4. ASSUME NEW a \in fresh, a \notin astray'
      PROVE  \E e \in Waiting(a)' \ Waiting(a) :
               e.hash = local'[a].hash /\ e.approval = local'[a].approval
  <2> DEFINE e == [app |-> a, hash |-> local'[a].hash, approval |-> local'[a].approval]
  <2>1. e \in told /\ e.app = a /\ e.hash = local'[a].hash /\ e.approval = local'[a].approval
    OBVIOUS
  <2> HIDE DEF e, told
  <2>2. e \notin sending
    BY <1>1, <1>4, <2>1
  <2>3. QED BY <1>1, <2>1, <2>2 DEF Waiting
<1>5. ASSUME NEW a \in Apps \ fresh PROVE Waiting(a)' = Waiting(a)
  <2>1. \A e \in told : e.app \in fresh
    OBVIOUS
  <2> HIDE DEF told, fresh
  <2>2. QED BY <1>1, <1>5, <2>1 DEF Waiting
<1> HIDE DEF rows, fresh, told
<1>6. WaitsInv'
  <2> SUFFICES ASSUME NEW a \in Apps \ astray', NEW e \in sending', Waiting(a)' = {e}
               PROVE  local'[a] = None \/ local'[a] = [hash |-> e.hash, approval |-> e.approval]
    BY DEF WaitsInv
  <2>1. CASE a \in fresh
    <3>1. e.hash = local'[a].hash /\ e.approval = local'[a].approval
      BY <1>4, <2>1
    <3>2. QED BY <1>2, <3>1 DEF Tables, Rows
  <2>2. CASE a \notin fresh
    <3>1. Waiting(a) = {e} /\ a \in Apps \ astray
      BY <1>1, <1>5, <2>2
    <3>2. e \in sending
      BY <3>1 DEF Waiting
    <3>3. QED BY <1>3, <2>2, <3>1, <3>2 DEF DecisionInv, WaitsInv
  <2>3. QED BY <2>1, <2>2
<1>7. ArrivesInv'
  <2> SUFFICES ASSUME NEW a \in Apps \ astray', NEW h \in Hashes, NEW v \in Approvals,
                      local'[a] = [hash |-> h, approval |-> v], Waiting(a)' = {}
               PROVE  Arrives(a, h, v)'
    BY DEF ArrivesInv
  <2>1. a \notin fresh
    BY <1>4
  <2>2. local[a] = local'[a] /\ Waiting(a) = {} /\ a \in Apps \ astray
    BY <1>1, <1>2, <1>3, <1>5, <2>1 DEF Rows
  <2>3. Arrives(a, h, v)
    BY <2>2 DEF DecisionInv, ArrivesInv
  <2>4. QED BY <1>1, <2>3 DEF Arrives, Answering
<1>8. QED BY <1>6, <1>7

(* A decision sent last is on its way, and another frame does not delay it.*)
LEMMA SentArrives ==
  ASSUME TypeInv, UNCHANGED <<hub, work>>, NEW f \in Frames, up' = Append(up, f),
         NEW a, NEW h, NEW v,
         IF Tells(f, a, h) THEN f.approval = v ELSE Arrives(a, h, v)
  PROVE  Arrives(a, h, v)'
<1>1. up \in Seq(Frames)
  BY DEF TypeInv, WiresOK
<1>2. /\ Silent(up', a, h) => Silent(up, a, h) /\ ~Tells(f, a, h)
      /\ IF Tells(f, a, h) THEN f.approval = v => LastTold(up', a, h, v)
         ELSE LastTold(up, a, h, v) => LastTold(up', a, h, v)
  BY <1>1, OneMoreSent
<1>3. CASE Tells(f, a, h)
  BY <1>2, <1>3 DEF Arrives
<1>4. CASE ~Tells(f, a, h)
  BY <1>2, <1>4 DEF Arrives, Answering
<1>5. QED BY <1>3, <1>4

(* The agent tells of its decisions in order, or the app is astray.        *)
LEMMA AgentStepArrives ==
  ASSUME TypeInv, DecisionInv,
         (\E e \in sending : SendEvent(e)) \/ ApplyImport \/ ApplyDecision
  PROVE  ArrivesInv' /\ WaitsInv'
<1>1. UNCHANGED <<hub, work>> /\ local \in Tables /\ None \notin Rows /\ sending \subseteq Events
  BY KindAssumption DEF SendEvent, ApplyImport, ApplyDecision, TypeInv, AgentOK
<1>2. ASSUME NEW e \in sending, SendEvent(e) PROVE ArrivesInv' /\ WaitsInv'
  <2>1. /\ UNCHANGED local /\ sending' = sending \ {e} /\ astray \subseteq astray'
        /\ up' = IF link THEN Append(up, e) ELSE up
        /\ e.app \notin astray' => link /\ \A x \in sending' : x.app # e.app
    BY <1>2 DEF SendEvent, Tell
  <2>2. \A a : a # e.app => Waiting(a)' = Waiting(a)
    BY <2>1 DEF Waiting
  <2>3. e.app \notin astray' => Waiting(e.app)' = {} /\ Waiting(e.app) = {e}
    BY <2>1 DEF Waiting
  <2>4. WaitsInv'
    BY <2>1, <2>2, <2>3 DEF DecisionInv, WaitsInv
  <2> SUFFICES ASSUME NEW a \in Apps \ astray', NEW h \in Hashes, NEW v \in Approvals,
                      local'[a] = [hash |-> h, approval |-> v], Waiting(a)' = {}
               PROVE  Arrives(a, h, v)'
    BY <2>4 DEF ArrivesInv
  <2>5. e \in Frames /\ local[a] = [hash |-> h, approval |-> v] /\ a \in Apps \ astray
    BY <1>1, <2>1 DEF Frames
  <2>6. CASE e.app = a
    <3>1. local[a] = None \/ local[a] = [hash |-> e.hash, approval |-> e.approval]
      BY <2>3, <2>5, <2>6 DEF DecisionInv, WaitsInv
    <3>2. e.approval = v /\ e.hash = h
      BY <1>1, <2>5, <3>1 DEF Rows
    <3>3. Tells(e, a, h)
      BY <1>1, <2>6, <3>2 DEF Tells, Events
    <3>4. QED BY <1>1, <2>1, <2>5, <2>6, <3>2, <3>3, SentArrives
  <2>7. CASE e.app # a
    <3>1. Arrives(a, h, v)
      BY <2>2, <2>5, <2>7 DEF DecisionInv, ArrivesInv
    <3>2. ~Tells(e, a, h)
      BY <2>7 DEF Tells
    <3>3. CASE link
      BY <1>1, <2>1, <2>5, <3>1, <3>2, <3>3, SentArrives
    <3>4. CASE ~link
      BY <1>1, <2>1, <3>1, <3>4 DEF Arrives, Answering
    <3>5. QED BY <3>3, <3>4
  <2>8. QED BY <2>6, <2>7
<1>3. CASE ApplyImport
  <2>1. /\ UNCHANGED <<local, sending, astray>> /\ drained # <<>> /\ Head(drained).op = "import"
        /\ up' = IF link THEN Append(up, [register |-> Head(drained).hash]) ELSE up
    BY <1>3 DEF ApplyImport, Done
  <2>2. Head(drained).hash \in Hashes
    BY <2>1, Queues, Kinds DEF TypeInv, CliOK
  <2>3. WaitsInv'
    BY <2>1 DEF DecisionInv, WaitsInv, Waiting
  <2> SUFFICES ASSUME NEW a \in Apps \ astray', NEW h \in Hashes, NEW v \in Approvals,
                      local'[a] = [hash |-> h, approval |-> v], Waiting(a)' = {}
               PROVE  Arrives(a, h, v)'
    BY <2>3 DEF ArrivesInv
  <2>4. Arrives(a, h, v)
    BY <2>1 DEF DecisionInv, ArrivesInv, Waiting
  <2> DEFINE f == [register |-> Head(drained).hash]
  <2>5. f \in Frames /\ ~Tells(f, a, h)
    BY <2>2, Built DEF Tells
  <2> HIDE DEF f
  <2>6. CASE link
    <3>1. up' = Append(up, f)
      BY <2>1, <2>6 DEF f
    <3>2. QED BY <1>1, <2>4, <2>5, <3>1, SentArrives
  <2>7. CASE ~link
    BY <1>1, <2>1, <2>4, <2>7 DEF Arrives, Answering
  <2>8. QED BY <2>6, <2>7
<1>4. CASE ApplyDecision
  <2> DEFINE b == Head(drained).app
             approval == IF Head(drained).op = "approve" THEN "approved" ELSE "rejected"
             e == [app |-> b, hash |-> local[b].hash, approval |-> approval]
  <2>1. UNCHANGED sending /\ b \in Apps /\ approval \in Approvals
    <3>1. UNCHANGED sending /\ drained # <<>> /\ Head(drained).op # "import"
      BY <1>4 DEF ApplyDecision, Done
    <3>2. Head(drained) \in Ops
      BY <3>1, Queues DEF TypeInv, CliOK
    <3>3. QED BY <3>1, <3>2, Kinds DEF Approvals
  <2>2. CASE local[b] = None
    <3>1. UNCHANGED <<local, up, astray>>
      BY <1>4, <2>2 DEF ApplyDecision
    <3>2. QED
      BY <1>1, <2>1, <3>1 DEF DecisionInv, ArrivesInv, WaitsInv, Arrives, Answering, Waiting
  <2>3. CASE local[b] # None
    <3>1. /\ local' = [local EXCEPT ![b].approval = approval] /\ astray \subseteq astray'
          /\ up' = IF link THEN Append(up, e) ELSE up
          /\ b \notin astray' => link /\ \A x \in sending : x.app # b
      BY <1>4, <2>3 DEF ApplyDecision, Report, Tell
    <3>2. local[b] \in Rows
      BY <1>1, <2>1, <2>3 DEF Tables
    <3>3. e \in Frames /\ e.app = b /\ e.hash = local[b].hash /\ e.approval = approval
      BY <2>1, <3>2 DEF Frames, Events, Rows
    <3>4. /\ local'[b] = [hash |-> local[b].hash, approval |-> approval]
          /\ \A a \in Apps : a # b => local'[a] = local[a]
      BY <1>1, <2>1, <3>1, <3>2 DEF Tables, Rows
    <3> HIDE DEF b, approval, e
    <3>5. \A a : Waiting(a)' = Waiting(a)
      BY <2>1 DEF Waiting
    <3>6. b \notin astray' => Waiting(b) = {}
      BY <3>1 DEF Waiting
    <3>7. WaitsInv'
      BY <2>1, <3>1, <3>4, <3>5, <3>6 DEF DecisionInv, WaitsInv
    <3> SUFFICES ASSUME NEW a \in Apps \ astray', NEW h \in Hashes, NEW v \in Approvals,
                        local'[a] = [hash |-> h, approval |-> v], Waiting(a)' = {}
                 PROVE  Arrives(a, h, v)'
      BY <3>7 DEF ArrivesInv
    <3>8. CASE a = b
      <4>1. e.hash = h /\ e.approval = v
        BY <3>3, <3>4, <3>8
      <4>2. Tells(e, a, h)
        BY <3>3, <3>8, <4>1 DEF Tells, e
      <4>3. QED BY <1>1, <3>1, <3>3, <3>8, <4>1, <4>2, SentArrives
    <3>9. CASE a # b
      <4>1. Arrives(a, h, v)
        BY <3>1, <3>4, <3>5, <3>9 DEF DecisionInv, ArrivesInv
      <4>2. ~Tells(e, a, h)
        BY <3>3, <3>9 DEF Tells
      <4>3. CASE link
        BY <1>1, <3>1, <3>3, <4>1, <4>2, <4>3, SentArrives
      <4>4. CASE ~link
        BY <1>1, <3>1, <4>1, <4>4 DEF Arrives, Answering
      <4>5. QED BY <4>3, <4>4
    <3>10. QED BY <3>8, <3>9
  <2>4. QED BY <2>2, <2>3
<1>5. QED BY <1>2, <1>3, <1>4

(* With nothing under way, a decision the hub shows is the host's last     *)
(* one, unless one of its events was lost, overtaken by another or by an   *)
(* edit (applySpoolOp, applyAppSync, onApprovalEvent).                     *)
THEOREM DecisionTheorem == Spec => []HubShowsDecision
<1>1. Init => DecisionInv
  <2> SUFFICES ASSUME Init PROVE DecisionInv
    OBVIOUS
  <2>1. SavesInv
    BY DEF Init, SavesInv, Nothing, Workers
  <2>2. UncreatedInv
    <3>1. 1..Len(down) = {}
      BY DEF Init
    <3>2. QED BY <3>1 DEF Init, UncreatedInv, Nothing
  <2>3. ArrivesInv /\ WaitsInv
    BY KindAssumption DEF Init, ArrivesInv, WaitsInv, Rows
  <2>4. QED BY <2>1, <2>2, <2>3 DEF DecisionInv
<1>2. TypeInv /\ TypeInv' /\ DecisionInv /\ [Next]_vars => DecisionInv'
  <2> SUFFICES ASSUME TypeInv, TypeInv', DecisionInv, [Next]_vars PROVE DecisionInv'
    OBVIOUS
  <2>1. SavesInv' /\ UncreatedInv'
    BY SavesStep, UncreatedStep DEF DecisionInv
  <2>2. ASSUME UNCHANGED <<hub, up, work, local, sending, astray>> PROVE ArrivesInv' /\ WaitsInv'
    BY <2>2 DEF DecisionInv, ArrivesInv, WaitsInv, Arrives, Answering, Waiting
  <2>3. ASSUME \/ \E a \in Apps : CliDecide("approve", a) \/ CliDecide("reject", a)
               \/ \E h \in Hashes : CliImport(h)
               \/ Drain \/ UNCHANGED vars
        PROVE  ArrivesInv' /\ WaitsInv'
    <3>1. UNCHANGED <<hub, up, work, local, sending, astray>>
      BY <2>3 DEF CliDecide, CliImport, Drain, vars, wires, agent
    <3>2. QED BY <2>2, <3>1
  <2>4. ArrivesInv' /\ WaitsInv'
    BY <2>3, HubStepArrives, ConnectionStepArrives, SyncArrives, AgentStepArrives DEF Next
  <2>5. QED BY <2>1, <2>4 DEF DecisionInv
<1>3. TypeInv /\ DecisionInv => HubShowsDecision
  <2> SUFFICES ASSUME TypeInv, DecisionInv, Quiet, NEW a \in Apps \ astray,
                      hub[a] # None, local[a] # None, hub[a].hash = local[a].hash,
                      hub[a].approval # "pending"
               PROVE  hub[a].approval = local[a].approval
    BY DEF HubShowsDecision
  <2>1. up = <<>> /\ sending = {} /\ work[Conn] = Nothing
    BY DEF Quiet, Workers
  <2>2. local[a] \in Rows
    BY DEF TypeInv, AgentOK, Tables
  <2>3. Waiting(a) = {}
    BY <2>1 DEF Waiting
  <2>4. Arrives(a, local[a].hash, local[a].approval)
    <3>1. PICK h \in Hashes, v \in Approvals : local[a] = [hash |-> h, approval |-> v]
      BY <2>2 DEF Rows
    <3>2. Arrives(a, h, v)
      BY <2>3, <3>1 DEF DecisionInv, ArrivesInv
    <3>3. QED BY <3>1, <3>2
  <2>5. Silent(up, a, local[a].hash)
    <3>1. 1..Len(up) = {}
      BY <2>1
    <3>2. QED BY <3>1 DEF Silent
  <2>6. ~Answering(a, local[a].hash)
    BY <2>1 DEF Answering, Nothing
  <2>7. QED BY <2>4, <2>5, <2>6 DEF Arrives
<1>4. QED BY <1>1, <1>2, <1>3, TypeInvariant, PTL DEF Spec
=============================================================================
