---------------------------- MODULE MetricsProofs ---------------------------
(***************************************************************************)
(* What Metrics' run checks of a sample's way through the tiers, proved    *)
(* for any keys, any number of tiers of any widths, and any clock: it is   *)
(* stored once, summed up with its whole bucket, and never forgotten by a  *)
(* pass that succeeds.                                                     *)
(***************************************************************************)
EXTENDS Metrics, WellFoundedInduction, TLAPS

-----------------------------------------------------------------------------
(* The invariants.                                                         *)

AgentOK == /\ now \in 0..MaxTime /\ sampled \in BOOLEAN /\ conn \in {"none", "up", "lost"}
           /\ buf \in Seq(SUBSET Samples) /\ Len(buf) <= BufferCap
           /\ wire \in Seq(SUBSET Samples)
RowOK(r) == /\ r.tier \in Tiers /\ r.at \in 0..MaxTime
            /\ \A s \in r.of : s \in Samples /\ s.key = r.key
HubOK == /\ \A r \in rows : RowOK(r)
         /\ pass \in 0..(2 * Len(Retain)) /\ failed \subseteq Tiers
         /\ turn \in [Rolled -> 0..MaxTime]
HistoryOK == /\ late \subseteq Rolled \X Samples /\ held \subseteq Rolled \X Samples
             /\ lost \subseteq Samples /\ expired \subseteq Samples /\ faults \in 0..MaxFaults

TypeInv == AgentOK /\ HubOK /\ HistoryOK

\* No two frames of f share a sample.
Apart(f) == \A i, j \in 1..Len(f) : i # j => f[i] \cap f[j] = {}

Held == Stored \cup expired

\* Where a sample that was taken can be.
Everywhere == All(buf) \cup All(wire) \cup Held \cup lost

\* Nothing is anywhere before it is sampled.
FreshInv == \A s \in Everywhere : s.at < now \/ (s.at = now /\ sampled)

\* SampleInOnePlace, with the buffer and the wire as sets of frames.
PlaceInv ==
  /\ Apart(buf) /\ Apart(wire) /\ All(buf) \cap All(wire) = {}
  /\ (All(buf) \cup All(wire)) \cap (Held \cup lost) = {}
  /\ Held \cap lost = {}

\* Tiers have their turn in order, and rows only of buckets that were over when
\* the tier below had its own.
TurnInv ==
  /\ \A i \in Rolled : turn[i] <= now
  /\ \A i, j \in Rolled : j = i + 1 => turn[j] <= turn[i]
  /\ \A i \in Rolled : pass # 0 /\ 2 * i - 1 < pass => turn[i] = now
  /\ \A x \in rows : \A i \in Rolled : x.tier = i + 1 => x.at < Bucket(turn[i], i)

\* The bucket above tier i of the row r has yet to be made.
ToRoll(i, r) == \A x \in rows : x.tier = i + 1 /\ x.key = r.key => x.at < Bucket(r.at, i)

\* The samples of r may miss their bucket above tier j, if it was over when tier
\* i had its turn.
MayMiss(i, j, r) ==
  Bucket(r.at, j) < Bucket(turn[i], j) => \A s \in r.of : Missed(j, s)

\* What is yet to be rolled up is in time for the coarser tiers.
PromptInv ==
  \A r \in rows : \A i, j \in Rolled : r.tier = i /\ j > i /\ ToRoll(i, r) => MayMiss(i, j, r)

\* What a pass leaves behind when it has expired a tier.
ExpiredInv ==
  \A r \in rows : \A i \in Rolled :
    r.tier = i /\ pass > 2 * i
      => \/ r.at >= now - Retain[i]
         \/ i = 1 /\ \A j \in Rolled : MayMiss(i, j, r)

SomeMissed(s) == \E m \in Rolled : Missed(m, s)

\* Between the two halves of a tier's turn nothing is left to roll up.
PassInv ==
  \A r \in rows : \A i \in Rolled :
    r.tier = i /\ pass = 2 * i /\ i \notin failed /\ Bucket(r.at, i) < Bucket(now, i)
      => ~ ToRoll(i, r) \/ \A s \in r.of : SomeMissed(s)

\* Where the sample s of a row of tier i may be besides it.
Kept(i, s) == \/ SomeMissed(s) \/ s \in expired
              \/ \E x \in rows : x.tier > i /\ s \in x.of

\* What was rolled up need no longer be in the tier below.
KeptInv ==
  \A r \in rows : \A i \in Rolled :
    r.tier = i /\ ~ ToRoll(i, r) => \A s \in r.of : Kept(i, s)

-----------------------------------------------------------------------------
(* Arithmetic of buckets.                                                  *)

\* Division with a remainder.
LEMMA Quotient ==
  ASSUME NEW t \in Nat, NEW w \in Nat \ {0}
  PROVE  /\ t % w \in 0..(w - 1)
         /\ t \div w \in Nat
         /\ t = w * (t \div w) + (t % w)
OBVIOUS

\* Multiples of w are at least w apart.
LEMMA Multiples ==
  ASSUME NEW w \in Nat, NEW a \in Nat, NEW b \in Nat, a < b
  PROVE  w * a + w <= w * b
<1>1. PICK d \in Nat : b = a + 1 + d
  BY b = a + 1 + (b - a - 1)
<1>2. w * b = w * a + w + w * d
  BY <1>1
<1>3. w * d \in Nat /\ w * a \in Nat
  OBVIOUS
<1> QED
  BY <1>2, <1>3

\* The widths are positive, and a tier's retention covers a bucket of the next.
LEMMA WidthFacts ==
  /\ Len(Widths) \in Nat /\ Len(Retain) = Len(Widths) + 1
  /\ \A i \in Rolled : /\ Widths[i] \in Nat \ {0} /\ Retain[i] \in Nat /\ Retain[i] >= Widths[i]
                       /\ i \in Nat \ {0} /\ i \in Tiers /\ i + 1 \in Tiers
<1>1. /\ Widths \in Seq(Nat \ {0}) /\ Len(Retain) = Len(Widths) + 1
      /\ \A i \in DOMAIN Widths : Retain[i] >= Widths[i]
  BY WidthAssumption
<1>2. Retain \in Seq(Nat)
  BY BoundAssumption
<1> QED
  BY <1>1, <1>2 DEF Rolled, Tiers

\* A coarser bucket is made of whole finer ones, and a row outlives one bucket
\* more than the rows of the tier below.
LEMMA WidthPairs ==
  ASSUME NEW i \in Rolled, NEW j \in Rolled
  PROVE  /\ i <= j => Widths[j] % Widths[i] = 0
         /\ j = i + 1 => Retain[i] + Widths[i] <= Retain[j]
BY WidthAssumption DEF Rolled

\* The multiple of w at or below t.
Floor(t, w) == t - (t % w)

\* It is at or below t, and the next one is above; floors are in the order of
\* what they are taken of.
LEMMA FloorFacts ==
  ASSUME NEW t \in Nat, NEW u \in Nat, NEW w \in Nat \ {0}
  PROVE  /\ Floor(t, w) \in Nat /\ Floor(t, w) <= t /\ t < Floor(t, w) + w
         /\ Floor(t, w) < Floor(u, w) => t < Floor(u, w)
         /\ t <= u => Floor(t, w) <= Floor(u, w)
<1> DEFINE a == t \div w
           b == u \div w
<1>1. a \in Nat /\ b \in Nat
  BY Quotient
<1>2. Floor(t, w) = w * a /\ Floor(u, w) = w * b
  BY Quotient DEF Floor
<1>3. Floor(t, w) \in Nat /\ Floor(t, w) <= t /\ t < Floor(t, w) + w
  BY Quotient DEF Floor
<1>4. Floor(u, w) \in Nat /\ Floor(u, w) <= u /\ u < Floor(u, w) + w
  BY Quotient DEF Floor
<1> HIDE DEF a, b
<1>5. a < b => Floor(t, w) + w <= Floor(u, w)
  BY <1>1, <1>2, Multiples
<1>6. b < a => Floor(u, w) + w <= Floor(t, w)
  BY <1>1, <1>2, Multiples
<1>7. a = b => Floor(t, w) = Floor(u, w)
  BY <1>2
<1>8. a < b \/ a = b \/ b < a
  BY <1>1
<1>9. ASSUME Floor(t, w) < Floor(u, w) PROVE t < Floor(u, w)
  BY <1>3, <1>4, <1>5, <1>6, <1>7, <1>8, <1>9
<1>10. ASSUME t <= u PROVE Floor(t, w) <= Floor(u, w)
  BY <1>3, <1>4, <1>5, <1>6, <1>7, <1>8, <1>10
<1> QED
  BY <1>3, <1>9, <1>10

\* A multiple of w is its own floor.
LEMMA FloorOfMultiple ==
  ASSUME NEW w \in Nat \ {0}, NEW a \in Nat
  PROVE  Floor(w * a, w) = w * a
<1> DEFINE t == w * a
           b == t \div w
           r == t % w
<1>1. t \in Nat
  OBVIOUS
<1>2. r \in 0..(w - 1) /\ b \in Nat /\ t = w * b + r
  BY <1>1, Quotient
<1>3. Floor(t, w) = t - r
  BY DEF Floor
<1>4. w * b \in Nat
  <2> HIDE DEF b
  <2> QED
    BY <1>2
<1> HIDE DEF b, r
<1>5. b < a => w * b + w <= t
  BY <1>2, Multiples
<1>6. a < b => t + w <= w * b
  BY <1>2, Multiples
<1>7. a = b => w * b = t
  OBVIOUS
<1>8. a < b \/ a = b \/ b < a
  BY <1>2
<1> HIDE DEF t
<1>9. r = 0
  BY <1>1, <1>2, <1>4, <1>5, <1>6, <1>7, <1>8
<1>10. Floor(t, w) = t
  BY <1>1, <1>3, <1>9
<1> QED
  BY <1>10 DEF t

\* The floor to a multiple v of w is that of the floor to w.
LEMMA FloorOfFloor ==
  ASSUME NEW t \in Nat, NEW w \in Nat \ {0}, NEW v \in Nat \ {0}, v % w = 0
  PROVE  Floor(Floor(t, w), v) = Floor(t, v) /\ Floor(t, v) <= Floor(t, w)
<1> DEFINE F == Floor(t, w)
           V == Floor(t, v)
           c == t \div v
           m == v \div w
<1>1. c \in Nat /\ V = v * c
  BY Quotient DEF Floor
<1>2. m \in Nat /\ v = w * m
  BY Quotient
<1> HIDE DEF c, m
<1>3. v * c = w * (m * c) /\ m * c \in Nat
  BY <1>1, <1>2
<1>4. Floor(V, w) = V
  <2>1. Floor(w * (m * c), w) = w * (m * c)
    BY <1>3, FloorOfMultiple
  <2> HIDE DEF V
  <2> QED
    BY <1>1, <1>3, <2>1
<1>5. Floor(V, v) = V
  <2>1. Floor(v * c, v) = v * c
    BY <1>1, FloorOfMultiple
  <2> HIDE DEF V
  <2> QED
    BY <1>1, <2>1
<1>6. V \in Nat /\ V <= t /\ F \in Nat /\ F <= t
  BY FloorFacts
<1>7. V <= t => Floor(V, w) <= Floor(t, w)
  BY <1>6, FloorFacts
<1> HIDE DEF V, F
<1>8. F <= t => Floor(F, v) <= Floor(t, v)
  BY <1>6, FloorFacts
<1>9. V <= F => Floor(V, v) <= Floor(F, v)
  BY <1>6, FloorFacts
<1>10. Floor(F, v) \in Nat
  BY <1>6, FloorFacts
<1>11. V <= F
  BY <1>4, <1>6, <1>7 DEF F
<1>12. Floor(F, v) <= V
  BY <1>6, <1>8 DEF V
<1>13. V <= Floor(F, v)
  BY <1>5, <1>9, <1>11
<1> QED
  BY <1>6, <1>10, <1>11, <1>12, <1>13 DEF V, F

\* The same of the buckets of a tier.
LEMMA BucketFacts ==
  ASSUME NEW t \in Nat, NEW u \in Nat, NEW i \in Rolled
  PROVE  /\ Bucket(t, i) \in Nat /\ Bucket(t, i) <= t /\ t < Bucket(t, i) + Widths[i]
         /\ Bucket(t, i) < Bucket(u, i) => t < Bucket(u, i)
         /\ t <= u => Bucket(t, i) <= Bucket(u, i)
<1>1. Bucket(t, i) = Floor(t, Widths[i]) /\ Bucket(u, i) = Floor(u, Widths[i])
  BY DEF Bucket, Floor
<1>2. Widths[i] \in Nat \ {0}
  BY WidthFacts
<1> HIDE DEF Bucket
<1> QED
  BY <1>1, <1>2, FloorFacts

\* Buckets of two tiers nest.
LEMMA Nested ==
  ASSUME NEW t \in Nat, NEW u \in Nat, NEW i \in Rolled, NEW j \in Rolled, i <= j
  PROVE  /\ Bucket(Bucket(t, i), j) = Bucket(t, j)
         /\ Bucket(t, j) <= Bucket(t, i)
         /\ Bucket(t, i) <= Bucket(u, i) => Bucket(t, j) <= Bucket(u, j)
<1>1. \A x : Bucket(x, i) = Floor(x, Widths[i]) /\ Bucket(x, j) = Floor(x, Widths[j])
  BY DEF Bucket, Floor
<1>2. Widths[i] \in Nat \ {0} /\ Widths[j] \in Nat \ {0} /\ Widths[j] % Widths[i] = 0
  BY WidthFacts, WidthPairs
<1> DEFINE w == Widths[i]
           v == Widths[j]
<1> HIDE DEF w, v
<1>3. /\ Floor(Floor(t, w), v) = Floor(t, v) /\ Floor(t, v) <= Floor(t, w)
      /\ Floor(Floor(u, w), v) = Floor(u, v)
  BY <1>2, FloorOfFloor DEF w, v
<1>4. Bucket(Bucket(t, i), j) = Bucket(t, j) /\ Bucket(Bucket(u, i), j) = Bucket(u, j)
  BY <1>1, <1>3 DEF w, v
<1>5. Bucket(t, j) <= Bucket(t, i)
  BY <1>1, <1>3 DEF w, v
<1>6. Bucket(t, i) \in Nat /\ Bucket(u, i) \in Nat
  BY BucketFacts
<1>7. Bucket(t, i) <= Bucket(u, i) => Bucket(Bucket(t, i), j) <= Bucket(Bucket(u, i), j)
  BY <1>6, BucketFacts
<1> QED
  BY <1>4, <1>5, <1>7

-----------------------------------------------------------------------------
(* Sequences of frames.                                                    *)

\* A sample is in a sequence of frames when it is in one of them.
LEMMA AllIn ==
  ASSUME NEW S, NEW f \in Seq(S)
  PROVE  \A s : s \in All(f) <=> \E i \in 1..Len(f) : s \in f[i]
BY DEF All, ToSet

\* The empty buffer holds nothing.
LEMMA AllOfNone == All(<<>>) = {} /\ Apart(<<>>)
BY DEF All, ToSet, Apart

\* A frame more.
LEMMA OneMore ==
  ASSUME NEW S, NEW f \in Seq(S), NEW b \in S
  PROVE  /\ Append(f, b) \in Seq(S) /\ Len(Append(f, b)) = Len(f) + 1
         /\ All(Append(f, b)) = All(f) \cup b
         /\ Apart(f) /\ b \cap All(f) = {} => Apart(Append(f, b))
<1> DEFINE g == Append(f, b)
<1>1. /\ g \in Seq(S) /\ Len(g) = Len(f) + 1 /\ g[Len(f) + 1] = b
      /\ \A i \in 1..Len(f) : g[i] = f[i]
  OBVIOUS
<1>2. \A i \in 1..Len(g) : i = Len(f) + 1 \/ i \in 1..Len(f)
  BY <1>1
<1>3. Len(f) + 1 \in 1..Len(g) /\ \A i \in 1..Len(f) : i \in 1..Len(g)
  BY <1>1
<1> HIDE DEF g
<1>4. ASSUME NEW s PROVE s \in All(g) <=> s \in All(f) \cup b
  BY <1>1, <1>2, <1>3, AllIn
<1>5. All(g) = All(f) \cup b
  BY <1>4
<1>6. ASSUME Apart(f), b \cap All(f) = {} PROVE Apart(g)
  <2>1. \A i \in 1..Len(f) : f[i] \cap b = {}
    BY <1>6, AllIn
  <2> QED
    BY <1>1, <1>2, <1>6, <2>1 DEF Apart
<1> QED
  BY <1>1, <1>5, <1>6 DEF g

\* Cutting a sequence of frames parts their samples.
LEMMA CutInTwo ==
  ASSUME NEW S, NEW m \in Seq(S), NEW k \in 0..Len(m)
  PROVE  LET lo == SubSeq(m, 1, k)
             hi == SubSeq(m, k + 1, Len(m))
         IN  /\ hi \in Seq(S) /\ Len(hi) = Len(m) - k
             /\ All(lo) \cup All(hi) = All(m)
             /\ Apart(m) => Apart(hi) /\ All(lo) \cap All(hi) = {}
<1> DEFINE lo == SubSeq(m, 1, k)
           hi == SubSeq(m, k + 1, Len(m))
<1>1. lo \in Seq(S) /\ Len(lo) = k /\ \A i \in 1..k : lo[i] = m[i]
  OBVIOUS
<1>2. hi \in Seq(S) /\ Len(hi) = Len(m) - k /\ \A i \in 1..(Len(m) - k) : hi[i] = m[k + i]
  OBVIOUS
<1>3. /\ \A i \in 1..Len(m) : i \in 1..k \/ (i - k \in 1..(Len(m) - k) /\ i = k + (i - k))
      /\ \A i \in 1..k : i \in 1..Len(m)
      /\ \A i \in 1..(Len(m) - k) : k + i \in 1..Len(m) /\ k + i \notin 1..k
      /\ \A i, j \in 1..(Len(m) - k) : i # j => k + i # k + j
  OBVIOUS
<1> HIDE DEF lo, hi
<1>4. ASSUME NEW s PROVE s \in All(lo) \cup All(hi) <=> s \in All(m)
  <2>1. s \in All(lo) <=> \E i \in 1..k : s \in m[i]
    BY <1>1, AllIn
  <2>2. s \in All(hi) <=> \E i \in 1..(Len(m) - k) : s \in m[k + i]
    BY <1>2, AllIn
  <2>3. s \in All(m) <=> \E i \in 1..Len(m) : s \in m[i]
    BY AllIn
  <2> QED
    BY <1>3, <2>1, <2>2, <2>3
<1>5. All(lo) \cup All(hi) = All(m)
  BY <1>4
<1>6. ASSUME Apart(m) PROVE Apart(hi) /\ All(lo) \cap All(hi) = {}
  <2>1. ASSUME NEW i \in 1..Len(hi), NEW j \in 1..Len(hi), i # j PROVE hi[i] \cap hi[j] = {}
    <3>1. hi[i] = m[k + i] /\ hi[j] = m[k + j] /\ k + i \in 1..Len(m) /\ k + j \in 1..Len(m)
      BY <1>2, <1>3
    <3>2. k + i # k + j
      BY <1>2, <1>3, <2>1
    <3> QED
      BY <1>6, <3>1, <3>2 DEF Apart
  <2>2. ASSUME NEW s, s \in All(lo), s \in All(hi) PROVE FALSE
    <3>1. PICK i \in 1..k : s \in m[i]
      BY <1>1, <2>2, AllIn
    <3>2. PICK j \in 1..(Len(m) - k) : s \in m[k + j]
      BY <1>2, <2>2, AllIn
    <3>3. i \in 1..Len(m) /\ k + j \in 1..Len(m) /\ i # k + j
      BY <1>3
    <3> QED
      BY <1>6, <3>1, <3>2, <3>3 DEF Apart
  <2> QED
    BY <2>1, <2>2 DEF Apart
<1> QED
  BY <1>2, <1>5, <1>6 DEF lo, hi

\* Taking the first frame off.
LEMMA FirstOff ==
  ASSUME NEW S, NEW f \in Seq(S), f # <<>>
  PROVE  /\ Tail(f) \in Seq(S) /\ Head(f) \in S
         /\ All(f) = Head(f) \cup All(Tail(f))
         /\ Apart(f) => Apart(Tail(f)) /\ Head(f) \cap All(Tail(f)) = {}
<1> DEFINE t == Tail(f)
           h == Head(f)
<1>1. /\ t \in Seq(S) /\ h \in S /\ h = f[1] /\ Len(f) \in Nat \ {0}
      /\ Len(t) = Len(f) - 1 /\ \A i \in 1..(Len(f) - 1) : t[i] = f[i + 1]
  OBVIOUS
<1>2. /\ \A i \in 1..Len(f) : i = 1 \/ (i - 1 \in 1..(Len(f) - 1) /\ i = (i - 1) + 1)
      /\ 1 \in 1..Len(f)
      /\ \A i \in 1..(Len(f) - 1) : i + 1 \in 1..Len(f) /\ i + 1 # 1
      /\ \A i, j \in 1..(Len(f) - 1) : i # j => i + 1 # j + 1
  BY <1>1
<1> HIDE DEF t, h
<1>3. ASSUME NEW s PROVE s \in All(t) <=> \E i \in 1..(Len(f) - 1) : s \in f[i + 1]
  BY <1>1, AllIn
<1>4. ASSUME NEW s PROVE s \in All(f) <=> s \in h \cup All(t)
  <2>1. s \in All(f) <=> \E i \in 1..Len(f) : s \in f[i]
    BY AllIn
  <2> QED
    BY <1>1, <1>2, <1>3, <2>1
<1>5. All(f) = h \cup All(t)
  BY <1>4
<1>6. ASSUME Apart(f) PROVE Apart(t) /\ h \cap All(t) = {}
  <2>1. Apart(t)
    <3> SUFFICES ASSUME NEW i \in 1..(Len(f) - 1), NEW j \in 1..(Len(f) - 1), i # j
                 PROVE  t[i] \cap t[j] = {}
      BY <1>1 DEF Apart
    <3>1. i + 1 \in 1..Len(f) /\ j + 1 \in 1..Len(f) /\ i + 1 # j + 1
      BY <1>2
    <3>2. f[i + 1] \cap f[j + 1] = {}
      BY <1>6, <3>1 DEF Apart
    <3>3. QED BY <1>1, <3>2
  <2>2. h \cap All(t) = {}
    BY <1>1, <1>2, <1>3, <1>6 DEF Apart
  <2> QED
    BY <2>1, <2>2
<1> QED
  BY <1>1, <1>5, <1>6 DEF t, h

\* What frames hold are samples.
LEMMA AllType ==
  ASSUME NEW f \in Seq(SUBSET Samples)
  PROVE  All(f) \in SUBSET Samples
BY AllIn

-----------------------------------------------------------------------------
(* Rows and passes.                                                        *)

\* A nonempty set of integers from -1 to n has a largest.
LEMMA Largest ==
  ASSUME NEW n \in Nat, NEW S \in SUBSET ((-1)..n), S # {}
  PROVE  Max(S) \in S /\ \A x \in S : Max(S) >= x
<1> DEFINE T == {n - x : x \in S}
<1>1. T \subseteq Nat
  OBVIOUS
<1>2. T # {}
  OBVIOUS
<1>3. IsWellFoundedOn(OpToRel(<, Nat), Nat)
  BY NatLessThanWellFounded
<1>4. \E t \in T : \A u \in T : ~ (<<u, t>> \in OpToRel(<, Nat))
  BY <1>1, <1>2, <1>3, WFMin
<1>5. PICK t \in T : \A u \in T : ~ (u < t)
  BY <1>1, <1>4 DEF OpToRel
<1>6. PICK m \in S : t = n - m
  OBVIOUS
<1>7. \A x \in S : m >= x
  <2> SUFFICES ASSUME NEW x \in S PROVE m >= x
    OBVIOUS
  <2>1. n - x \in T
    OBVIOUS
  <2>2. ~ (n - x < n - m)
    BY <1>5, <1>6, <2>1
  <2>3. x \in (-1)..n /\ m \in (-1)..n
    OBVIOUS
  <2> HIDE DEF T
  <2> QED
    BY <2>2, <2>3
<1> QED
  BY <1>6, <1>7 DEF Max

\* The newest row of a key: no row of it is newer.
LEMMA LastBucketFacts ==
  ASSUME HubOK, NEW i \in Rolled, NEW k
  PROVE  /\ LastBucket(i, k) = -1 \/ \E x \in rows : x.tier = i + 1 /\ x.key = k /\ x.at = LastBucket(i, k)
         /\ LastBucket(i, k) \in Int
         /\ \A x \in rows : x.tier = i + 1 /\ x.key = k => x.at <= LastBucket(i, k)
<1> DEFINE S == {r.at : r \in {x \in rows : x.tier = i + 1 /\ x.key = k}} \cup {-1}
<1>1. MaxTime \in Nat /\ \A x \in rows : x.at \in 0..MaxTime
  BY BoundAssumption DEF HubOK, RowOK
<1>2. S \in SUBSET ((-1)..MaxTime) /\ S # {}
  BY <1>1
<1>3. Max(S) \in S /\ \A y \in S : Max(S) >= y
  BY <1>1, <1>2, Largest
<1>4. LastBucket(i, k) = Max(S)
  BY DEF LastBucket
<1>5. Max(S) \in Int /\ \A y \in S : y \in Int
  BY <1>1, <1>2, <1>3
<1>6. \A x \in rows : x.tier = i + 1 /\ x.key = k => x.at \in S
  OBVIOUS
<1>7. Max(S) = -1 \/ \E x \in rows : x.tier = i + 1 /\ x.key = k /\ x.at = Max(S)
  BY <1>3
<1> HIDE DEF S
<1> QED
  BY <1>3, <1>4, <1>5, <1>6, <1>7

\* What aggregateTier reads of tier i, the samples of one bucket of it, and the
\* row it makes of them.
Rolling(i) == {r \in rows : r.tier = i /\ r.at < Cutoff(i)}
Sum(i, k, b) == UNION {r.of : r \in {x \in Rolling(i) : x.key = k /\ Bucket(x.at, i) = b}}
RowOf(i, k, b) == [tier |-> i + 1, key |-> k, at |-> b, of |-> Sum(i, k, b)]

\* One row per key and completed bucket that is newer than the newest.
LEMMA AggregatedRows ==
  ASSUME NEW i
  PROVE  /\ \A x \in Aggregated(i) :
              \E r \in Rolling(i) : /\ Newer(Bucket(r.at, i), LastBucket(i, r.key))
                                    /\ x = RowOf(i, r.key, Bucket(r.at, i))
         /\ \A r \in Rolling(i) : Newer(Bucket(r.at, i), LastBucket(i, r.key))
              => RowOf(i, r.key, Bucket(r.at, i)) \in Aggregated(i)
<1> DEFINE G == {<<r.key, Bucket(r.at, i)>> :
                   r \in {x \in Rolling(i) : Newer(Bucket(x.at, i), LastBucket(i, x.key))}}
<1>1. Aggregated(i) = {RowOf(i, g[1], g[2]) : g \in G}
  BY Zenon DEF Aggregated, RowOf, Sum, Rolling
<1>2. \A g \in G : \E r \in Rolling(i) : /\ Newer(Bucket(r.at, i), LastBucket(i, r.key))
                                         /\ g = <<r.key, Bucket(r.at, i)>>
  OBVIOUS
<1>3. \A r \in Rolling(i) : Newer(Bucket(r.at, i), LastBucket(i, r.key))
                              => <<r.key, Bucket(r.at, i)>> \in G
  OBVIOUS
<1> HIDE DEF G
<1>4. ASSUME NEW x \in Aggregated(i)
      PROVE  \E r \in Rolling(i) : /\ Newer(Bucket(r.at, i), LastBucket(i, r.key))
                                   /\ x = RowOf(i, r.key, Bucket(r.at, i))
  <2>1. PICK g \in G : x = RowOf(i, g[1], g[2])
    BY <1>1
  <2>2. PICK r \in Rolling(i) : /\ Newer(Bucket(r.at, i), LastBucket(i, r.key))
                                /\ g = <<r.key, Bucket(r.at, i)>>
    BY <1>2
  <2>3. g[1] = r.key /\ g[2] = Bucket(r.at, i)
    BY <2>2
  <2> QED
    BY <2>1, <2>2, <2>3
<1>5. ASSUME NEW r \in Rolling(i), Newer(Bucket(r.at, i), LastBucket(i, r.key))
      PROVE  RowOf(i, r.key, Bucket(r.at, i)) \in Aggregated(i)
  <2> DEFINE g == <<r.key, Bucket(r.at, i)>>
  <2>1. g \in G /\ g[1] = r.key /\ g[2] = Bucket(r.at, i)
    BY <1>3, <1>5
  <2> HIDE DEF g
  <2>2. RowOf(i, g[1], g[2]) \in Aggregated(i)
    BY <1>1, <2>1
  <2> QED
    BY <2>1, <2>2
<1> QED
  BY <1>4, <1>5

\* Where a pass is: at the roll of a tier, then at its expiry, then at the next.
LEMMA StepFacts ==
  ASSUME HubOK, NEW do, Step(do), do \in {"roll", "expire"}
  PROVE  LET i == Steps[pass].tier
         IN  /\ i \in Tiers /\ i \in Nat /\ pass' \in 0..(2 * Len(Retain))
             /\ do = "roll" => pass = 2 * i - 1 /\ pass' = 2 * i
             /\ do = "expire" => pass = 2 * i /\ (pass' = 0 \/ pass' = 2 * i + 1)
<1> DEFINE n == Len(Retain)
<1>1. n \in Nat
  BY WidthFacts
<1>2. pass \in 1..(2 * n)
  BY DEF HubOK, Step
<1>3. Len(Steps) = 2 * n
  BY <1>1 DEF Steps
<1>4. Steps[pass] = [do |-> IF pass % 2 = 1 THEN "roll" ELSE "expire", tier |-> (pass + 1) \div 2]
  BY <1>2 DEF Steps
<1>5. Steps[pass].tier = (pass + 1) \div 2 /\ do = IF pass % 2 = 1 THEN "roll" ELSE "expire"
  BY <1>4 DEF Step
<1>6. pass' = IF pass = 2 * n THEN 0 ELSE pass + 1
  BY <1>3 DEF Step
<1> HIDE DEF n
<1>7. (pass + 1) \div 2 \in 1..n
  BY <1>1, <1>2
<1>8. pass' \in 0..(2 * n)
  BY <1>1, <1>2, <1>6
<1>9. do = "roll" => pass = 2 * ((pass + 1) \div 2) - 1 /\ pass # 2 * n
  BY <1>1, <1>2, <1>5
<1>10. do = "expire" => pass = 2 * ((pass + 1) \div 2)
  BY <1>1, <1>2, <1>5
<1> QED
  BY <1>1, <1>2, <1>5, <1>6, <1>7, <1>8, <1>9, <1>10 DEF Tiers, n

\* The rows a pass adds are of the tier above, of one bucket that is complete,
\* newer than any row of their key, and of the samples of that bucket.
LEMMA AggregatedOK ==
  ASSUME HubOK, now \in 0..MaxTime, NEW i \in Rolled, NEW x \in Aggregated(i)
  PROVE  /\ RowOK(x) /\ x.tier = i + 1
         /\ x.at < Bucket(now, i)
         /\ x = RowOf(i, x.key, x.at)
         /\ \A y \in rows : y.tier = i + 1 /\ y.key = x.key => y.at < x.at
<1>1. PICK r \in Rolling(i) : /\ Newer(Bucket(r.at, i), LastBucket(i, r.key))
                              /\ x = RowOf(i, r.key, Bucket(r.at, i))
  BY AggregatedRows
<1>2. /\ x.tier = i + 1 /\ x.key = r.key /\ x.at = Bucket(r.at, i)
      /\ x.of = Sum(i, r.key, Bucket(r.at, i))
  BY <1>1 DEF RowOf
<1>3. r \in rows /\ r.at \in Nat /\ r.at \in 0..MaxTime /\ r.at < Bucket(now, i) /\ now \in Nat /\ MaxTime \in Nat
  BY BoundAssumption DEF Rolling, Cutoff, HubOK, RowOK
<1>4. Bucket(r.at, i) \in Nat /\ Bucket(r.at, i) <= r.at /\ Bucket(now, i) \in Nat
  BY <1>3, BucketFacts
<1>5. x.at \in 0..MaxTime /\ x.at < Bucket(now, i)
  BY <1>2, <1>3, <1>4
<1>6. ASSUME NEW s \in x.of PROVE s \in Samples /\ s.key = x.key
  <2>1. PICK y \in Rolling(i) : y.key = r.key /\ s \in y.of
    BY <1>2, <1>6 DEF Sum
  <2> QED
    BY <1>2, <2>1 DEF HubOK, RowOK, Rolling
<1>7. x.tier \in Tiers
  BY <1>2, WidthFacts
<1>8. ASSUME NEW y \in rows, y.tier = i + 1, y.key = x.key PROVE y.at < x.at
  <2>1. y.at <= LastBucket(i, r.key) /\ LastBucket(i, r.key) \in Int /\ y.at \in 0..MaxTime
    BY <1>2, <1>8, LastBucketFacts DEF HubOK, RowOK
  <2>2. x.at > LastBucket(i, r.key)
    BY <1>1, <1>2 DEF Newer
  <2> QED
    BY <1>5, <2>1, <2>2
<1>9. x = RowOf(i, x.key, x.at)
  BY <1>1, <1>2
<1> QED
  BY <1>2, <1>5, <1>6, <1>7, <1>8, <1>9 DEF RowOK

\* Newer is what ToRoll says.
LEMMA NewerIs ==
  ASSUME HubOK, NEW i \in Rolled, NEW r \in rows
  PROVE  Newer(Bucket(r.at, i), LastBucket(i, r.key)) <=> ToRoll(i, r)
<1>1. /\ LastBucket(i, r.key) = -1 \/ \E x \in rows : x.tier = i + 1 /\ x.key = r.key /\ x.at = LastBucket(i, r.key)
      /\ LastBucket(i, r.key) \in Int
      /\ \A x \in rows : x.tier = i + 1 /\ x.key = r.key => x.at <= LastBucket(i, r.key)
  BY LastBucketFacts
<1>2. r.at \in Nat /\ \A x \in rows : x.at \in Nat
  BY BoundAssumption DEF HubOK, RowOK
<1>3. Bucket(r.at, i) \in Nat
  BY <1>2, BucketFacts
<1> DEFINE b == Bucket(r.at, i)
           last == LastBucket(i, r.key)
<1> HIDE DEF b, last
<1>4. b > last <=> \A x \in rows : x.tier = i + 1 /\ x.key = r.key => x.at < b
  BY <1>1, <1>2, <1>3 DEF b, last
<1> QED
  BY <1>4 DEF b, last, Newer, ToRoll

\* A new row is made of rows that were yet to be rolled up, and each of these
\* has one.
LEMMA AggregatedFrom ==
  ASSUME TypeInv, NEW i \in Rolled
  PROVE  /\ \A x \in Aggregated(i) : \A s \in x.of :
              \E r \in rows : /\ r.tier = i /\ r.key = x.key /\ s \in r.of
                              /\ Bucket(r.at, i) = x.at /\ ToRoll(i, r)
         /\ \A r \in rows : r.tier = i /\ Bucket(r.at, i) < Bucket(now, i) /\ ToRoll(i, r)
              => \E x \in Aggregated(i) : /\ x.key = r.key /\ x.at = Bucket(r.at, i) /\ x.tier = i + 1
                                          /\ r.of \subseteq x.of
<1>1. HubOK /\ now \in 0..MaxTime /\ now \in Nat
  BY BoundAssumption DEF TypeInv, AgentOK
<1>2. ASSUME NEW x \in Aggregated(i), NEW s \in x.of
      PROVE  \E r \in rows : /\ r.tier = i /\ r.key = x.key /\ s \in r.of
                             /\ Bucket(r.at, i) = x.at /\ ToRoll(i, r)
  <2>1. x = RowOf(i, x.key, x.at) /\ \A y \in rows : y.tier = i + 1 /\ y.key = x.key => y.at < x.at
    BY <1>1, AggregatedOK
  <2>2. x.of = Sum(i, x.key, x.at)
    BY <2>1 DEF RowOf
  <2>3. PICK r \in Rolling(i) : r.key = x.key /\ Bucket(r.at, i) = x.at /\ s \in r.of
    BY <1>2, <2>2 DEF Sum
  <2> QED
    BY <2>1, <2>3 DEF Rolling, ToRoll
<1>3. ASSUME NEW r \in rows, r.tier = i, Bucket(r.at, i) < Bucket(now, i), ToRoll(i, r)
      PROVE  \E x \in Aggregated(i) : /\ x.key = r.key /\ x.at = Bucket(r.at, i) /\ x.tier = i + 1
                                      /\ r.of \subseteq x.of
  <2>1. r.at \in Nat
    BY <1>1, BoundAssumption DEF HubOK, RowOK
  <2>2. r.at < Cutoff(i)
    BY <1>1, <1>3, <2>1, BucketFacts DEF Cutoff
  <2>3. r \in Rolling(i)
    BY <1>3, <2>2 DEF Rolling
  <2> DEFINE x == RowOf(i, r.key, Bucket(r.at, i))
  <2>4. x \in Aggregated(i)
    BY <1>1, <1>3, <2>3, NewerIs, AggregatedRows
  <2>5. r.of \subseteq Sum(i, r.key, Bucket(r.at, i))
    BY <2>3 DEF Sum
  <2>6. x.key = r.key /\ x.at = Bucket(r.at, i) /\ x.tier = i + 1 /\ r.of \subseteq x.of
    BY <2>5 DEF RowOf
  <2> HIDE DEF x
  <2> QED
    BY <2>4, <2>6
<1> QED
  BY <1>2, <1>3

\* The rows of a frame.
Ingested(frame) == {[tier |-> 1, key |-> s.key, at |-> s.at, of |-> {s}] : s \in frame}

LEMMA IngestedOK ==
  ASSUME NEW frame \in SUBSET Samples, NEW x \in Ingested(frame)
  PROVE  RowOK(x) /\ x.tier = 1 /\ \E s \in frame : x.of = {s} /\ x.key = s.key /\ x.at = s.at
<1>1. PICK s \in frame : x = [tier |-> 1, key |-> s.key, at |-> s.at, of |-> {s}]
  BY DEF Ingested
<1>2. x.tier = 1 /\ x.key = s.key /\ x.at = s.at /\ x.of = {s}
  BY <1>1
<1>3. s \in Samples /\ s.at \in 0..MaxTime
  BY DEF Samples
<1>4. 1 \in Tiers
  BY WidthFacts DEF Tiers
<1> QED
  BY <1>2, <1>3, <1>4 DEF RowOK

\* What is too late is put on record with the tier it is too late for.
LEMMA TooLateOK ==
  ASSUME NEW frame \in SUBSET Samples
  PROVE  /\ TooLate(frame) \subseteq Rolled \X Samples
         /\ \A s \in frame : \A j \in Rolled : Bucket(s.at, j) < Bucket(turn[1], j) => <<j, s>> \in TooLate(frame)
BY DEF TooLate

-----------------------------------------------------------------------------
(* Types.                                                                  *)

\* TypeInv is TypeOK in parts.
LEMMA TypeParts == TypeInv <=> TypeOK
BY Zenon DEF TypeInv, AgentOK, HubOK, HistoryOK, RowOK, TypeOK

\* A fault is counted up to its bound.
LEMMA FaultOK ==
  ASSUME faults \in 0..MaxFaults, Fault
  PROVE  faults' \in 0..MaxFaults
BY BoundAssumption DEF Fault

\* sendMetrics keeps to the bound of the buffer.
LEMMA SendOK ==
  ASSUME AgentOK, lost \subseteq Samples, NEW batch \in SUBSET Samples, SendMetrics(batch)
  PROVE  /\ buf' \in Seq(SUBSET Samples) /\ Len(buf') <= BufferCap
         /\ wire' \in Seq(SUBSET Samples) /\ lost' \subseteq Samples
<1> DEFINE S == SUBSET Samples
           more == Append(buf, batch)
           over == Len(more) - BufferCap
<1>1. BufferCap \in Nat /\ buf \in Seq(S) /\ wire \in Seq(S) /\ Len(buf) <= BufferCap /\ batch \in S
  BY BoundAssumption DEF AgentOK
<1>2. more \in Seq(S) /\ Len(more) = Len(buf) + 1
  BY <1>1, OneMore
<1>3. Len(more) \in Nat /\ over \in Int
  BY <1>1, <1>2
<1>4. CASE conn = "none" /\ over > 0
  <2>1. buf' = SubSeq(more, over + 1, Len(more)) /\ lost' = lost \cup All(SubSeq(more, 1, over)) /\ wire' = wire
    BY <1>4 DEF SendMetrics
  <2>2. over \in 0..Len(more)
    BY <1>1, <1>3, <1>4
  <2> HIDE DEF over
  <2> HIDE DEF more, S
  <2>3. /\ buf' \in Seq(S) /\ Len(buf') = Len(more) - over
        /\ All(SubSeq(more, 1, over)) \subseteq All(more)
    <3>1. /\ SubSeq(more, over + 1, Len(more)) \in Seq(S)
          /\ Len(SubSeq(more, over + 1, Len(more))) = Len(more) - over
          /\ All(SubSeq(more, 1, over)) \cup All(SubSeq(more, over + 1, Len(more))) = All(more)
      BY <1>2, <2>2, CutInTwo
    <3> QED
      BY <2>1, <3>1
  <2>4. Len(buf') <= BufferCap
    BY <1>1, <1>3, <2>3 DEF over
  <2>5. All(more) \in SUBSET Samples
    BY <1>2, AllType DEF S
  <2> QED
    BY <1>1, <2>1, <2>3, <2>4, <2>5 DEF S
<1>5. CASE conn = "none" /\ ~ (over > 0)
  <2>1. buf' = more /\ lost' = lost \cup {} /\ wire' = wire
    BY <1>5 DEF SendMetrics
  <2>2. Len(buf') <= BufferCap
    BY <1>1, <1>3, <1>5, <2>1
  <2> QED
    BY <1>1, <1>2, <2>1, <2>2
<1>6. CASE conn # "none"
  <2>1. All(buf) \in S
    BY <1>1, AllType
  <2>2. buf' = <<>>
    BY <1>6 DEF SendMetrics
  <2>3. wire \o <<batch>> \in Seq(S) /\ wire \o <<All(buf), batch>> \in Seq(S)
    BY <1>1, <2>1
  <2>4. wire' \in Seq(S) /\ lost' \subseteq Samples
    BY <1>1, <1>6, <2>1, <2>3 DEF SendMetrics
  <2> QED
    BY <1>1, <2>2, <2>4
<1> QED
  BY <1>4, <1>5, <1>6

LEMMA TypeInit == Init => TypeInv
<1> SUFFICES ASSUME Init PROVE TypeInv
  OBVIOUS
<1>1. 0 \in 0..MaxTime /\ 0 \in 0..MaxFaults /\ 0 \in 0..(2 * Len(Retain)) /\ BufferCap >= 0
  BY BoundAssumption, WidthFacts
<1>2. AgentOK
  <2>1. sampled \in BOOLEAN
    BY DEF Init
  <2>2. buf = <<>> /\ wire = <<>> /\ conn = "none" /\ now = 0
    BY DEF Init
  <2> QED
    BY <1>1, <2>1, <2>2 DEF AgentOK
<1>3. HubOK
  BY <1>1 DEF Init, HubOK
<1>4. HistoryOK
  BY <1>1 DEF Init, HistoryOK
<1> QED
  BY <1>2, <1>3, <1>4 DEF TypeInv

\* A roll that succeeds.
RollsUp(i) == /\ i \in Rolled /\ turn' = [turn EXCEPT ![i] = now]
              /\ rows' = rows \cup Aggregated(i) /\ held' = held /\ failed' = failed

\* A roll that fails.
RollFails(i) == /\ i \in Rolled /\ turn' = [turn EXCEPT ![i] = now] /\ Fault
                /\ rows' = rows /\ held' = held \cup HeldBack(i) /\ failed' = failed \cup {i}

\* A roll succeeds, fails, or has no tier above.
LEMMA RollCases ==
  ASSUME Roll
  PROVE  LET i == Steps[pass].tier
         IN  /\ \/ RollsUp(i) \/ RollFails(i)
                \/ i \notin Rolled /\ rows' = rows /\ turn' = turn /\ held' = held /\ failed' = failed
             /\ RollFails(i) \/ faults' = faults
             /\ UNCHANGED <<now, sampled, conn, buf, wire, late, lost, expired>>
<1> DEFINE i == Steps[pass].tier
<1>1. UNCHANGED <<now, sampled, conn, buf, wire, late, lost, expired>>
  BY DEF Roll, link
<1>2. CASE i \notin Rolled /\ UNCHANGED <<rows, turn, held, failed, faults>>
  BY <1>1, <1>2
<1>3. CASE /\ i \in Rolled /\ turn' = [turn EXCEPT ![i] = now]
           /\ rows' = rows \cup Aggregated(i) /\ UNCHANGED <<held, failed, faults>>
  <2>1. held' = held /\ failed' = failed /\ faults' = faults
    BY <1>3
  <2> QED
    BY <1>1, <1>3, <2>1, Zenon DEF RollsUp
<1>4. CASE /\ i \in Rolled /\ turn' = [turn EXCEPT ![i] = now]
           /\ Fault /\ failed' = failed \cup {i}
           /\ held' = held \cup HeldBack(i) /\ UNCHANGED rows
  BY <1>1, <1>4, Zenon DEF RollFails
<1> QED
  BY <1>2, <1>3, <1>4, Zenon DEF Roll

Gone(i) == {r \in rows : r.tier = i /\ r.at < now - Retain[i]}

LEMMA TypeStep ==
  ASSUME TypeInv, [Next]_vars
  PROVE  TypeInv'
<1> USE DEF TypeInv
<1>1. CASE Tick
  <2>1. now' \in 0..MaxTime
    BY <1>1, BoundAssumption DEF Tick, AgentOK
  <2>2. sampled' \in BOOLEAN
    BY <1>1 DEF Tick
  <2>3. UNCHANGED <<conn, buf, wire, rows, pass, failed, turn, late, held, lost, expired, faults>>
    BY <1>1 DEF Tick, link, history
  <2>4. AgentOK'
    BY <2>1, <2>2, <2>3 DEF AgentOK
  <2>5. HubOK' /\ HistoryOK'
    BY <2>3 DEF HubOK, RowOK, HistoryOK
  <2> QED
    BY <2>4, <2>5
<1>2. ASSUME NEW running \in SUBSET Keys \ {{}}, Sample(running) PROVE TypeInv'
  <2> DEFINE batch == {[key |-> k, at |-> now] : k \in running}
  <2>1. batch \in SUBSET Samples
    BY DEF Samples, AgentOK
  <2>2. SendMetrics(batch) /\ UNCHANGED <<now, conn, rows, pass, failed, turn, late, held, expired, faults>>
    BY <1>2 DEF Sample
  <2>3. sampled' \in BOOLEAN
    BY <1>2 DEF Sample
  <2> HIDE DEF batch
  <2>4. /\ buf' \in Seq(SUBSET Samples) /\ Len(buf') <= BufferCap
        /\ wire' \in Seq(SUBSET Samples) /\ lost' \subseteq Samples
    BY <2>1, <2>2, SendOK DEF HistoryOK
  <2>5. AgentOK'
    BY <2>2, <2>3, <2>4 DEF AgentOK
  <2>6. HubOK' /\ HistoryOK'
    BY <2>2, <2>4 DEF HubOK, RowOK, HistoryOK
  <2> QED
    BY <2>5, <2>6
<1>3. CASE Connect \/ NoticeLoss
  <2>1. /\ conn' \in {"none", "up", "lost"}
        /\ UNCHANGED <<now, sampled, buf, wire, rows, pass, failed, turn, late, held, lost, expired, faults>>
    BY <1>3 DEF Connect, NoticeLoss, history
  <2> QED
    BY <2>1 DEF AgentOK, HubOK, RowOK, HistoryOK
<1>4. CASE Break \/ AgentCrash
  <2>1. /\ conn' \in {"none", "up", "lost"} /\ buf' \in {buf, <<>>} /\ wire' = <<>>
        /\ lost' \subseteq lost \cup All(buf) \cup All(wire) /\ Fault
        /\ UNCHANGED <<now, sampled, rows, pass, failed, turn, late, held, expired>>
    BY <1>4 DEF Break, AgentCrash
  <2>2. All(buf) \in SUBSET Samples /\ All(wire) \in SUBSET Samples
    BY AllType DEF AgentOK
  <2>3. BufferCap >= 0
    BY BoundAssumption
  <2>4. AgentOK'
    <3>1. <<>> \in Seq(SUBSET Samples) /\ Len(<<>>) = 0
      OBVIOUS
    <3>2. buf' \in Seq(SUBSET Samples) /\ Len(buf') <= BufferCap /\ wire' \in Seq(SUBSET Samples)
      BY <2>1, <2>3, <3>1 DEF AgentOK
    <3> QED
      BY <2>1, <3>2 DEF AgentOK
  <2>5. HistoryOK'
    BY <2>1, <2>2, FaultOK DEF HistoryOK
  <2>6. HubOK'
    BY <2>1 DEF HubOK, RowOK
  <2> QED
    BY <2>4, <2>5, <2>6
<1>5. CASE Ingest
  <2> DEFINE new == Ingested(Head(wire))
  <2>1. /\ wire # <<>> /\ wire' = Tail(wire)
        /\ \/ rows' = rows \cup new /\ late' = late \cup TooLate(Head(wire)) /\ UNCHANGED <<lost, faults>>
           \/ Fault /\ lost' = lost \cup Head(wire) /\ UNCHANGED <<rows, late>>
        /\ UNCHANGED <<now, sampled, conn, buf, pass, failed, turn, held, expired>>
    BY <1>5 DEF Ingest, Ingested
  <2>2. wire' \in Seq(SUBSET Samples) /\ Head(wire) \in SUBSET Samples
    BY <2>1, FirstOff DEF AgentOK
  <2>3. \A x \in new : RowOK(x)
    BY <2>2, IngestedOK
  <2>4. TooLate(Head(wire)) \subseteq Rolled \X Samples
    BY <2>2, TooLateOK
  <2> HIDE DEF new
  <2>5. AgentOK'
    BY <2>1, <2>2 DEF AgentOK
  <2>6. HubOK'
    BY <2>1, <2>3 DEF HubOK, RowOK
  <2>7. HistoryOK'
    BY <2>1, <2>2, <2>4, FaultOK DEF HistoryOK
  <2> QED
    BY <2>5, <2>6, <2>7
<1>6. CASE StartPass
  <2>1. /\ pass' = 1 /\ failed' = {}
        /\ UNCHANGED <<now, sampled, conn, buf, wire, rows, turn, late, held, lost, expired, faults>>
    BY <1>6 DEF StartPass, link, history
  <2>2. 1 \in 0..(2 * Len(Retain))
    BY WidthFacts
  <2> QED
    BY <2>1, <2>2 DEF AgentOK, HubOK, RowOK, HistoryOK
<1>7. CASE Roll
  <2> DEFINE i == Steps[pass].tier
  <2>1. i \in Tiers /\ i \in Nat /\ pass' \in 0..(2 * Len(Retain))
    BY <1>7, StepFacts DEF Roll
  <2>2. /\ \/ RollsUp(i) \/ RollFails(i)
           \/ i \notin Rolled /\ rows' = rows /\ turn' = turn /\ held' = held /\ failed' = failed
        /\ RollFails(i) \/ faults' = faults
        /\ UNCHANGED <<now, sampled, conn, buf, wire, late, lost, expired>>
    BY <1>7, RollCases
  <2> HIDE DEF i
  <2>3. i \in Rolled => \A x \in Aggregated(i) : RowOK(x)
    BY AggregatedOK DEF AgentOK
  <2>4. HeldBack(i) \subseteq Rolled \X Samples
    BY DEF HeldBack
  <2>5. AgentOK'
    BY <2>2 DEF AgentOK
  <2>6. HubOK'
    <3>1. \A r \in rows' : RowOK(r)
      BY <2>2, <2>3 DEF HubOK, RollsUp, RollFails
    <3>2. turn' \in [Rolled -> 0..MaxTime]
      BY <2>2 DEF HubOK, AgentOK, RollsUp, RollFails
    <3>3. failed' \subseteq Tiers
      BY <2>1, <2>2 DEF HubOK, RollsUp, RollFails
    <3> QED
      BY <2>1, <3>1, <3>2, <3>3 DEF HubOK, RowOK
  <2>7. HistoryOK'
    <3>1. held' \subseteq Rolled \X Samples
      BY <2>2, <2>4 DEF HistoryOK, RollsUp, RollFails
    <3>2. faults' \in 0..MaxFaults
      BY <2>2, FaultOK DEF HistoryOK, RollFails
    <3> QED
      BY <2>2, <3>1, <3>2 DEF HistoryOK
  <2> QED
    BY <2>5, <2>6, <2>7
<1>8. CASE Expire
  <2> DEFINE i == Steps[pass].tier
  <2>1. pass' \in 0..(2 * Len(Retain))
    BY <1>8, StepFacts DEF Expire
  <2>2. /\ rows' = rows \ Gone(i) /\ expired' \subseteq expired \cup UNION {r.of : r \in Gone(i)}
        /\ UNCHANGED <<now, sampled, conn, buf, wire, failed, turn, late, held, lost, faults>>
    BY <1>8 DEF Expire, Gone, link
  <2>3. UNION {r.of : r \in Gone(i)} \subseteq Samples
    BY DEF Gone, HubOK, RowOK
  <2> HIDE DEF i
  <2> QED
    BY <2>1, <2>2, <2>3 DEF AgentOK, HubOK, RowOK, HistoryOK
<1>9. CASE UNCHANGED vars
  BY <1>9 DEF vars, link, history, AgentOK, HubOK, RowOK, HistoryOK
<1> QED
  BY <1>1, <1>2, <1>3, <1>4, <1>5, <1>6, <1>7, <1>8, <1>9 DEF Next

\* Every variable keeps its type: the buffer its bound, a row its tier, its
\* time and samples of its own key (sendMetrics, aggregateTier).
THEOREM TypeCorrect == Spec => []TypeOK
<1>1. Spec => []TypeInv
  BY TypeInit, TypeStep, PTL DEF Spec
<1> QED
  BY <1>1, TypeParts, PTL

-----------------------------------------------------------------------------
(* One row per bucket.                                                     *)

LEMMA OneRowStep ==
  ASSUME TypeInv, OneRowPerBucket, [Next]_vars
  PROVE  OneRowPerBucket'
<1>1. CASE Ingest
  <2> DEFINE new == Ingested(Head(wire))
  <2>1. wire # <<>> /\ rows' \subseteq rows \cup new
    BY <1>1 DEF Ingest, Ingested
  <2>2. Head(wire) \in SUBSET Samples
    BY <2>1, FirstOff DEF TypeInv, AgentOK
  <2>3. \A x \in new : x.tier = 1
    BY <2>2, IngestedOK
  <2> HIDE DEF new
  <2> QED
    BY <2>1, <2>3 DEF OneRowPerBucket
<1>2. CASE Roll
  <2> DEFINE i == Steps[pass].tier
  <2>1. rows' = rows \/ (i \in Rolled /\ rows' = rows \cup Aggregated(i))
    BY <1>2, RollCases DEF RollsUp, RollFails
  <2> HIDE DEF i
  <2>2. CASE i \in Rolled /\ rows' = rows \cup Aggregated(i)
    <3>1. HubOK /\ now \in 0..MaxTime
      BY DEF TypeInv, AgentOK
    <3>2. \A x \in Aggregated(i) : /\ x.tier = i + 1 /\ x.at \in 0..MaxTime /\ x = RowOf(i, x.key, x.at)
                                   /\ \A y \in rows : y.tier = i + 1 /\ y.key = x.key => y.at < x.at
      BY <2>2, <3>1, AggregatedOK DEF RowOK
    <3>3. \A y \in rows : y.at \in 0..MaxTime
      BY <3>1 DEF HubOK, RowOK
    <3>4. ASSUME NEW r \in Aggregated(i), NEW x \in Aggregated(i), r.key = x.key, r.at = x.at PROVE r = x
      BY <3>2, <3>4
    <3>5. ASSUME NEW r \in Aggregated(i), NEW x \in rows, r.tier = x.tier, r.key = x.key PROVE r.at # x.at
      <4>1. x.at < r.at
        BY <3>2, <3>5
      <4> QED
        BY <3>2, <3>3, <4>1
    <3>6. ASSUME NEW r \in rows', NEW x \in rows', r.tier > 1, r.tier = x.tier, r.key = x.key, r.at = x.at
          PROVE  r = x
      BY <2>2, <3>4, <3>5, <3>6 DEF OneRowPerBucket
    <3> QED
      BY <3>6 DEF OneRowPerBucket
  <2>3. CASE rows' = rows
    BY <2>3 DEF OneRowPerBucket
  <2> QED
    BY <2>1, <2>2, <2>3
<1>3. CASE Expire
  <2>1. rows' \subseteq rows
    BY <1>3 DEF Expire
  <2> QED
    BY <2>1 DEF OneRowPerBucket
<1>4. ASSUME rows' = rows PROVE OneRowPerBucket'
  BY <1>4 DEF OneRowPerBucket
<1>5. Next \/ UNCHANGED vars => Ingest \/ Roll \/ Expire \/ rows' = rows
  BY DEF Next, vars, Tick, Sample, Connect, Break, NoticeLoss, AgentCrash, StartPass
<1> QED
  BY <1>1, <1>2, <1>3, <1>4, <1>5

\* A key has one row per bucket of a tier, however often a bucket is rolled up
\* again and whatever arrives late (aggregateTier).
THEOREM OneRowTheorem == Spec => []OneRowPerBucket
<1>1. Init => TypeInv /\ OneRowPerBucket
  <2>1. Init => rows = {}
    BY DEF Init
  <2> QED
    BY <2>1, TypeInit DEF OneRowPerBucket
<1>2. TypeInv /\ OneRowPerBucket /\ [Next]_vars => (TypeInv /\ OneRowPerBucket)'
  BY TypeStep, OneRowStep
<1>3. Spec => [](TypeInv /\ OneRowPerBucket)
  BY <1>1, <1>2, PTL DEF Spec
<1> QED
  BY <1>3, PTL

-----------------------------------------------------------------------------
(* Where the rows stand to the passes.                                     *)

\* The steps that are no roll, expiry or frame leave the tables alone; a pass
\* starts, the clock ticks between passes, or neither moves.
LEMMA Quiet ==
  ASSUME [Next]_vars, ~ Roll, ~ Expire, ~ Ingest
  PROVE  /\ UNCHANGED <<rows, turn, late, held, expired>>
         /\ \/ UNCHANGED <<now, pass, failed>>
            \/ pass' = 1
            \/ pass = 0 /\ pass' = 0 /\ now' = now + 1
<1>1. Next \/ UNCHANGED vars
  OBVIOUS
<1>2. CASE Tick
  BY <1>2 DEF Tick, history
<1>3. CASE StartPass
  BY <1>3 DEF StartPass, history
<1>4. CASE ~ Tick /\ ~ StartPass
  BY <1>1, <1>4 DEF Next, vars, history, Sample, Connect, Break, NoticeLoss, AgentCrash
<1> QED
  BY <1>2, <1>3, <1>4

\* What is numbers.
LEMMA Numbers ==
  ASSUME TypeInv
  PROVE  /\ HubOK /\ now \in 0..MaxTime /\ now \in Nat /\ pass \in Nat
         /\ \A r \in rows : r.at \in Nat /\ r.tier \in Tiers /\ r.tier \in Nat
         /\ \A i \in Rolled : turn[i] \in Nat /\ i \in Nat \ {0}
<1>1. MaxTime \in Nat /\ Len(Retain) \in Nat
  BY WidthFacts, BoundAssumption
<1>2. HubOK /\ now \in 0..MaxTime
  BY DEF TypeInv, AgentOK
<1> QED
  BY <1>1, <1>2, WidthFacts DEF HubOK, RowOK, Tiers

\* What happens to the tables when a tier has its turn.
LEMMA RollFacts ==
  ASSUME TypeInv, TurnInv, Roll
  PROVE  LET i == Steps[pass].tier
         IN  /\ pass = 2 * i - 1 /\ pass' = 2 * i /\ i \in Nat \ {0}
             /\ UNCHANGED <<now, expired, late>>
             /\ \A j \in Rolled : turn'[j] = IF j = i THEN now ELSE turn[j]
             /\ \A j \in Rolled : j < i => turn[j] = now
             /\ rows \subseteq rows' /\ held \subseteq held'
             /\ \A x \in rows' \ rows : RollsUp(i) /\ x \in Aggregated(i) /\ x.tier = i + 1
             /\ i \in Rolled => RollsUp(i) \/ RollFails(i)
             /\ RollFails(i) => i \in failed'
<1> DEFINE i == Steps[pass].tier
<1>1. i \in Tiers /\ i \in Nat /\ pass = 2 * i - 1 /\ pass' = 2 * i
  BY Numbers, StepFacts DEF Roll
<1>2. /\ \/ RollsUp(i) \/ RollFails(i)
         \/ i \notin Rolled /\ rows' = rows /\ turn' = turn /\ held' = held /\ failed' = failed
      /\ UNCHANGED <<now, expired, late>>
  BY RollCases
<1> HIDE DEF i
<1>3. i \in Nat \ {0}
  BY <1>1, WidthFacts DEF Tiers
<1>4. \A j \in Rolled : turn'[j] = IF j = i THEN now ELSE turn[j]
  BY <1>2 DEF RollsUp, RollFails, TypeInv, HubOK
<1>5. \A j \in Rolled : j < i => turn[j] = now
  BY <1>1, <1>3, Numbers DEF TurnInv
<1>6. rows \subseteq rows' /\ held \subseteq held'
  BY <1>2 DEF RollsUp, RollFails
<1>7. ASSUME NEW x \in rows' \ rows PROVE RollsUp(i) /\ x \in Aggregated(i)
  BY <1>2, <1>7 DEF RollsUp, RollFails
<1>8. ASSUME NEW x \in rows' \ rows PROVE x.tier = i + 1
  BY <1>7, <1>8, Numbers, AggregatedOK DEF RollsUp
<1>9. (i \in Rolled => RollsUp(i) \/ RollFails(i)) /\ (RollFails(i) => i \in failed')
  BY <1>2 DEF RollFails
<1> QED
  BY <1>1, <1>2, <1>3, <1>4, <1>5, <1>6, <1>7, <1>8, <1>9 DEF i

\* A row that a frame brings is of the lowest tier, and is on record for every
\* bucket it is too late for.
LEMMA IngestFacts ==
  ASSUME TypeInv, Ingest
  PROVE  /\ UNCHANGED <<now, pass, failed, turn, held, expired>>
         /\ rows \subseteq rows' /\ late \subseteq late'
         /\ \A r \in rows' \ rows :
              /\ r.tier = 1
              /\ \A j \in Rolled : Bucket(r.at, j) < Bucket(turn[1], j) => \A s \in r.of : Missed(j, s)'
<1> DEFINE frame == Head(wire)
           new == Ingested(frame)
<1>1. /\ wire # <<>>
      /\ \/ rows' = rows \cup new /\ late' = late \cup TooLate(frame)
         \/ rows' = rows /\ late' = late
      /\ UNCHANGED <<now, pass, failed, turn, held, expired>>
  BY DEF Ingest, Ingested
<1>2. frame \in SUBSET Samples
  BY <1>1, FirstOff DEF TypeInv, AgentOK
<1>3. \A x \in new : x.tier = 1 /\ \E s \in frame : x.of = {s} /\ x.at = s.at
  BY <1>2, IngestedOK
<1>4. \A s \in frame : \A j \in Rolled : Bucket(s.at, j) < Bucket(turn[1], j) => <<j, s>> \in TooLate(frame)
  BY <1>2, TooLateOK
<1> HIDE DEF new, frame
<1>5. ASSUME NEW r \in rows' \ rows, NEW j \in Rolled, Bucket(r.at, j) < Bucket(turn[1], j), NEW s \in r.of
      PROVE  Missed(j, s)'
  <2>1. r \in new /\ late' = late \cup TooLate(frame)
    BY <1>1, <1>5
  <2>2. s \in frame /\ r.at = s.at
    BY <1>3, <1>5, <2>1
  <2>3. Bucket(s.at, j) < Bucket(turn[1], j)
    BY <1>5, <2>2
  <2> QED
    BY <1>4, <2>1, <2>2, <2>3 DEF Missed
<1>6. \A r \in rows' \ rows : r.tier = 1
  BY <1>1, <1>3
<1> QED
  BY <1>1, <1>5, <1>6

\* What happens to the tables when a tier is expired.
LEMMA ExpireFacts ==
  ASSUME TypeInv, Expire
  PROVE  LET i == Steps[pass].tier
         IN  /\ i \in Nat /\ pass = 2 * i /\ (pass' = 0 \/ pass' = 2 * i + 1)
             /\ UNCHANGED <<now, failed, turn, late, held>> /\ expired \subseteq expired'
             /\ rows' \subseteq rows
             /\ \A r \in rows : r \notin rows' <=> r.tier = i /\ r.at < now - Retain[i]
             /\ i \notin Rolled \ failed => \A r \in rows \ rows' : r.of \subseteq expired'
<1> DEFINE i == Steps[pass].tier
<1>1. i \in Nat /\ pass = 2 * i /\ (pass' = 0 \/ pass' = 2 * i + 1)
  BY Numbers, StepFacts DEF Expire
<1>2. /\ rows' = rows \ Gone(i) /\ UNCHANGED <<now, failed, turn, late, held>>
      /\ expired' = IF i \in Rolled \ failed THEN expired ELSE expired \cup UNION {r.of : r \in Gone(i)}
  BY DEF Expire, Gone
<1> HIDE DEF i
<1>3. \A r \in rows : r \notin rows' <=> r.tier = i /\ r.at < now - Retain[i]
  BY <1>2 DEF Gone
<1>4. i \notin Rolled \ failed => \A r \in rows \ rows' : r.of \subseteq expired'
  BY <1>2
<1> QED
  BY <1>1, <1>2, <1>3, <1>4 DEF i

\* The record of what missed a bucket only grows.
LEMMA MissedGrows ==
  ASSUME TypeInv, TurnInv, [Next]_vars, NEW j, NEW s, Missed(j, s)
  PROVE  Missed(j, s)'
<1>1. late \subseteq late' /\ held \subseteq held'
  <2>1. CASE Roll
    BY <2>1, RollFacts
  <2>2. CASE Ingest
    BY <2>2, IngestFacts
  <2>3. CASE Expire
    BY <2>3, ExpireFacts
  <2>4. CASE ~ Roll /\ ~ Ingest /\ ~ Expire
    BY <2>4, Quiet
  <2> QED
    BY <2>1, <2>2, <2>3, <2>4
<1> QED
  BY <1>1 DEF Missed

LEMMA TurnStep ==
  ASSUME TypeInv, TurnInv, [Next]_vars
  PROVE  TurnInv'
<1>1. now \in Nat /\ \A i \in Rolled : turn[i] \in Nat /\ i \in Nat \ {0}
  BY Numbers
<1>2. CASE Roll
  <2> DEFINE i == Steps[pass].tier
  <2>1. /\ pass' = 2 * i /\ i \in Nat \ {0} /\ now' = now
        /\ \A j \in Rolled : turn'[j] = IF j = i THEN now ELSE turn[j]
        /\ \A j \in Rolled : j < i => turn[j] = now
        /\ \A x \in rows' \ rows : RollsUp(i) /\ x \in Aggregated(i) /\ x.tier = i + 1
    BY <1>2, RollFacts
  <2> HIDE DEF i
  <2>2. \A j \in Rolled : turn[j] <= turn'[j] /\ turn'[j] <= now' /\ turn'[j] \in Nat
    BY <1>1, <2>1 DEF TurnInv
  <2>3. ASSUME NEW k \in Rolled, NEW j \in Rolled, j = k + 1 PROVE turn'[j] <= turn'[k]
    BY <1>1, <2>1, <2>3 DEF TurnInv
  <2>4. ASSUME NEW j \in Rolled, 2 * j - 1 < pass' PROVE turn'[j] = now'
    BY <1>1, <2>1, <2>4
  <2>5. ASSUME NEW x \in rows', NEW j \in Rolled, x.tier = j + 1 PROVE x.at < Bucket(turn'[j], j)
    <3>1. CASE x \in rows
      <4>1. x.at < Bucket(turn[j], j) /\ x.at \in Nat
        BY <2>5, <3>1, Numbers DEF TurnInv
      <4>2. Bucket(turn[j], j) <= Bucket(turn'[j], j) /\ Bucket(turn[j], j) \in Nat /\ Bucket(turn'[j], j) \in Nat
        BY <1>1, <2>2, BucketFacts
      <4> QED
        BY <4>1, <4>2
    <3>2. CASE x \notin rows
      <4>1. x \in Aggregated(i) /\ i \in Rolled /\ x.tier = i + 1
        BY <2>1, <2>5, <3>2 DEF RollsUp
      <4>2. j = i
        BY <1>1, <2>1, <2>5, <4>1
      <4>3. x.at < Bucket(now, i)
        BY <4>1, AggregatedOK, Numbers
      <4> QED
        BY <2>1, <4>2, <4>3
    <3> QED
      BY <3>1, <3>2
  <2> QED
    BY <2>2, <2>3, <2>4, <2>5 DEF TurnInv
<1>3. CASE Ingest
  <2>1. /\ UNCHANGED <<now, pass, turn>> /\ \A x \in rows' \ rows : x.tier = 1
    BY <1>3, IngestFacts
  <2>2. \A i \in Rolled : i + 1 # 1
    BY <1>1
  <2> QED
    BY <2>1, <2>2 DEF TurnInv
<1>4. CASE Expire
  <2> DEFINE i == Steps[pass].tier
  <2>1. /\ i \in Nat /\ pass = 2 * i /\ (pass' = 0 \/ pass' = 2 * i + 1)
        /\ UNCHANGED <<now, turn>> /\ rows' \subseteq rows
    BY <1>4, ExpireFacts
  <2> HIDE DEF i
  <2>2. ASSUME NEW j \in Rolled, pass' # 0, 2 * j - 1 < pass' PROVE turn[j] = now
    <3>1. 2 * j - 1 < pass /\ pass # 0
      BY <1>1, <2>1, <2>2
    <3> QED
      BY <3>1 DEF TurnInv
  <2> QED
    BY <2>1, <2>2 DEF TurnInv
<1>5. CASE ~ Roll /\ ~ Ingest /\ ~ Expire
  <2>1. /\ UNCHANGED <<rows, turn>>
        /\ \/ UNCHANGED <<now, pass>>
           \/ pass' = 1
           \/ pass = 0 /\ pass' = 0 /\ now' = now + 1
    BY <1>5, Quiet
  <2>2. now' >= now
    <3>1. CASE Tick
      BY <1>1, <3>1 DEF Tick
    <3>2. CASE ~ Tick
      <4>1. now' = now
        BY <1>5, <3>2 DEF Next, vars, Sample, Connect, Break, NoticeLoss, AgentCrash, StartPass
      <4> QED
        BY <1>1, <4>1
    <3> QED
      BY <3>1, <3>2
  <2>3. \A j \in Rolled : pass' = 1 => ~ (2 * j - 1 < pass')
    BY <1>1
  <2>4. now' \in Nat
    BY TypeStep, BoundAssumption DEF TypeInv, AgentOK
  <2>5. \A j \in Rolled : turn[j] <= now'
    BY <1>1, <2>2, <2>4 DEF TurnInv
  <2> QED
    BY <2>1, <2>3, <2>5 DEF TurnInv
<1> QED
  BY <1>2, <1>3, <1>4, <1>5

\* When rows are added, fewer rows are yet to be rolled up.
LEMMA ToRollBefore ==
  ASSUME rows \subseteq rows', NEW i, NEW r, ToRoll(i, r)'
  PROVE  ToRoll(i, r)
BY DEF ToRoll

LEMMA PromptStep ==
  ASSUME TypeInv, TurnInv, PromptInv, ExpiredInv, [Next]_vars
  PROVE  PromptInv'
<1> SUFFICES ASSUME NEW r \in rows', NEW i \in Rolled, NEW j \in Rolled, r.tier = i, j > i, ToRoll(i, r)',
                    Bucket(r.at, j) < Bucket(turn'[i], j), NEW s \in r.of
             PROVE  Missed(j, s)'
  BY DEF PromptInv, MayMiss
<1>1. /\ HubOK /\ now \in Nat /\ now \in 0..MaxTime /\ i \in Nat \ {0} /\ j \in Nat \ {0}
      /\ \A k \in Rolled : turn[k] \in Nat /\ k \in Nat \ {0}
      /\ \A x \in rows : x.at \in Nat
  BY Numbers
<1>2. ASSUME r \in rows, ToRoll(i, r), Bucket(r.at, j) < Bucket(turn[i], j) PROVE Missed(j, s)'
  <2>1. Missed(j, s)
    BY <1>2 DEF PromptInv, MayMiss
  <2> QED
    BY <2>1, MissedGrows
<1>3. CASE Roll
  <2> DEFINE k == Steps[pass].tier
  <2>1. /\ k \in Nat \ {0}
        /\ \A l \in Rolled : turn'[l] = IF l = k THEN now ELSE turn[l]
        /\ rows \subseteq rows'
        /\ \A x \in rows' \ rows : RollsUp(k) /\ x \in Aggregated(k) /\ x.tier = k + 1
        /\ k \in Rolled => RollsUp(k) \/ RollFails(k)
    BY <1>3, RollFacts
  <2> HIDE DEF k
  <2>2. CASE r \in rows /\ i # k
    <3>1. ToRoll(i, r)
      BY <2>1, ToRollBefore
    <3>2. turn'[i] = turn[i]
      BY <2>1, <2>2
    <3> QED
      BY <1>2, <2>2, <3>1, <3>2
  <2>3. CASE r \in rows /\ i = k
    <3>1. ToRoll(i, r) /\ turn'[i] = now
      BY <2>1, <2>3, ToRollBefore
    <3>2. Bucket(r.at, i) < Bucket(now, i) /\ Bucket(Bucket(r.at, i), j) = Bucket(r.at, j)
      <4>1. /\ Bucket(Bucket(r.at, i), j) = Bucket(r.at, j)
            /\ Bucket(now, i) <= Bucket(r.at, i) => Bucket(now, j) <= Bucket(r.at, j)
        BY <1>1, <2>3, Nested
      <4>2. /\ Bucket(r.at, i) \in Nat /\ Bucket(now, i) \in Nat
            /\ Bucket(r.at, j) \in Nat /\ Bucket(now, j) \in Nat
        BY <1>1, <2>3, BucketFacts
      <4>3. Bucket(r.at, j) < Bucket(now, j)
        BY <3>1
      <4> QED
        BY <4>1, <4>2, <4>3
    <3>3. PICK x \in Aggregated(i) : /\ x.key = r.key /\ x.at = Bucket(r.at, i) /\ x.tier = i + 1
                                     /\ r.of \subseteq x.of
      BY <2>3, <3>1, <3>2, AggregatedFrom
    <3>4. CASE RollsUp(k)
      <4>1. x \in rows'
        BY <2>3, <3>3, <3>4 DEF RollsUp
      <4>2. x.at < Bucket(r.at, i)
        BY <3>3, <4>1 DEF ToRoll
      <4>3. Bucket(r.at, i) \in Nat
        BY <1>1, <2>3, BucketFacts
      <4> QED
        BY <3>3, <4>2, <4>3
    <3>5. CASE RollFails(k)
      <4>1. s \in Samples
        BY <2>3 DEF TypeInv, HubOK, RowOK
      <4>2. <<j, s>> \in HeldBack(i)
        <5> DEFINE g == <<j, s>>
        <5>1. g \in Rolled \X Samples /\ g[1] = j /\ g[2] = s
          BY <4>1
        <5>2. g[1] > i /\ g[2] \in x.of /\ Bucket(x.at, g[1]) < Bucket(now, g[1])
          BY <3>1, <3>2, <3>3, <5>1
        <5> HIDE DEF g
        <5>3. g \in HeldBack(i)
          BY <3>3, <5>1, <5>2 DEF HeldBack
        <5> QED
          BY <5>3 DEF g
      <4>3. held' = held \cup HeldBack(i)
        BY <2>3, <3>5 DEF RollFails
      <4> QED
        BY <4>2, <4>3 DEF Missed
    <3> QED
      BY <2>1, <2>3, <3>4, <3>5
  <2>4. CASE r \notin rows
    <3>1. RollsUp(k) /\ r \in Aggregated(k) /\ i = k + 1 /\ k \in Rolled
      BY <2>1, <2>4 DEF RollsUp
    <3>2. PICK q \in rows : /\ q.tier = k /\ s \in q.of /\ Bucket(q.at, k) = r.at /\ ToRoll(k, q)
      BY <3>1, AggregatedFrom
    <3>3. turn'[i] = turn[i] /\ turn[i] <= turn[k] /\ k < j
      BY <1>1, <2>1, <3>1 DEF TurnInv
    <3>4. Bucket(q.at, j) = Bucket(r.at, j)
      BY <1>1, <2>1, <3>1, <3>2, <3>3, Nested
    <3>5. Bucket(q.at, j) < Bucket(turn[k], j)
      <4>1. Bucket(turn[i], j) <= Bucket(turn[k], j) /\ Bucket(turn[i], j) \in Nat /\ Bucket(turn[k], j) \in Nat
        BY <1>1, <3>1, <3>3, BucketFacts
      <4>2. Bucket(q.at, j) \in Nat
        BY <1>1, BucketFacts
      <4>3. Bucket(q.at, j) < Bucket(turn[i], j)
        BY <3>3, <3>4
      <4> QED
        BY <4>1, <4>2, <4>3
    <3>6. Missed(j, s)
      BY <3>1, <3>2, <3>3, <3>5 DEF PromptInv, MayMiss
    <3> QED
      BY <3>6, MissedGrows
  <2> QED
    BY <2>2, <2>3, <2>4
<1>4. CASE Ingest
  <2>1. /\ turn' = turn /\ rows \subseteq rows'
        /\ \A x \in rows' \ rows :
             /\ x.tier = 1
             /\ \A l \in Rolled : Bucket(x.at, l) < Bucket(turn[1], l) => \A u \in x.of : Missed(l, u)'
    BY <1>4, IngestFacts
  <2>2. CASE r \in rows
    BY <1>2, <2>1, <2>2, ToRollBefore
  <2>3. CASE r \notin rows
    BY <2>1, <2>3
  <2> QED
    BY <2>2, <2>3
<1>5. CASE Expire
  <2> DEFINE k == Steps[pass].tier
  <2>1. /\ k \in Nat /\ pass = 2 * k
        /\ turn' = turn /\ rows' \subseteq rows
        /\ \A x \in rows : x \notin rows' <=> x.tier = k /\ x.at < now - Retain[k]
    BY <1>5, ExpireFacts
  <2> HIDE DEF k
  <2>2. r \in rows /\ Bucket(r.at, j) < Bucket(turn[i], j)
    BY <2>1
  <2>3. CASE ~ ToRoll(i, r)
    <3>1. PICK x \in rows : x.tier = i + 1 /\ x.key = r.key /\ ~ (x.at < Bucket(r.at, i))
      BY <2>3 DEF ToRoll
    <3>2. x \notin rows'
      BY <3>1 DEF ToRoll
    <3>3. k = i + 1 /\ x.at < now - Retain[k]
      BY <2>1, <3>1, <3>2
    <3>4. k \in Rolled
      BY <1>1, <3>3, WidthFacts DEF Rolled
    <3>5. Retain[i] + Widths[i] <= Retain[k] /\ Retain[i] \in Nat /\ Widths[i] \in Nat /\ Retain[k] \in Nat
      BY <3>3, <3>4, WidthPairs, WidthFacts
    <3>6. r.at < Bucket(r.at, i) + Widths[i] /\ Bucket(r.at, i) \in Nat
      BY <1>1, <2>2, BucketFacts
    <3>7. ~ (r.at >= now - Retain[i])
      BY <1>1, <2>2, <3>1, <3>3, <3>5, <3>6
    <3>8. pass > 2 * i
      BY <1>1, <2>1, <3>3
    <3>9. i = 1 /\ MayMiss(i, j, r)
      BY <2>2, <3>7, <3>8 DEF ExpiredInv
    <3>10. Missed(j, s)
      BY <2>2, <3>9 DEF MayMiss
    <3> QED
      BY <3>10, MissedGrows
  <2> QED
    BY <1>2, <2>2, <2>3
<1>6. CASE ~ Roll /\ ~ Ingest /\ ~ Expire
  <2>1. UNCHANGED <<rows, turn>>
    BY <1>6, Quiet
  <2> QED
    BY <1>2, <2>1, ToRollBefore
<1> QED
  BY <1>3, <1>4, <1>5, <1>6

LEMMA ExpiredStep ==
  ASSUME TypeInv, TurnInv, ExpiredInv, [Next]_vars
  PROVE  ExpiredInv'
<1> SUFFICES ASSUME NEW r \in rows', NEW i \in Rolled, r.tier = i, pass' > 2 * i, ~ (r.at >= now' - Retain[i]),
                    NEW j \in Rolled
             PROVE  /\ i = 1
                    /\ Bucket(r.at, j) < Bucket(turn'[1], j) => \A s \in r.of : Missed(j, s)'
  BY DEF ExpiredInv, MayMiss
<1>1. now \in Nat /\ pass \in Nat /\ i \in Nat \ {0}
  BY Numbers
<1>2. ASSUME r \in rows, pass > 2 * i, now' = now, i = 1 => turn'[1] = turn[1]
      PROVE  /\ i = 1
             /\ Bucket(r.at, j) < Bucket(turn'[1], j) => \A s \in r.of : Missed(j, s)'
  <2>1. i = 1 /\ MayMiss(1, j, r)
    BY <1>2 DEF ExpiredInv
  <2> QED
    BY <1>2, <2>1, MissedGrows DEF MayMiss
<1>3. CASE Roll
  <2> DEFINE k == Steps[pass].tier
  <2>1. /\ k \in Nat \ {0} /\ pass = 2 * k - 1 /\ pass' = 2 * k /\ now' = now
        /\ \A l \in Rolled : turn'[l] = IF l = k THEN now ELSE turn[l]
        /\ \A x \in rows' \ rows : x.tier = k + 1
    BY <1>3, RollFacts
  <2> HIDE DEF k
  <2>2. i < k /\ pass > 2 * i /\ i # k + 1
    BY <1>1, <2>1
  <2>3. r \in rows /\ (i = 1 => turn'[1] = turn[1])
    BY <1>1, <2>1, <2>2
  <2> QED
    BY <1>2, <2>1, <2>2, <2>3
<1>4. CASE Ingest
  <2>1. /\ UNCHANGED <<now, pass, turn>>
        /\ \A x \in rows' \ rows :
             /\ x.tier = 1
             /\ \A l \in Rolled : Bucket(x.at, l) < Bucket(turn[1], l) => \A u \in x.of : Missed(l, u)'
    BY <1>4, IngestFacts
  <2>2. CASE r \in rows
    BY <1>2, <2>1, <2>2
  <2>3. CASE r \notin rows
    BY <2>1, <2>3
  <2> QED
    BY <2>2, <2>3
<1>5. CASE Expire
  <2> DEFINE k == Steps[pass].tier
  <2>1. /\ k \in Nat /\ pass = 2 * k /\ (pass' = 0 \/ pass' = 2 * k + 1)
        /\ UNCHANGED <<now, turn>> /\ rows' \subseteq rows
        /\ \A x \in rows : x \notin rows' <=> x.tier = k /\ x.at < now - Retain[k]
    BY <1>5, ExpireFacts
  <2> HIDE DEF k
  <2>2. i = k \/ i < k
    BY <1>1, <2>1
  <2>3. i # k
    <3> SUFFICES ASSUME i = k PROVE FALSE
      OBVIOUS
    <3>1. r.at \in Nat /\ Retain[i] \in Nat
      BY <2>1, Numbers, WidthFacts
    <3> QED
      BY <1>1, <2>1, <3>1
  <2>4. pass > 2 * i
    BY <1>1, <2>1, <2>2, <2>3
  <2> QED
    BY <1>2, <2>1, <2>4
<1>6. CASE ~ Roll /\ ~ Ingest /\ ~ Expire
  <2>1. /\ UNCHANGED <<rows, turn>>
        /\ \/ UNCHANGED <<now, pass>>
           \/ pass' = 1
           \/ pass = 0 /\ pass' = 0 /\ now' = now + 1
    BY <1>6, Quiet
  <2>2. UNCHANGED <<now, pass>>
    BY <1>1, <2>1
  <2> QED
    BY <1>2, <2>1, <2>2
<1> QED
  BY <1>3, <1>4, <1>5, <1>6

-----------------------------------------------------------------------------
(* A bucket is whole.                                                      *)

LEMMA WholeStep ==
  ASSUME TypeInv, TurnInv, PromptInv, BucketIsWhole, [Next]_vars
  PROVE  BucketIsWhole'
<1> SUFFICES ASSUME NEW r \in rows', NEW x \in rows', r.tier + 1 = x.tier, r.key = x.key,
                    Bucket(r.at, r.tier) = x.at, NEW s \in r.of
             PROVE  s \in x.of \/ Missed(r.tier, s)'
  <2>1. ASSUME NEW r \in rows', NEW x \in rows', r.tier + 1 = x.tier, r.key = x.key,
               Bucket(r.at, r.tier) = x.at, NEW s \in r.of, s \in x.of \/ Missed(r.tier, s)'
        PROVE  s \in x.of \/ Missed(r.tier, s)'
    BY <2>1
  <2> QED
    BY DEF BucketIsWhole
<1> DEFINE i == r.tier
<1>1. i \in Rolled /\ i \in Nat \ {0} /\ x.tier = i + 1
  <2>1. r.tier \in Tiers /\ x.tier \in Tiers
    BY TypeStep DEF TypeInv, HubOK, RowOK
  <2> QED
    BY <2>1, WidthFacts DEF Tiers, Rolled
<1>2. /\ now \in Nat /\ now \in 0..MaxTime
      /\ \A k \in Rolled : turn[k] \in Nat /\ k \in Nat \ {0}
      /\ \A y \in rows : y.at \in Nat
  BY Numbers
<1>3. ASSUME r \in rows, x \in rows PROVE s \in x.of \/ Missed(i, s)'
  <2>1. s \in x.of \/ Missed(i, s)
    BY <1>3 DEF BucketIsWhole
  <2> QED
    BY <2>1, MissedGrows
<1>4. x.at = Bucket(r.at, i) /\ r.tier = i
  OBVIOUS
<1> HIDE DEF i
<1>5. CASE Roll
  <2> DEFINE k == Steps[pass].tier
  <2>1. /\ k \in Nat \ {0}
        /\ \A y \in rows' \ rows : RollsUp(k) /\ y \in Aggregated(k) /\ y.tier = k + 1
    BY <1>5, RollFacts
  <2> HIDE DEF k
  <2>2. CASE x \notin rows
    <3>1. x \in Aggregated(k) /\ k \in Rolled /\ i = k
      BY <1>1, <2>1, <2>2 DEF RollsUp
    <3>2. r \in rows
      BY <1>1, <1>4, <2>1, <3>1
    <3>3. x = RowOf(i, x.key, x.at) /\ x.at < Bucket(now, i)
      BY <1>2, <3>1, AggregatedOK, Numbers
    <3>4. r.at < Cutoff(i)
      BY <1>1, <1>2, <1>4, <3>2, <3>3, BucketFacts DEF Cutoff
    <3>5. r \in Rolling(i)
      BY <1>4, <3>2, <3>4 DEF Rolling
    <3>6. s \in Sum(i, x.key, x.at)
      BY <1>4, <3>5 DEF Sum
    <3>7. x.of = Sum(i, x.key, x.at)
      BY <3>3 DEF RowOf
    <3> QED
      BY <3>6, <3>7
  <2>3. CASE x \in rows /\ r \notin rows
    <3>1. r \in Aggregated(k) /\ k \in Rolled /\ i = k + 1
      BY <1>1, <1>4, <2>1, <2>3 DEF RollsUp
    <3>2. PICK q \in rows : /\ q.tier = k /\ s \in q.of /\ Bucket(q.at, k) = r.at /\ ToRoll(k, q)
      BY <3>1, AggregatedFrom
    <3>3. turn[i] <= turn[k] /\ k < i
      BY <1>1, <1>2, <3>1 DEF TurnInv
    <3>4. Bucket(q.at, i) = Bucket(r.at, i)
      BY <1>1, <1>2, <3>1, <3>2, <3>3, Nested
    <3>5. Bucket(q.at, i) < Bucket(turn[k], i)
      <4>1. Bucket(turn[i], i) <= Bucket(turn[k], i) /\ Bucket(turn[i], i) \in Nat /\ Bucket(turn[k], i) \in Nat
        BY <1>1, <1>2, <3>1, <3>3, BucketFacts
      <4>2. Bucket(q.at, i) \in Nat
        BY <1>1, <1>2, BucketFacts
      <4>3. Bucket(q.at, i) < Bucket(turn[i], i)
        BY <1>1, <1>4, <2>3, <3>4 DEF TurnInv
      <4> QED
        BY <4>1, <4>2, <4>3
    <3>6. Missed(i, s)
      BY <1>1, <3>1, <3>2, <3>3, <3>5 DEF PromptInv, MayMiss
    <3> QED
      BY <1>4, <3>6, MissedGrows
  <2> QED
    BY <1>3, <1>4, <2>2, <2>3
<1>6. CASE Ingest
  <2>1. /\ turn' = turn
        /\ \A y \in rows' \ rows :
             /\ y.tier = 1
             /\ \A l \in Rolled : Bucket(y.at, l) < Bucket(turn[1], l) => \A u \in y.of : Missed(l, u)'
    BY <1>6, IngestFacts
  <2>2. x \in rows
    BY <1>1, <2>1
  <2>3. CASE r \notin rows
    <3>1. i = 1 /\ x.at < Bucket(turn[1], 1)
      BY <1>1, <1>4, <2>1, <2>2, <2>3 DEF TurnInv
    <3>2. Bucket(r.at, 1) < Bucket(turn[1], 1)
      BY <1>4, <3>1
    <3> QED
      BY <1>1, <1>4, <2>1, <2>3, <3>1, <3>2
  <2> QED
    BY <1>3, <1>4, <2>2, <2>3
<1>7. CASE Expire
  <2>1. rows' \subseteq rows
    BY <1>7, ExpireFacts
  <2> QED
    BY <1>3, <1>4, <2>1
<1>8. CASE ~ Roll /\ ~ Ingest /\ ~ Expire
  <2>1. rows' = rows
    BY <1>8, Quiet
  <2> QED
    BY <1>3, <1>4, <2>1
<1> QED
  BY <1>5, <1>6, <1>7, <1>8

LEMMA TurnInit == Init => TurnInv /\ PromptInv /\ ExpiredInv
<1> SUFFICES ASSUME Init PROVE TurnInv /\ PromptInv /\ ExpiredInv
  OBVIOUS
<1>1. rows = {} /\ now = 0 /\ pass = 0 /\ turn = [i \in Rolled |-> 0]
  BY DEF Init
<1> QED
  BY <1>1 DEF TurnInv, PromptInv, ExpiredInv

\* A bucket sums up everything in its span, but what came once a pass had begun
\* after it was over, and what the failed aggregation of a lower tier held back
\* while the same pass went on (aggregateTier, Run).
THEOREM WholeTheorem == Spec => []BucketIsWhole
<1> DEFINE Inv == TypeInv /\ TurnInv /\ PromptInv /\ ExpiredInv /\ BucketIsWhole
<1>1. Init => Inv
  <2>1. Init => rows = {}
    BY DEF Init
  <2> QED
    BY <2>1, TypeInit, TurnInit DEF BucketIsWhole
<1>2. Inv /\ [Next]_vars => Inv'
  BY TypeStep, TurnStep, PromptStep, ExpiredStep, WholeStep
<1>3. Spec => []Inv
  BY <1>1, <1>2, PTL DEF Spec
<1> QED
  BY <1>3, PTL

-----------------------------------------------------------------------------
(* Nothing is forgotten.                                                   *)

LEMMA PassStep ==
  ASSUME TypeInv, TurnInv, PassInv, [Next]_vars
  PROVE  PassInv'
<1> SUFFICES ASSUME NEW r \in rows', NEW i \in Rolled, r.tier = i, pass' = 2 * i, i \notin failed',
                    Bucket(r.at, i) < Bucket(now', i), ToRoll(i, r)', NEW s \in r.of
             PROVE  SomeMissed(s)'
  BY DEF PassInv
<1>1. i \in Nat \ {0} /\ now \in Nat
  BY Numbers
<1>2. ASSUME r \in rows, rows \subseteq rows', UNCHANGED <<now, pass, failed>> PROVE SomeMissed(s)'
  <2>1. ToRoll(i, r)
    BY <1>2, ToRollBefore
  <2>2. SomeMissed(s)
    BY <1>2, <2>1 DEF PassInv
  <2> QED
    BY <2>2, MissedGrows DEF SomeMissed
<1>3. CASE Roll
  <2> DEFINE k == Steps[pass].tier
  <2>1. /\ pass' = 2 * k /\ k \in Nat \ {0} /\ now' = now /\ rows \subseteq rows'
        /\ \A x \in rows' \ rows : x.tier = k + 1
        /\ k \in Rolled => RollsUp(k) \/ RollFails(k)
        /\ RollFails(k) => k \in failed'
    BY <1>3, RollFacts
  <2> HIDE DEF k
  <2>2. i = k
    BY <1>1, <2>1
  <2>3. r \in rows /\ RollsUp(i)
    BY <1>1, <2>1, <2>2
  <2>4. ToRoll(i, r)
    BY <2>1, ToRollBefore
  <2>5. PICK x \in Aggregated(i) : /\ x.key = r.key /\ x.at = Bucket(r.at, i) /\ x.tier = i + 1
                                   /\ r.of \subseteq x.of
    BY <2>1, <2>3, <2>4, AggregatedFrom
  <2>6. x \in rows'
    BY <2>3, <2>5 DEF RollsUp
  <2>7. x.at < Bucket(r.at, i)
    BY <2>5, <2>6 DEF ToRoll
  <2>8. Bucket(r.at, i) \in Nat
    BY <2>3, Numbers, BucketFacts
  <2> QED
    BY <2>5, <2>7, <2>8
<1>4. CASE Ingest
  <2>1. /\ UNCHANGED <<now, pass, failed, turn>> /\ rows \subseteq rows'
        /\ \A x \in rows' \ rows :
             /\ x.tier = 1
             /\ \A l \in Rolled : Bucket(x.at, l) < Bucket(turn[1], l) => \A u \in x.of : Missed(l, u)'
    BY <1>4, IngestFacts
  <2>2. CASE r \in rows
    BY <1>2, <2>1, <2>2
  <2>3. CASE r \notin rows
    <3>1. i = 1 /\ pass = 2
      BY <2>1, <2>3
    <3>2. turn[1] = now
      BY <3>1 DEF TurnInv
    <3>3. Bucket(r.at, 1) < Bucket(turn[1], 1)
      BY <2>1, <3>1, <3>2
    <3>4. Missed(1, s)'
      BY <2>1, <2>3, <3>1, <3>3
    <3> QED
      BY <3>1, <3>4 DEF SomeMissed
  <2> QED
    BY <2>2, <2>3
<1>5. CASE Expire
  <2> DEFINE k == Steps[pass].tier
  <2>1. k \in Nat /\ (pass' = 0 \/ pass' = 2 * k + 1)
    BY <1>5, ExpireFacts
  <2> HIDE DEF k
  <2> QED
    BY <1>1, <2>1
<1>6. CASE ~ Roll /\ ~ Ingest /\ ~ Expire
  <2>1. /\ rows' = rows
        /\ UNCHANGED <<now, pass, failed>> \/ pass' = 1 \/ pass' = 0
    BY <1>6, Quiet
  <2>2. UNCHANGED <<now, pass, failed>>
    BY <1>1, <2>1
  <2> QED
    BY <1>2, <2>1, <2>2
<1> QED
  BY <1>3, <1>4, <1>5, <1>6

\* What an expired row held missed a bucket, leaves with the last tier or a pass
\* that failed, or is in a higher tier.
LEMMA ExpireKeeps ==
  ASSUME TypeInv, TurnInv, PassInv, KeptInv, Expire, NEW x \in rows \ rows', NEW s \in x.of
  PROVE  \/ SomeMissed(s) \/ s \in expired'
         \/ \E y \in rows' : y.tier > x.tier /\ s \in y.of
<1> DEFINE i == Steps[pass].tier
<1>1. /\ i \in Nat /\ pass = 2 * i /\ expired \subseteq expired' /\ rows' \subseteq rows
      /\ \A r \in rows : r \notin rows' <=> r.tier = i /\ r.at < now - Retain[i]
      /\ i \notin Rolled \ failed => \A r \in rows \ rows' : r.of \subseteq expired'
  BY ExpireFacts
<1> HIDE DEF i
<1>2. x.tier = i /\ x.at < now - Retain[i]
  BY <1>1
<1>3. CASE i \notin Rolled \ failed
  BY <1>1, <1>3
<1>4. CASE i \in Rolled \ failed
  <2>1. now \in Nat /\ x.at \in Nat /\ \A y \in rows : y.tier \in Nat
    BY Numbers
  <2>2. Widths[i] \in Nat /\ Retain[i] \in Nat /\ Retain[i] >= Widths[i]
    BY <1>4, WidthFacts
  <2>3. /\ Bucket(x.at, i) \in Nat /\ Bucket(x.at, i) <= x.at
        /\ Bucket(now, i) \in Nat /\ now < Bucket(now, i) + Widths[i]
    BY <1>4, <2>1, BucketFacts
  <2>4. Bucket(x.at, i) < Bucket(now, i)
    BY <1>2, <2>1, <2>2, <2>3
  <2>5. ~ ToRoll(i, x) \/ SomeMissed(s)
    BY <1>1, <1>2, <1>4, <2>4 DEF PassInv
  <2>6. CASE ~ ToRoll(i, x)
    <3>1. Kept(i, s)
      BY <1>2, <1>4, <2>6 DEF KeptInv
    <3>2. ASSUME NEW y \in rows, y.tier > i, s \in y.of PROVE y \in rows'
      BY <1>1, <2>1, <3>2
    <3> QED
      BY <1>1, <1>2, <3>1, <3>2 DEF Kept
  <2> QED
    BY <2>5, <2>6
<1> QED
  BY <1>3, <1>4

LEMMA KeptStep ==
  ASSUME TypeInv, TurnInv, PromptInv, PassInv, KeptInv, [Next]_vars
  PROVE  KeptInv'
<1> SUFFICES ASSUME NEW r \in rows', NEW i \in Rolled, r.tier = i, ~ ToRoll(i, r)', NEW s \in r.of
             PROVE  Kept(i, s)'
  BY DEF KeptInv
<1>1. SomeMissed(s) => SomeMissed(s)'
  BY MissedGrows DEF SomeMissed
<1>2. /\ i \in Nat \ {0} /\ now \in Nat /\ \A y \in rows : y.at \in Nat /\ y.tier \in Nat
      /\ \A k \in Rolled : turn[k] \in Nat /\ k \in Nat \ {0}
  BY Numbers
<1>3. ASSUME Kept(i, s), rows \subseteq rows', expired \subseteq expired' PROVE Kept(i, s)'
  BY <1>1, <1>3 DEF Kept
<1>4. PICK x \in rows' : x.tier = i + 1 /\ x.key = r.key /\ ~ (x.at < Bucket(r.at, i))
  BY DEF ToRoll
<1>5. r \in rows /\ ~ ToRoll(i, r) => Kept(i, s)
  BY DEF KeptInv
<1>6. x \in rows => ~ ToRoll(i, r)
  BY <1>4 DEF ToRoll
<1>7. CASE Roll
  <2> DEFINE k == Steps[pass].tier
  <2>1. /\ k \in Nat \ {0} /\ now' = now /\ expired' = expired /\ rows \subseteq rows'
        /\ \A y \in rows' \ rows : RollsUp(k) /\ y \in Aggregated(k) /\ y.tier = k + 1
    BY <1>7, RollFacts
  <2> HIDE DEF k
  <2>2. CASE r \in rows /\ ~ ToRoll(i, r)
    BY <1>3, <1>5, <2>1, <2>2
  <2>3. CASE r \in rows /\ ToRoll(i, r)
    <3>1. x \in Aggregated(k) /\ x.tier = k + 1 /\ RollsUp(k)
      BY <1>6, <2>1, <2>3
    <3>2. i = k
      BY <1>2, <1>4, <2>1, <3>1
    <3>3. x.at < Bucket(now, i) /\ x.at \in Nat
      <4>1. RowOK(x) /\ x.at < Bucket(now, i)
        BY <3>1, <3>2, Numbers, AggregatedOK
      <4> QED
        BY <4>1, BoundAssumption DEF RowOK
    <3>4. Bucket(r.at, i) < Bucket(now, i)
      <4>1. Bucket(r.at, i) \in Nat /\ Bucket(now, i) \in Nat
        BY <1>2, <2>3, BucketFacts
      <4> QED
        BY <1>4, <3>3, <4>1
    <3>5. PICK y \in Aggregated(i) : y.tier = i + 1 /\ r.of \subseteq y.of
      BY <2>3, <3>4, AggregatedFrom
    <3>6. y \in rows' /\ y.tier > i /\ s \in y.of
      BY <1>2, <3>1, <3>2, <3>5 DEF RollsUp
    <3> QED
      BY <3>6 DEF Kept
  <2>4. CASE r \notin rows
    <3>1. r \in Aggregated(k) /\ k \in Rolled /\ i = k + 1
      BY <2>1, <2>4 DEF RollsUp
    <3>2. x \in rows
      BY <1>2, <1>4, <2>1, <3>1
    <3>3. PICK q \in rows : /\ q.tier = k /\ s \in q.of /\ Bucket(q.at, k) = r.at /\ ToRoll(k, q)
      BY <3>1, AggregatedFrom
    <3>4. turn[i] <= turn[k] /\ k < i
      BY <1>2, <3>1 DEF TurnInv
    <3>5. Bucket(q.at, i) = Bucket(r.at, i)
      BY <1>2, <3>1, <3>3, <3>4, Nested
    <3>6. Bucket(q.at, i) < Bucket(turn[k], i)
      <4>1. Bucket(turn[i], i) <= Bucket(turn[k], i) /\ Bucket(turn[i], i) \in Nat /\ Bucket(turn[k], i) \in Nat
        BY <1>2, <3>1, <3>4, BucketFacts
      <4>2. Bucket(q.at, i) \in Nat /\ x.at \in Nat
        BY <1>2, <3>2, BucketFacts
      <4>3. x.at < Bucket(turn[i], i)
        BY <1>4, <3>2 DEF TurnInv
      <4>4. ~ (x.at < Bucket(q.at, i))
        BY <1>4, <3>5
      <4> QED
        BY <4>1, <4>2, <4>3, <4>4
    <3>7. Missed(i, s)
      BY <3>1, <3>3, <3>4, <3>6 DEF PromptInv, MayMiss
    <3>8. SomeMissed(s)'
      BY <1>1, <3>7 DEF SomeMissed
    <3> QED
      BY <3>8 DEF Kept
  <2> QED
    BY <2>2, <2>3, <2>4
<1>8. CASE Ingest
  <2>1. /\ turn' = turn /\ expired' = expired /\ rows \subseteq rows'
        /\ \A y \in rows' \ rows :
             /\ y.tier = 1
             /\ \A l \in Rolled : Bucket(y.at, l) < Bucket(turn[1], l) => \A u \in y.of : Missed(l, u)'
    BY <1>8, IngestFacts
  <2>2. x \in rows
    BY <1>2, <1>4, <2>1
  <2>3. CASE r \in rows
    BY <1>3, <1>5, <1>6, <2>1, <2>2, <2>3
  <2>4. CASE r \notin rows
    <3>1. i = 1 /\ x.at < Bucket(turn[i], i)
      BY <1>4, <2>1, <2>2, <2>4 DEF TurnInv
    <3>2. Bucket(r.at, i) < Bucket(turn[i], i)
      <4>1. x.at \in Nat /\ Bucket(turn[i], i) \in Nat
        BY <1>2, <2>2, BucketFacts
      <4>2. Bucket(r.at, i) \in Nat
        <5>1. r.at \in Nat
          BY TypeStep, BoundAssumption DEF TypeInv, HubOK, RowOK
        <5> QED
          BY <5>1, BucketFacts
      <4> QED
        BY <1>4, <3>1, <4>1, <4>2
    <3>3. Missed(i, s)'
      BY <2>1, <2>4, <3>1, <3>2
    <3> QED
      BY <3>3 DEF SomeMissed, Kept
  <2> QED
    BY <2>3, <2>4
<1>9. CASE Expire
  <2>1. rows' \subseteq rows /\ expired \subseteq expired'
    BY <1>9, ExpireFacts
  <2>2. Kept(i, s)
    BY <1>5, <1>6, <2>1
  <2>3. CASE SomeMissed(s) \/ s \in expired
    BY <1>1, <2>1, <2>3 DEF Kept
  <2>4. ASSUME NEW y \in rows, y.tier > i, s \in y.of PROVE Kept(i, s)'
    <3>1. CASE y \in rows'
      BY <2>4, <3>1 DEF Kept
    <3>2. CASE y \notin rows'
      <4>1. SomeMissed(s) \/ s \in expired' \/ \E z \in rows' : z.tier > y.tier /\ s \in z.of
        BY <1>9, <2>4, <3>2, ExpireKeeps
      <4>2. \A z \in rows' : z.tier > y.tier => z.tier > i
        BY <1>2, <2>1, <2>4
      <4> QED
        BY <1>1, <4>1, <4>2 DEF Kept
    <3> QED
      BY <3>1, <3>2
  <2> QED
    BY <2>2, <2>3, <2>4 DEF Kept
<1>10. CASE ~ Roll /\ ~ Ingest /\ ~ Expire
  <2>1. rows' = rows /\ expired' = expired
    BY <1>10, Quiet
  <2> QED
    BY <1>3, <1>5, <1>6, <2>1
<1> QED
  BY <1>7, <1>8, <1>9, <1>10

\* A stored sample stays in some row until the last tier expires it, unless it
\* missed a bucket, having come too late or been held back, or the pass that
\* expires it had failed to roll it up (Run, enforceRetention).
THEOREM ForgottenTheorem == Spec => NothingForgotten
<1> DEFINE Inv == TypeInv /\ TurnInv /\ PromptInv /\ ExpiredInv /\ PassInv /\ KeptInv
<1>1. Init => Inv
  <2>1. ASSUME Init PROVE PassInv /\ KeptInv
    <3>1. rows = {}
      BY <2>1 DEF Init
    <3> QED
      BY <3>1 DEF PassInv, KeptInv
  <2> QED
    BY <2>1, TypeInit, TurnInit
<1>2. Inv /\ [Next]_vars => Inv'
  BY TypeStep, TurnStep, PromptStep, ExpiredStep, PassStep, KeptStep
<1>3. Inv /\ [Next]_vars => [\A s \in Stored \ Stored' : (\E i \in Rolled : Missed(i, s)) \/ s \in expired']_rows
  <2> SUFFICES ASSUME Inv, [Next]_vars, NEW s \in Stored \ Stored'
               PROVE  (\E i \in Rolled : Missed(i, s)) \/ s \in expired'
    OBVIOUS
  <2>1. PICK x \in rows : s \in x.of
    BY DEF Stored
  <2>2. x \notin rows' /\ \A y \in rows' : s \notin y.of
    BY <2>1 DEF Stored
  <2>3. CASE Expire
    BY <2>1, <2>2, <2>3, ExpireKeeps DEF SomeMissed
  <2>4. rows \subseteq rows' \/ Expire
    <3>1. CASE Roll
      BY <3>1, RollFacts
    <3>2. CASE Ingest
      BY <3>2, IngestFacts
    <3>3. CASE ~ Roll /\ ~ Ingest /\ ~ Expire
      BY <3>3, Quiet
    <3> QED
      BY <3>1, <3>2, <3>3
  <2> QED
    BY <2>1, <2>2, <2>3, <2>4
<1> QED
  BY <1>1, <1>2, <1>3, PTL DEF Spec, NothingForgotten

-----------------------------------------------------------------------------
(* A sample is in one place.                                               *)

\* PlaceInv is SampleInOnePlace, with the two sequences apart.
LEMMA OnePlace == TypeInv /\ PlaceInv => SampleInOnePlace
<1> SUFFICES ASSUME TypeInv, PlaceInv PROVE SampleInOnePlace
  OBVIOUS
<1> DEFINE S == SUBSET Samples
           frames == buf \o wire
<1>1. buf \in Seq(S) /\ wire \in Seq(S)
  BY DEF TypeInv, AgentOK
<1>2. /\ frames \in Seq(S) /\ DOMAIN frames = 1..(Len(buf) + Len(wire))
      /\ Len(buf) \in Nat /\ Len(wire) \in Nat
      /\ \A i \in 1..(Len(buf) + Len(wire)) :
           frames[i] = IF i <= Len(buf) THEN buf[i] ELSE wire[i - Len(buf)]
  BY <1>1
<1> HIDE DEF frames, S
<1>3. ASSUME NEW i \in DOMAIN frames, NEW j \in DOMAIN frames, i # j, NEW s, s \in frames[i], s \in frames[j]
      PROVE  FALSE
  <2>1. ASSUME NEW k \in DOMAIN frames
        PROVE  \/ k \in 1..Len(buf) /\ frames[k] = buf[k]
               \/ k > Len(buf) /\ k - Len(buf) \in 1..Len(wire) /\ frames[k] = wire[k - Len(buf)]
    BY <1>2
  <2>2. CASE i \in 1..Len(buf) /\ frames[i] = buf[i] /\ j \in 1..Len(buf) /\ frames[j] = buf[j]
    BY <1>3, <2>2 DEF PlaceInv, Apart
  <2>3. CASE /\ i - Len(buf) \in 1..Len(wire) /\ frames[i] = wire[i - Len(buf)]
             /\ j - Len(buf) \in 1..Len(wire) /\ frames[j] = wire[j - Len(buf)]
    <3>1. i - Len(buf) # j - Len(buf)
      BY <1>2, <1>3
    <3> QED
      BY <1>3, <2>3, <3>1 DEF PlaceInv, Apart
  <2>4. ASSUME NEW k \in 1..Len(buf), NEW l \in 1..Len(wire), s \in buf[k], s \in wire[l] PROVE FALSE
    <3>1. s \in All(buf) /\ s \in All(wire)
      BY <1>1, <2>4, AllIn
    <3> QED
      BY <3>1 DEF PlaceInv
  <2> QED
    BY <1>3, <2>1, <2>2, <2>3, <2>4
<1>4. \A i, j \in DOMAIN frames : i # j => frames[i] \cap frames[j] = {}
  BY <1>3
<1> QED
  BY <1>4 DEF SampleInOnePlace, PlaceInv, Held, frames

\* sendMetrics moves frames: what was buffered and the new batch are buffered,
\* under way or given up, each sample once.
LEMMA SendEffect ==
  ASSUME TypeInv, PlaceInv, NEW batch \in SUBSET Samples, SendMetrics(batch),
         batch \cap (All(buf) \cup All(wire) \cup Held \cup lost) = {}
  PROVE  /\ Apart(buf') /\ Apart(wire') /\ All(buf') \cap All(wire') = {}
         /\ (All(buf') \cup All(wire')) \cap (Held \cup lost') = {} /\ Held \cap lost' = {}
         /\ All(buf') \cup All(wire') \cup lost' = All(buf) \cup All(wire) \cup lost \cup batch
<1> DEFINE S == SUBSET Samples
           more == Append(buf, batch)
           over == Len(more) - BufferCap
           B == All(buf)
           W == All(wire)
<1>1. BufferCap \in Nat /\ buf \in Seq(S) /\ wire \in Seq(S) /\ Len(buf) <= BufferCap /\ batch \in S /\ B \in S
  BY BoundAssumption, AllType DEF TypeInv, AgentOK
<1>2. /\ Apart(buf) /\ Apart(wire) /\ B \cap W = {}
      /\ (B \cup W) \cap (Held \cup lost) = {} /\ Held \cap lost = {}
      /\ batch \cap (B \cup W \cup Held \cup lost) = {}
  BY DEF PlaceInv
<1>3. /\ more \in Seq(S) /\ Len(more) = Len(buf) + 1
      /\ All(more) = B \cup batch /\ Apart(more)
  BY <1>1, <1>2, OneMore
<1>4. CASE conn = "none" /\ over > 0
  <2> DEFINE lo == SubSeq(more, 1, over)
             hi == SubSeq(more, over + 1, Len(more))
  <2>1. buf' = hi /\ lost' = lost \cup All(lo) /\ wire' = wire
    BY <1>4 DEF SendMetrics
  <2>2. over \in 0..Len(more)
    BY <1>1, <1>3, <1>4
  <2>3. All(lo) \cup All(hi) = All(more) /\ Apart(hi) /\ All(lo) \cap All(hi) = {}
    <3> HIDE DEF over, more
    <3> QED
      BY <1>3, <2>2, CutInTwo
  <2> HIDE DEF lo, hi, more, B, W
  <2> QED
    BY <1>2, <1>3, <2>1, <2>3 DEF B, W
<1>5. CASE conn = "none" /\ ~ (over > 0)
  <2>1. buf' = more /\ lost' = lost \cup {} /\ wire' = wire
    BY <1>5 DEF SendMetrics
  <2> HIDE DEF more
  <2> QED
    BY <1>2, <1>3, <2>1
<1>6. CASE conn # "none"
  <2>1. buf' = <<>> /\ All(buf') = {} /\ Apart(buf')
    BY <1>6, AllOfNone DEF SendMetrics
  <2>2. CASE conn = "up" /\ buf = <<>>
    <3>1. wire' = wire \o <<batch>> /\ lost' = lost
      BY <1>6, <2>2 DEF SendMetrics
    <3>2. wire' = Append(wire, batch)
      BY <1>1, <3>1
    <3>3. All(wire') = W \cup batch /\ Apart(wire')
      BY <1>1, <1>2, <3>2, OneMore
    <3>4. B = {}
      BY <2>2, AllOfNone
    <3> HIDE DEF W, B
    <3> QED
      BY <1>2, <2>1, <3>1, <3>3, <3>4 DEF B, W
  <2>3. CASE conn = "up" /\ buf # <<>>
    <3>1. wire' = wire \o <<B, batch>> /\ lost' = lost
      BY <1>6, <2>3 DEF SendMetrics
    <3> DEFINE first == Append(wire, B)
    <3>2. wire' = Append(first, batch)
      <4> HIDE DEF B
      <4> QED
        BY <1>1, <3>1
    <3>3. first \in Seq(S) /\ All(first) = W \cup B /\ Apart(first)
      BY <1>1, <1>2, OneMore
    <3> HIDE DEF first, W, B
    <3>4. batch \cap All(first) = {}
      BY <1>2, <3>3
    <3>5. All(wire') = W \cup B \cup batch /\ Apart(wire')
      BY <1>1, <3>2, <3>3, <3>4, OneMore
    <3> QED
      BY <1>2, <2>1, <3>1, <3>5 DEF B, W
  <2>4. CASE conn # "up"
    <3>1. wire' = wire /\ lost' = lost \cup B \cup batch
      BY <1>6, <2>4 DEF SendMetrics
    <3> HIDE DEF W, B
    <3> QED
      BY <1>2, <2>1, <3>1 DEF B, W
  <2> QED
    BY <2>2, <2>3, <2>4
<1> QED
  BY <1>4, <1>5, <1>6

\* What a transaction adds to the tables.
LEMMA IngestHeld ==
  ASSUME NEW frame, rows' = rows \cup Ingested(frame), expired' = expired
  PROVE  Held' = Held \cup frame
<1>1. ASSUME NEW s PROVE s \in Stored' <=> s \in Stored \cup frame
  <2>1. ASSUME s \in Stored' PROVE s \in Stored \cup frame
    <3>1. PICK r \in rows' : s \in r.of
      BY <2>1 DEF Stored
    <3>2. CASE r \in Ingested(frame)
      <4>1. PICK t \in frame : r = [tier |-> 1, key |-> t.key, at |-> t.at, of |-> {t}]
        BY <3>2 DEF Ingested
      <4>2. r.of = {t}
        BY <4>1
      <4> QED
        BY <3>1, <4>2
    <3>3. CASE r \in rows
      BY <3>1, <3>3 DEF Stored
    <3> QED
      BY <3>2, <3>3
  <2>2. ASSUME s \in Stored PROVE s \in Stored'
    BY <2>2 DEF Stored
  <2>3. ASSUME s \in frame PROVE s \in Stored'
    <3> DEFINE r == [tier |-> 1, key |-> s.key, at |-> s.at, of |-> {s}]
    <3>1. r \in rows'
      BY <2>3 DEF Ingested
    <3>2. s \in r.of
      OBVIOUS
    <3> HIDE DEF r
    <3> QED
      BY <3>1, <3>2 DEF Stored
  <2> QED
    BY <2>1, <2>2, <2>3
<1>2. Stored' = Stored \cup frame
  BY <1>1
<1> QED
  BY <1>2 DEF Held

\* Rolling up stores nothing new; expiring moves or drops.
LEMMA RollHeld ==
  ASSUME TypeInv, Roll
  PROVE  Held' = Held
<1> DEFINE i == Steps[pass].tier
<1>1. expired' = expired
  BY RollCases
<1>2. CASE RollsUp(i)
  <2> DEFINE new == Aggregated(i)
  <2>1. i \in Rolled /\ rows' = rows \cup new
    BY <1>2 DEF RollsUp
  <2>2. \A x \in new : \E k, b : x = RowOf(i, k, b)
    BY AggregatedRows
  <2> HIDE DEF i, new
  <2>3. ASSUME NEW x \in new, NEW s \in x.of PROVE s \in Stored
    <3>1. PICK k, b : x = RowOf(i, k, b)
      BY <2>2
    <3>2. x.of = Sum(i, k, b)
      BY <3>1 DEF RowOf
    <3> QED
      BY <2>3, <3>2 DEF Sum, Rolling, Stored
  <2>4. Stored' = Stored
    BY <2>1, <2>3 DEF Stored
  <2> QED
    BY <1>1, <2>4 DEF Held
<1>3. CASE rows' = rows
  BY <1>1, <1>3 DEF Held, Stored
<1> QED
  BY <1>2, <1>3, RollCases DEF RollFails

LEMMA ExpireHeld ==
  ASSUME Expire
  PROVE  Held' \subseteq Held
<1> DEFINE i == Steps[pass].tier
<1>1. rows' = rows \ Gone(i) /\ expired' \subseteq expired \cup UNION {r.of : r \in Gone(i)}
  BY DEF Expire, Gone
<1>2. Gone(i) \subseteq rows
  BY DEF Gone
<1> HIDE DEF i
<1> QED
  BY <1>1, <1>2 DEF Held, Stored

\* The samples of a tick are new to everyone.
LEMMA BatchIsNew ==
  ASSUME TypeInv, FreshInv, NEW running \in SUBSET Keys \ {{}}, Sample(running)
  PROVE  LET batch == {[key |-> k, at |-> now] : k \in running}
         IN  /\ batch \in SUBSET Samples /\ SendMetrics(batch) /\ Held' = Held
             /\ batch \cap Everywhere = {}
             /\ now' = now /\ sampled' /\ \A s \in batch : s.at = now
<1> DEFINE batch == {[key |-> k, at |-> now] : k \in running}
<1>1. batch \in SUBSET Samples
  BY DEF Samples, TypeInv, AgentOK
<1>2. SendMetrics(batch) /\ sampled' /\ UNCHANGED <<now, conn, rows, pass, failed, turn, late, held, expired, faults>>
  BY DEF Sample
<1>3. \A s \in batch : s.at = now
  OBVIOUS
<1>4. ~ sampled
  BY DEF Sample
<1>5. ~ (now < now)
  BY BoundAssumption DEF TypeInv, AgentOK
<1> HIDE DEF batch
<1>6. batch \cap Everywhere = {}
  BY <1>3, <1>4, <1>5 DEF FreshInv
<1>7. Held' = Held /\ now' = now
  BY <1>2 DEF Held, Stored
<1> QED
  BY <1>1, <1>2, <1>3, <1>6, <1>7 DEF batch

LEMMA PlaceStep ==
  ASSUME TypeInv, FreshInv, PlaceInv, [Next]_vars
  PROVE  FreshInv' /\ PlaceInv'
<1>1. /\ now \in Nat /\ now' \in Nat /\ buf \in Seq(SUBSET Samples) /\ wire \in Seq(SUBSET Samples)
      /\ \A s \in Everywhere : s.at \in Nat
  <2>1. now \in Nat /\ now' \in Nat
    BY TypeStep, BoundAssumption DEF TypeInv, AgentOK
  <2>2. buf \in Seq(SUBSET Samples) /\ wire \in Seq(SUBSET Samples)
    BY DEF TypeInv, AgentOK
  <2>3. All(buf) \in SUBSET Samples /\ All(wire) \in SUBSET Samples
    BY <2>2, AllType
  <2>4. Held \subseteq Samples /\ lost \subseteq Samples
    BY DEF TypeInv, HubOK, RowOK, HistoryOK, Held, Stored
  <2>5. \A s \in Samples : s.at \in Nat
    BY BoundAssumption DEF Samples
  <2>6. Everywhere \subseteq Samples
    BY <2>3, <2>4 DEF Everywhere
  <2> QED
    BY <2>1, <2>2, <2>5, <2>6
<1>2. ASSUME Everywhere' \subseteq Everywhere, now' = now, sampled' = sampled PROVE FreshInv'
  BY <1>2 DEF FreshInv
<1>3. ASSUME NEW running \in SUBSET Keys \ {{}}, Sample(running) PROVE FreshInv' /\ PlaceInv'
  <2> DEFINE batch == {[key |-> k, at |-> now] : k \in running}
  <2>1. /\ batch \in SUBSET Samples /\ SendMetrics(batch) /\ Held' = Held
        /\ batch \cap Everywhere = {}
        /\ now' = now /\ \A s \in batch : s.at = now
    BY <1>3, BatchIsNew
  <2>2. sampled'
    BY <1>3, BatchIsNew
  <2> HIDE DEF batch
  <2>3. batch \cap (All(buf) \cup All(wire) \cup Held \cup lost) = {}
    BY <2>1 DEF Everywhere
  <2>4. /\ Apart(buf') /\ Apart(wire') /\ All(buf') \cap All(wire') = {}
        /\ (All(buf') \cup All(wire')) \cap (Held \cup lost') = {} /\ Held \cap lost' = {}
        /\ All(buf') \cup All(wire') \cup lost' = All(buf) \cup All(wire) \cup lost \cup batch
    BY <2>1, <2>3, SendEffect
  <2>5. All(buf)' = All(buf') /\ All(wire)' = All(wire') /\ Apart(buf)' = Apart(buf') /\ Apart(wire)' = Apart(wire')
    BY DEF All, Apart
  <2>6. PlaceInv'
    BY <2>1, <2>4, <2>5 DEF PlaceInv
  <2>7. Everywhere' = Everywhere \cup batch
    BY <2>1, <2>4, <2>5 DEF Everywhere
  <2>8. \A s \in Everywhere' : s.at < now \/ s.at = now
    BY <2>1, <2>7 DEF FreshInv
  <2>9. FreshInv'
    BY <2>1, <2>2, <2>8 DEF FreshInv
  <2> QED
    BY <2>6, <2>9
<1>4. CASE Tick
  <2>1. UNCHANGED <<buf, wire, rows, expired, lost>> /\ now' = now + 1
    BY <1>4 DEF Tick, link, history
  <2>2. PlaceInv' /\ Everywhere' = Everywhere
    BY <2>1 DEF PlaceInv, Everywhere, Held, Stored, All, Apart
  <2>3. \A s \in Everywhere : s.at < now'
    BY <1>1, <2>1 DEF FreshInv
  <2> QED
    BY <2>2, <2>3 DEF FreshInv
<1>5. CASE Break \/ AgentCrash
  <2>1. /\ UNCHANGED <<now, rows, expired>> /\ wire' = <<>>
        /\ \/ buf' = buf /\ lost' = lost \cup All(wire)
           \/ buf' = <<>> /\ lost' = lost \cup All(buf) \cup All(wire)
    BY <1>5 DEF Break, AgentCrash
  <2>2. sampled' = sampled
    BY <1>5 DEF Break, AgentCrash
  <2>3. /\ Held' = Held /\ Apart(wire)' /\ All(wire)' = {}
        /\ \/ Apart(buf)' = Apart(buf) /\ All(buf)' = All(buf) /\ lost' = lost \cup All(wire)
           \/ Apart(buf)' /\ All(buf)' = {} /\ lost' = lost \cup All(buf) \cup All(wire)
    <3>1. Held' = Held
      BY <2>1 DEF Held, Stored
    <3>2. Apart(wire)' /\ All(wire)' = {}
      BY <2>1, AllOfNone DEF Apart, All
    <3>3. CASE buf' = buf /\ lost' = lost \cup All(wire)
      BY <3>1, <3>2, <3>3 DEF Apart, All
    <3>4. CASE buf' = <<>> /\ lost' = lost \cup All(buf) \cup All(wire)
      <4>1. Apart(buf)' /\ All(buf)' = {}
        BY <3>4, AllOfNone DEF Apart, All
      <4> QED
        BY <3>1, <3>2, <3>4, <4>1
    <3> QED
      BY <2>1, <3>3, <3>4
  <2>4. Everywhere' \subseteq Everywhere
    BY <2>3 DEF Everywhere
  <2>5. PlaceInv'
    BY <2>3 DEF PlaceInv
  <2> QED
    BY <1>2, <2>1, <2>2, <2>4, <2>5
<1>6. CASE Ingest
  <2> DEFINE frame == Head(wire)
  <2>1. /\ wire # <<>> /\ wire' = Tail(wire) /\ buf' = buf /\ now' = now /\ expired' = expired
        /\ (rows' = rows \cup Ingested(frame) /\ lost' = lost) \/ (lost' = lost \cup frame /\ rows' = rows)
    BY <1>6 DEF Ingest, Ingested
  <2>2. sampled' = sampled
    BY <1>6 DEF Ingest
  <2>3. /\ All(wire) = frame \cup All(Tail(wire))
        /\ Apart(wire) => Apart(Tail(wire)) /\ frame \cap All(Tail(wire)) = {}
    BY <1>1, <2>1, FirstOff
  <2>4. /\ All(wire)' = All(Tail(wire)) /\ Apart(wire)' = Apart(Tail(wire))
        /\ All(buf)' = All(buf) /\ Apart(buf)' = Apart(buf)
    BY <2>1 DEF All, Apart
  <2> HIDE DEF frame
  <2>5. (Held' = Held \cup frame /\ lost' = lost) \/ (Held' = Held /\ lost' = lost \cup frame)
    <3>1. CASE rows' = rows \cup Ingested(frame) /\ lost' = lost
      BY <2>1, <3>1, IngestHeld
    <3>2. CASE lost' = lost \cup frame /\ rows' = rows
      BY <2>1, <3>2 DEF Held, Stored
    <3> QED
      BY <2>1, <3>1, <3>2
  <2>6. Everywhere' \subseteq Everywhere
    BY <2>3, <2>4, <2>5 DEF Everywhere
  <2>7. PlaceInv'
    BY <2>3, <2>4, <2>5 DEF PlaceInv
  <2> QED
    BY <1>2, <2>1, <2>2, <2>6, <2>7
<1>7. CASE Roll \/ Expire
  <2>1. UNCHANGED <<now, buf, wire, lost>>
    BY <1>7 DEF Roll, Expire, link
  <2>2. sampled' = sampled
    BY <1>7 DEF Roll, Expire
  <2>3. Held' \subseteq Held
    BY <1>7, RollHeld, ExpireHeld
  <2>4. PlaceInv' /\ Everywhere' \subseteq Everywhere
    BY <2>1, <2>3 DEF PlaceInv, Everywhere, All, Apart
  <2> QED
    BY <1>2, <2>1, <2>2, <2>4
<1>8. CASE Connect \/ NoticeLoss \/ StartPass \/ UNCHANGED vars
  <2>1. UNCHANGED <<now, buf, wire, rows, lost, expired>>
    BY <1>8 DEF Connect, NoticeLoss, StartPass, vars, link, history
  <2>2. sampled' = sampled
    BY <1>8 DEF Connect, NoticeLoss, StartPass, vars
  <2>3. PlaceInv' /\ Everywhere' = Everywhere
    BY <2>1 DEF PlaceInv, Everywhere, Held, Stored, All, Apart
  <2> QED
    BY <1>2, <2>1, <2>2, <2>3
<1> QED
  BY <1>3, <1>4, <1>5, <1>6, <1>7, <1>8 DEF Next

\* A sample is buffered, under way, on the hub, or given up, and never two of
\* these: a flush of the backlog sends nothing twice (sendMetrics, ingestMetrics).
THEOREM OnePlaceTheorem == Spec => []SampleInOnePlace
<1> DEFINE Inv == TypeInv /\ FreshInv /\ PlaceInv
<1>1. Init => Inv
  <2>1. ASSUME Init PROVE FreshInv /\ PlaceInv
    <3>1. buf = <<>> /\ wire = <<>> /\ rows = {} /\ expired = {} /\ lost = {}
      BY <2>1 DEF Init
    <3>2. All(buf) = {} /\ All(wire) = {} /\ Apart(buf) /\ Apart(wire)
      BY <3>1, AllOfNone
    <3>3. Held = {}
      BY <3>1 DEF Held, Stored
    <3>4. Everywhere = {}
      BY <3>1, <3>2, <3>3 DEF Everywhere
    <3> QED
      BY <3>1, <3>2, <3>3, <3>4 DEF FreshInv, PlaceInv
  <2> QED
    BY <2>1, TypeInit
<1>2. Inv /\ [Next]_vars => Inv'
  BY TypeStep, PlaceStep
<1>3. Spec => []Inv
  BY <1>1, <1>2, PTL DEF Spec
<1>4. Inv => SampleInOnePlace
  BY OnePlace
<1> QED
  BY <1>3, <1>4, PTL
=============================================================================
