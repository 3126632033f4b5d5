----------------------------- MODULE StreamProofs ---------------------------
(***************************************************************************)
(* Theorems about the two components that read text in pieces: what is     *)
(* metered of a proxied response (ProxyUsage), and what a viewer sees of a *)
(* log (LogStream).                                                        *)
(*                                                                         *)
(* Both compute over their data with folds.  Induction over natural        *)
(* numbers is stated with sets here, and what a fold computes with the     *)
(* function of its intermediate results.                                   *)
(***************************************************************************)
EXTENDS ProxyUsage, FiniteSetTheorems, SequenceTheorems, WellFoundedInduction, TLAPS

-----------------------------------------------------------------------------
(* Induction and folds.                                                    *)

\* A nonempty set of natural numbers has a least element.
LEMMA Least ==
  ASSUME NEW T, T \subseteq Nat, T # {}
  PROVE  \E x \in T : \A y \in T : x <= y
<1>1. PICK x \in T : \A y \in T : ~(<<y, x>> \in OpToRel(<, Nat))
  BY NatLessThanWellFounded, WFMin, Zenon
<1>2. \A y \in T : ~(y < x)
  BY <1>1 DEF OpToRel
<1> QED BY <1>2

\* Induction up to n.
LEMMA Induct ==
  ASSUME NEW n \in Nat, NEW T, 0 \in T, \A i \in 0..(n - 1) : i \in T => i + 1 \in T
  PROVE  \A i \in 0..n : i \in T
<1> DEFINE D == {i \in 0..n : i \notin T}
<1> SUFFICES ASSUME D # {} PROVE FALSE
  OBVIOUS
<1>1. PICK x \in D : \A y \in D : x <= y
  <2> HIDE DEF D
  <2>1. D \subseteq Nat
    BY DEF D
  <2> QED BY <2>1, Least
<1>2. x \in 1..n /\ x - 1 \notin D /\ x - 1 \in 0..(n - 1)
  BY <1>1
<1> QED BY <1>2

\* pick names an element of each nonempty subset; F folds g in its order.
Picks(pick, S) == \A s \in SUBSET S : s # {} => pick[s] \in s
Folds(F, S, pick, base, g) ==
  \A s \in SUBSET S : F[s] = IF s = {} THEN base ELSE g[<<F[s \ {pick[s]}], pick[s]>>]

\* G obeys the equation wherever that leads from a value of A.
FoldsWithin(G, S, pick, A, base, g) ==
  /\ G[{}] = base
  /\ \A s \in SUBSET S :
       s # {} /\ G[s \ {pick[s]}] \in A => G[s] = g[<<G[s \ {pick[s]}], pick[s]>>]

\* F is the fold, and whatever obeys its equation agrees with it on S.
IsFold(F, S, pick, A, base, g) ==
  /\ F \in [SUBSET S -> A] /\ Folds(F, S, pick, base, g)
  /\ \A G : FoldsWithin(G, S, pick, A, base, g) => G[S] = F[S]

\* There is a function that folds g over every subset of a finite set, taking
\* elements in the order of pick.
LEMMA FoldExists ==
  ASSUME NEW S, IsFiniteSet(S), NEW pick, Picks(pick, S),
         NEW A, NEW base \in A, NEW g \in [A \X S -> A]
  PROVE  \E F \in [SUBSET S -> A] : Folds(F, S, pick, base, g)
<1> DEFINE D(n) == {s \in SUBSET S : Cardinality(s) <= n}
           Is(F, n) == \A s \in D(n) : F[s] = IF s = {} THEN base ELSE g[<<F[s \ {pick[s]}], pick[s]>>]
           T == {n \in Nat : \E F \in [D(n) -> A] : Is(F, n)}
<1>0. \A s \in SUBSET S : IsFiniteSet(s) /\ Cardinality(s) \in Nat /\ (Cardinality(s) = 0 <=> s = {})
                          /\ Cardinality(s) <= Cardinality(S)
  BY FS_Subset, FS_CardinalityType, FS_EmptySet
<1>r. \A s \in SUBSET S : s # {} => /\ pick[s] \in S /\ s \ {pick[s]} \in SUBSET S
                                    /\ Cardinality(s \ {pick[s]}) = Cardinality(s) - 1
  BY <1>0, FS_RemoveElement DEF Picks
<1>1. 0 \in T
  <2> DEFINE F == [s \in D(0) |-> base]
  <2>1. \A s \in D(0) : s = {}
    BY <1>0
  <2>2. F \in [D(0) -> A] /\ Is(F, 0)
    BY <2>1
  <2> QED BY <2>2
<1>2. ASSUME NEW n \in Nat, n \in T PROVE n + 1 \in T
  <2>1. PICK F \in [D(n) -> A] : Is(F, n)
    BY <1>2
  <2> DEFINE G == [s \in D(n + 1) |->
                     IF s \in D(n) THEN F[s] ELSE g[<<F[s \ {pick[s]}], pick[s]>>]]
  <2>2. \A s \in D(n + 1) : s # {} => pick[s] \in S /\ s \ {pick[s]} \in D(n)
    BY <1>0, <1>r
  <2>3. \A s \in D(n + 1) : s \notin D(n) => s # {}
    BY <1>0
  <2>4. G \in [D(n + 1) -> A]
    <3> SUFFICES ASSUME NEW s \in D(n + 1) PROVE G[s] \in A
      OBVIOUS
    <3>1. CASE s \in D(n)
      BY <3>1
    <3>2. CASE s \notin D(n)
      <4>1. F[s \ {pick[s]}] \in A /\ pick[s] \in S
        BY <3>2, <2>2, <2>3
      <4> QED BY <4>1, <3>2
    <3> QED BY <3>1, <3>2
  <2>5. Is(G, n + 1)
    <3> SUFFICES ASSUME NEW s \in D(n + 1)
                 PROVE  G[s] = IF s = {} THEN base ELSE g[<<G[s \ {pick[s]}], pick[s]>>]
      OBVIOUS
    <3>1. s # {} => G[s \ {pick[s]}] = F[s \ {pick[s]}]
      <4> SUFFICES ASSUME s # {} PROVE G[s \ {pick[s]}] = F[s \ {pick[s]}]
        OBVIOUS
      <4>1. s \ {pick[s]} \in D(n) /\ s \ {pick[s]} \in D(n + 1)
        BY <2>2, <1>0
      <4> QED BY <4>1
    <3>2. s \in D(n) => F[s] = IF s = {} THEN base ELSE g[<<F[s \ {pick[s]}], pick[s]>>]
      BY <2>1
    <3>3. G[s] = IF s \in D(n) THEN F[s] ELSE g[<<F[s \ {pick[s]}], pick[s]>>]
      OBVIOUS
    <3> HIDE DEF G, D
    <3> QED BY <3>1, <3>2, <3>3, <2>3
  <2>6. \E H \in [D(n + 1) -> A] : Is(H, n + 1)
    <3> HIDE DEF G, Is, D
    <3> QED BY <2>4, <2>5
  <2> HIDE DEF Is, D
  <2> QED BY <2>6
<1>3. Cardinality(S) \in T
  <2> HIDE DEF T
  <2>1. Cardinality(S) \in Nat
    BY <1>0
  <2> QED BY <1>1, <1>2, <2>1, Induct
<1>4. PICK F \in [D(Cardinality(S)) -> A] : Is(F, Cardinality(S))
  BY <1>3
<1>5. D(Cardinality(S)) = SUBSET S
  BY <1>0
<1> HIDE DEF D
<1> QED BY <1>4, <1>5 DEF Folds

\* Whatever satisfies the equation of a fold where it is defined agrees with it.
LEMMA FoldUnique ==
  ASSUME NEW S, IsFiniteSet(S), NEW pick, Picks(pick, S),
         NEW A, NEW base \in A, NEW g,
         NEW F \in [SUBSET S -> A], Folds(F, S, pick, base, g),
         NEW G, FoldsWithin(G, S, pick, A, base, g)
  PROVE  G[S] = F[S]
<1> DEFINE T == {n \in Nat : \A s \in SUBSET S : Cardinality(s) = n => G[s] = F[s]}
<1>0. \A s \in SUBSET S : IsFiniteSet(s) /\ Cardinality(s) \in Nat /\ (Cardinality(s) = 0 <=> s = {})
                          /\ Cardinality(s) <= Cardinality(S)
  BY FS_Subset, FS_CardinalityType, FS_EmptySet
<1>r. \A s \in SUBSET S : s # {} => /\ pick[s] \in s /\ s \ {pick[s]} \in SUBSET S
                                    /\ Cardinality(s \ {pick[s]}) = Cardinality(s) - 1
  BY <1>0, FS_RemoveElement DEF Picks
<1>1. 0 \in T
  BY <1>0 DEF Folds, FoldsWithin
<1>2. ASSUME NEW n \in Nat, n \in T PROVE n + 1 \in T
  <2> SUFFICES ASSUME NEW s \in SUBSET S, Cardinality(s) = n + 1 PROVE G[s] = F[s]
    OBVIOUS
  <2>1. s # {}
    BY <1>0
  <2>2. s \ {pick[s]} \in SUBSET S /\ Cardinality(s \ {pick[s]}) = n
    BY <2>1, <1>r
  <2>3. G[s \ {pick[s]}] = F[s \ {pick[s]}]
    BY <2>2, <1>2
  <2>4. F[s \ {pick[s]}] \in A
    BY <2>2
  <2> QED BY <2>1, <2>3, <2>4 DEF Folds, FoldsWithin
<1>3. Cardinality(S) \in Nat
  BY <1>0
<1>4. \A n \in 0..Cardinality(S) : n \in T
  <2> HIDE DEF T
  <2> QED BY <1>1, <1>2, <1>3, Induct
<1> QED BY <1>4, <1>0

LEMMA FoldIsUnique ==
  ASSUME NEW S, IsFiniteSet(S), NEW pick, Picks(pick, S),
         NEW A, NEW base \in A, NEW g \in [A \X S -> A]
  PROVE  \E F : IsFold(F, S, pick, A, base, g)
<1>1. PICK F \in [SUBSET S -> A] : Folds(F, S, pick, base, g)
  BY FoldExists
<1>2. ASSUME NEW G, FoldsWithin(G, S, pick, A, base, g) PROVE G[S] = F[S]
  BY <1>1, <1>2, FoldUnique
<1> QED BY <1>1, <1>2 DEF IsFold

\* A nonempty set of indices has a greatest element.
LEMMA Greatest ==
  ASSUME NEW n \in Nat, NEW s \in SUBSET (1..n), s # {}
  PROVE  Max(s) \in s /\ \A y \in s : Max(s) >= y
<1> DEFINE T == {n - y : y \in s}
<1>1. T \subseteq Nat /\ T # {}
  <2>1. \A y \in s : n - y \in Nat
    OBVIOUS
  <2>2. PICK y \in s : TRUE
    OBVIOUS
  <2>3. n - y \in T
    BY <2>2
  <2> QED BY <2>1, <2>3
<1>2. PICK x \in T : \A y \in T : x <= y
  <2> HIDE DEF T
  <2> QED BY <1>1, Least
<1>3. PICK m \in s : x = n - m
  BY <1>2
<1>4. \A y \in s : n - m <= n - y
  BY <1>2, <1>3
<1>5. \A y \in s : m >= y
  BY <1>4
<1> QED BY <1>5 DEF Max

LEMMA GreatestOfPrefix ==
  ASSUME NEW n \in Nat, NEW i \in 1..n
  PROVE  1..i \in SUBSET (1..n) /\ 1..i # {} /\ Max(1..i) = i /\ (1..i) \ {i} = 1..(i - 1)
<1>1. 1..i \in SUBSET (1..n) /\ (1..i) \ {i} = 1..(i - 1) /\ i \in 1..i
  OBVIOUS
<1>2. Max(1..i) \in 1..i /\ Max(1..i) >= i
  BY <1>1, Greatest
<1> QED BY <1>1, <1>2

\* st are the intermediate results of folding g over the n elements of t.
Runs(st, n, t, A, base, g) ==
  st \in [0..n -> A] /\ st[0] = base /\ \A i \in 1..n : st[i] = g[<<st[i - 1], t[i]>>]

\* F is what FoldLeft defines, and its values on prefixes are st.
IsFoldLeft(F, st, n, t, A, base, g) ==
  /\ F \in [SUBSET (1..n) -> A]
  /\ \A s \in SUBSET (1..n) :
       F[s] = IF s = {} THEN base ELSE g[<<F[s \ {Max(s)}], t[Max(s)]>>]
  /\ Runs(st, n, t, A, base, g)
  /\ \A G : /\ G[{}] = base
            /\ \A s \in SUBSET (1..n) : s # {} /\ G[s \ {Max(s)}] \in A
                 => G[s] = g[<<G[s \ {Max(s)}], t[Max(s)]>>]
            => G[1..n] = st[n]

\* A sequence is folded from its first element to its last, and what is known
\* of the equation of FoldLeft settles its value.
LEMMA FoldLeftStates ==
  ASSUME NEW n \in Nat, NEW B, NEW t, \A i \in 1..n : t[i] \in B,
         NEW A, NEW base \in A, NEW g \in [A \X B -> A]
  PROVE  \E F, st : IsFoldLeft(F, st, n, t, A, base, g)
<1> DEFINE S == 1..n
           pick == [s \in SUBSET S |-> Max(s)]
           h == [p \in A \X S |-> g[<<p[1], t[p[2]]>>]]
<1>0. IsFiniteSet(S)
  BY FS_Interval
<1>1. \A s \in SUBSET S : s # {} => Max(s) \in s
  BY Greatest
<1>p. \A s \in SUBSET S : pick[s] = Max(s)
  OBVIOUS
<1>2. Picks(pick, S)
  BY <1>1 DEF Picks
<1>3. h \in [A \X S -> A]
  OBVIOUS
<1>i. PICK F : IsFold(F, S, pick, A, base, h)
  <2> HIDE DEF pick, h, S
  <2> QED BY <1>0, <1>2, <1>3, FoldIsUnique
<1>f. /\ F \in [SUBSET S -> A] /\ Folds(F, S, pick, base, h)
      /\ \A G : FoldsWithin(G, S, pick, A, base, h) => G[S] = F[S]
  BY <1>i DEF IsFold
<1>4. \A s \in SUBSET S : F[s] = IF s = {} THEN base ELSE h[<<F[s \ {pick[s]}], pick[s]>>]
  BY <1>f DEF Folds
<1> DEFINE st == [i \in 0..n |-> F[1..i]]
<1>h. \A a \in A, i \in S : h[<<a, i>>] = g[<<a, t[i]>>]
  OBVIOUS
<1>5. \A s \in SUBSET S : F[s] = IF s = {} THEN base ELSE g[<<F[s \ {Max(s)}], t[Max(s)]>>]
  <2> SUFFICES ASSUME NEW s \in SUBSET S
               PROVE  F[s] = IF s = {} THEN base ELSE g[<<F[s \ {Max(s)}], t[Max(s)]>>]
    OBVIOUS
  <2>1. s # {} => Max(s) \in S /\ F[s \ {Max(s)}] \in A
    BY <1>1, <1>f
  <2> HIDE DEF h, pick, S
  <2>2. CASE s = {}
    BY <2>2, <1>4
  <2>3. CASE s # {}
    <3>1. F[s] = h[<<F[s \ {Max(s)}], Max(s)>>]
      BY <2>3, <1>4, <1>p
    <3>2. h[<<F[s \ {Max(s)}], Max(s)>>] = g[<<F[s \ {Max(s)}], t[Max(s)]>>]
      BY <2>1, <2>3, <1>h, Zenon
    <3> QED BY <3>1, <3>2, <2>3
  <2> QED BY <2>2, <2>3
<1>7. st \in [0..n -> A] /\ st[0] = base /\ \A i \in 1..n : st[i] = g[<<st[i - 1], t[i]>>]
  <2>1. \A i \in 0..n : 1..i \in SUBSET S
    OBVIOUS
  <2>2. 1..0 = {} /\ {} \in SUBSET S /\ 0 \in 0..n
    OBVIOUS
  <2>3. st[0] = base
    <3>1. F[{}] = base
      BY <1>5, <2>2
    <3> QED BY <3>1, <2>2
  <2>4. ASSUME NEW i \in 1..n PROVE st[i] = g[<<st[i - 1], t[i]>>]
    <3>0. 1..i \in SUBSET S /\ 1..i # {} /\ Max(1..i) = i /\ (1..i) \ {i} = 1..(i - 1)
      BY GreatestOfPrefix
    <3>1. F[1..i] = g[<<F[1..(i - 1)], t[i]>>]
      BY <1>5, <3>0
    <3>2. i \in 0..n /\ i - 1 \in 0..n
      OBVIOUS
    <3> QED BY <3>1, <3>2
  <2> QED BY <1>f, <2>1, <2>3, <2>4
<1>8. ASSUME NEW G, G[{}] = base,
             \A s \in SUBSET S : s # {} /\ G[s \ {Max(s)}] \in A
                => G[s] = g[<<G[s \ {Max(s)}], t[Max(s)]>>]
      PROVE  G[1..n] = st[n]
  <2>1. \A s \in SUBSET S : s # {} /\ G[s \ {pick[s]}] \in A
          => G[s] = h[<<G[s \ {pick[s]}], pick[s]>>]
    <3> SUFFICES ASSUME NEW s \in SUBSET S, s # {}, G[s \ {pick[s]}] \in A
                 PROVE  G[s] = h[<<G[s \ {pick[s]}], pick[s]>>]
      OBVIOUS
    <3>1. pick[s] = Max(s) /\ Max(s) \in S
      BY <1>1
    <3> HIDE DEF h, pick, S
    <3>2. G[s \ {Max(s)}] \in A
      BY <3>1
    <3>3. G[s] = g[<<G[s \ {Max(s)}], t[Max(s)]>>]
      BY <3>2, <1>8
    <3>4. h[<<G[s \ {Max(s)}], Max(s)>>] = g[<<G[s \ {Max(s)}], t[Max(s)]>>]
      BY <3>1, <3>2, <1>h, Zenon
    <3> QED BY <3>1, <3>3, <3>4
  <2>f. FoldsWithin(G, S, pick, A, base, h)
    <3> HIDE DEF h, pick, S
    <3> QED BY <2>1, <1>8 DEF FoldsWithin
  <2>2. G[S] = F[S]
    <3> HIDE DEF h, pick, S
    <3> QED BY <2>f, <1>f
  <2>3. n \in 0..n /\ 1..n \in SUBSET S
    OBVIOUS
  <2> QED BY <2>2, <2>3
<1>9. F \in [SUBSET (1..n) -> A]
  BY <1>f
<1> HIDE DEF st
<1>10. Runs(st, n, t, A, base, g)
  BY <1>7 DEF Runs
<1>11. IsFoldLeft(F, st, n, t, A, base, g)
  BY <1>5, <1>8, <1>9, <1>10 DEF IsFoldLeft
<1> QED BY <1>11

\* Two sequences of intermediate results that go the same way agree.
LEMMA StatesAgree ==
  ASSUME NEW n \in Nat, NEW a, NEW b, a[0] = b[0],
         \A i \in 1..n : a[i - 1] = b[i - 1] => a[i] = b[i]
  PROVE  a[n] = b[n]
<1> DEFINE T == {i \in 0..n : a[i] = b[i]}
<1>1. 0 \in T /\ \A i \in 0..(n - 1) : i \in T => i + 1 \in T
  OBVIOUS
<1>2. \A i \in 0..n : i \in T
  <2> HIDE DEF T
  <2> QED BY <1>1, Induct
<1> QED BY <1>2

\* Split takes one piece after another (Extend).
TextType == [lines : Seq(Seq(Int)), rest : Seq(Int)]

LEMMA ExtendType ==
  ASSUME NEW text \in TextType, NEW p \in Int
  PROVE  Extend(text, p) \in TextType
<1>1. Append(text.rest, p) \in Seq(Int)
  BY AppendProperties DEF TextType
<1>2. Append(text.lines, Append(text.rest, p)) \in Seq(Seq(Int))
  BY <1>1, AppendProperties DEF TextType
<1>3. <<>> \in Seq(Int)
  OBVIOUS
<1> QED BY <1>1, <1>2, <1>3 DEF Extend, TextType

Text(lines, rest) == [lines |-> lines, rest |-> rest]

LEMMA ExtendIs ==
  ASSUME NEW lines, NEW rest, NEW p
  PROVE  /\ p % 2 = 0 => Extend(Text(lines, rest), p) = Text(Append(lines, Append(rest, p)), <<>>)
         /\ p % 2 # 0 => Extend(Text(lines, rest), p) = Text(lines, Append(rest, p))
<1> DEFINE text == [lines |-> lines, rest |-> rest]
<1>1. text.rest = rest /\ text.lines = lines
  OBVIOUS
<1>2. \A line : [text EXCEPT !.rest = line] = [lines |-> lines, rest |-> line]
  OBVIOUS
<1>3. Extend(text, p) = IF p % 2 = 0 THEN [lines |-> Append(text.lines, Append(text.rest, p)), rest |-> <<>>]
                        ELSE [text EXCEPT !.rest = Append(text.rest, p)]
  BY DEF Extend
<1> HIDE DEF text
<1>4. Extend(text, p) = IF p % 2 = 0 THEN [lines |-> Append(lines, Append(rest, p)), rest |-> <<>>]
                        ELSE [lines |-> lines, rest |-> Append(rest, p)]
  BY <1>1, <1>2, <1>3
<1> QED BY <1>4 DEF text, Text

SplitRuns(st, t) ==
  /\ st \in [0..Len(t) -> TextType] /\ st[0] = NoText
  /\ \A i \in 1..Len(t) : st[i] = Extend(st[i - 1], t[i])
  /\ Split(t) = st[Len(t)]

LEMMA SplitStates ==
  ASSUME NEW t \in Seq(Int)
  PROVE  \E st : SplitRuns(st, t)
<1> DEFINE n == Len(t)
           g == [p \in TextType \X Int |-> Extend(p[1], p[2])]
           Eq(G) == G = [s \in SUBSET (DOMAIN t) |->
                           IF s = {} THEN NoText ELSE LET x == Max(s) IN Extend(G[s \ {x}], t[x])]
           iter == CHOOSE G : Eq(G)
<1>0. n \in Nat /\ DOMAIN t = 1..n /\ \A i \in 1..n : t[i] \in Int
  BY LenProperties, ElementOfSeq
<1>1. g \in [TextType \X Int -> TextType]
  BY ExtendType
<1>2. NoText \in TextType
  BY DEF NoText, TextType
<1>g. \A a \in TextType, b \in Int : g[<<a, b>>] = Extend(a, b)
  OBVIOUS
<1>3. PICK F, st : IsFoldLeft(F, st, n, t, TextType, NoText, g)
  <2> HIDE DEF g, n
  <2> QED BY <1>0, <1>1, <1>2, FoldLeftStates
<1>4. Eq(F)
  <2>1. \A s \in SUBSET (1..n) : s # {} => F[s \ {Max(s)}] \in TextType /\ t[Max(s)] \in Int
    BY <1>0, <1>3, Greatest DEF IsFoldLeft
  <2>2. F = [s \in SUBSET (1..n) |-> IF s = {} THEN NoText ELSE g[<<F[s \ {Max(s)}], t[Max(s)]>>]]
    <3> HIDE DEF g, n
    <3> QED BY <1>3 DEF IsFoldLeft
  <2> HIDE DEF g, n
  <2> QED BY <1>0, <1>g, <2>1, <2>2
<1>5. Eq(iter)
  <2> HIDE DEF Eq
  <2> QED BY <1>4
<1>6. Split(t) = iter[DOMAIN t]
  BY Zenon DEF Split, FoldLeft, MapThenFoldSet
<1>7. iter[1..n] = st[n]
  <2> HIDE DEF iter, g, n
  <2>1. iter = [s \in SUBSET (1..n) |->
                  IF s = {} THEN NoText ELSE Extend(iter[s \ {Max(s)}], t[Max(s)])]
    BY <1>5, <1>0
  <2> HIDE DEF Eq
  <2>2. iter[{}] = NoText
    BY <2>1
  <2>3. ASSUME NEW s \in SUBSET (1..n), s # {}, iter[s \ {Max(s)}] \in TextType
        PROVE  iter[s] = g[<<iter[s \ {Max(s)}], t[Max(s)]>>]
    <3>1. t[Max(s)] \in Int
      BY <1>0, <2>3, Greatest
    <3>2. iter[s] = Extend(iter[s \ {Max(s)}], t[Max(s)])
      BY <2>1, <2>3
    <3> QED BY <3>1, <3>2, <2>3, <1>g
  <2> QED BY <2>2, <2>3, <1>3 DEF IsFoldLeft
<1>8. Runs(st, n, t, TextType, NoText, g)
  BY <1>3 DEF IsFoldLeft
<1>9. \A i \in 1..n : st[i] = Extend(st[i - 1], t[i])
  <2> SUFFICES ASSUME NEW i \in 1..n PROVE st[i] = Extend(st[i - 1], t[i])
    OBVIOUS
  <2> HIDE DEF g, n
  <2>1. i - 1 \in 0..n
    BY <1>0
  <2>2. st[i - 1] \in TextType /\ t[i] \in Int
    BY <2>1, <1>8, <1>0 DEF Runs
  <2> QED BY <2>2, <1>8, <1>g DEF Runs
<1>10. Split(t) = st[n]
  <2> HIDE DEF iter, n
  <2> QED BY <1>0, <1>6, <1>7
<1>11. st \in [0..n -> TextType] /\ st[0] = NoText
  <2> HIDE DEF n, g
  <2> QED BY <1>8 DEF Runs
<1> HIDE DEF g
<1> QED BY <1>9, <1>10, <1>11 DEF SplitRuns

-----------------------------------------------------------------------------
(* What is metered of a response.                                          *)

LEMMA AppendOne ==
  ASSUME NEW a \in Int, NEW b \in Int
  PROVE  Append(<<a>>, b) = <<a, b>>
<1>1. <<a>> \in Seq(Int) /\ <<a, b>> \in Seq(Int) /\ Len(<<a>>) = 1 /\ Len(<<a, b>>) = 2
  OBVIOUS
<1>2. /\ Append(<<a>>, b) \in Seq(Int) /\ Len(Append(<<a>>, b)) = 2
      /\ Append(<<a>>, b)[1] = a /\ Append(<<a>>, b)[2] = b
  BY <1>1, AppendProperties
<1>3. \A j \in 1..2 : Append(<<a>>, b)[j] = <<a, b>>[j]
  BY <1>2
<1> QED BY <1>1, <1>2, <1>3, SeqEqual

Rest(n) == IF n % 2 = 1 THEN <<n>> ELSE <<>>
Pairs(k, m) == [j \in 1..m |-> <<2 * (k + j) - 1, 2 * (k + j)>>]

LEMMA OddStep ==
  ASSUME NEW k \in Nat, NEW i \in Nat \ {0}, i % 2 = 1
  PROVE  (2 * k + i) % 2 = 1 /\ (2 * k + (i - 1)) % 2 = 0 /\ (i - 1) \div 2 = i \div 2
OBVIOUS

LEMMA EvenStep ==
  ASSUME NEW k \in Nat, NEW i \in Nat \ {0}, i % 2 = 0
  PROVE  /\ i = 2 * (i \div 2) /\ (2 * k + i) % 2 = 0 /\ (2 * k + (i - 1)) % 2 = 1
         /\ (i - 1) \div 2 = (i \div 2) - 1 /\ i \div 2 \in Nat \ {0}
OBVIOUS

\* From its h-th piece, a text is the pieces after the 2k-th, to the n-th.
RunFrom(t, h, k, n) ==
  /\ t \in Seq(Int) /\ h \in Nat /\ k \in Nat /\ n \in Nat /\ n >= 2 * k
  /\ Len(t) = h + (n - 2 * k) /\ \A i \in 1..(n - 2 * k) : t[h + i] = 2 * k + i

\* After h pieces the lines are L, and nothing is left over.
EndsAt(st, h, L) == L \in Seq(Seq(Int)) /\ st[h] = Text(L, <<>>)

\* From where a line has ended, pieces in a row are split into pairs.
LEMMA SplitFrom ==
  ASSUME NEW k, NEW n, NEW h, NEW t, RunFrom(t, h, k, n), NEW st, SplitRuns(st, t), NEW L, EndsAt(st, h, L)
  PROVE  Split(t) = Text(L \o Pairs(k, (n - 2 * k) \div 2), Rest(n))
<1> DEFINE a == [i \in 0..(n - 2 * k) |-> st[h + i]]
           s == [i \in 0..(n - 2 * k) |-> Text(L \o Pairs(k, i \div 2), Rest(2 * k + i))]
<1>a. /\ t \in Seq(Int) /\ h \in Nat /\ k \in Nat /\ n \in Nat /\ n >= 2 * k
      /\ Len(t) = h + (n - 2 * k) /\ (\A i \in 1..(n - 2 * k) : t[h + i] = 2 * k + i)
      /\ L \in Seq(Seq(Int)) /\ st[h] = Text(L, <<>>)
  BY DEF RunFrom, EndsAt
<1> USE <1>a
<1>0. n - 2 * k \in Nat
  OBVIOUS
<1>2. a[0] = s[0]
  <2>1. s[0] = Text(L \o Pairs(k, 0), Rest(2 * k))
    OBVIOUS
  <2>2. Pairs(k, 0) = <<>> /\ Rest(2 * k) = <<>>
    BY DEF Pairs, Rest
  <2>3. L \o <<>> = L
    BY ConcatEmptySeq
  <2>4. a[0] = st[h]
    OBVIOUS
  <2> QED BY <2>1, <2>2, <2>3, <2>4
<1>i. \A i \in 1..(n - 2 * k) : i \in Nat \ {0}
  OBVIOUS
<1>3. ASSUME NEW i \in 1..(n - 2 * k), a[i - 1] = s[i - 1] PROVE a[i] = s[i]
  <2>1. a[i] = Extend(s[i - 1], 2 * k + i)
    <3>1. h + i \in 1..Len(t) /\ (h + i) - 1 = h + (i - 1) /\ i - 1 \in 0..(n - 2 * k)
      OBVIOUS
    <3>2. st[h + i] = Extend(st[(h + i) - 1], t[h + i])
      BY <3>1 DEF SplitRuns
    <3>3. a[i] = st[h + i] /\ a[i - 1] = st[h + (i - 1)]
      BY <3>1
    <3> HIDE DEF a, s
    <3> QED BY <3>1, <3>2, <3>3, <1>3
  <2>2. s[i - 1] = Text(L \o Pairs(k, (i - 1) \div 2), Rest(2 * k + (i - 1)))
    OBVIOUS
  <2>3. s[i] = Text(L \o Pairs(k, i \div 2), Rest(2 * k + i))
    OBVIOUS
  <2>5. CASE i % 2 = 1
    <3>1. (2 * k + i) % 2 = 1 /\ (2 * k + (i - 1)) % 2 = 0 /\ (i - 1) \div 2 = i \div 2
      BY <1>i, <2>5, OddStep
    <3>2. Rest(2 * k + (i - 1)) = <<>> /\ Rest(2 * k + i) = <<2 * k + i>>
      BY <3>1 DEF Rest
    <3> HIDE DEF s, a
    <3>3. 2 * k + i \in Nat
      OBVIOUS
    <3>4. Append(<<>>, 2 * k + i) = <<2 * k + i>>
      BY <3>3
    <3>5. a[i] = Extend(Text(L \o Pairs(k, i \div 2), <<>>), 2 * k + i)
      BY <2>1, <2>2, <3>1, <3>2
    <3>6. (2 * k + i) % 2 # 0
      BY <3>1
    <3>7. a[i] = Text(L \o Pairs(k, i \div 2), Append(<<>>, 2 * k + i))
      <4> DEFINE lines == L \o Pairs(k, i \div 2)
                 p == 2 * k + i
      <4>1. a[i] = Extend(Text(lines, <<>>), p) /\ p % 2 # 0
        BY <3>5, <3>6
      <4> HIDE DEF lines, p
      <4>2. a[i] = Text(lines, Append(<<>>, p))
        BY <4>1, ExtendIs
      <4> QED BY <4>2 DEF lines, p
    <3> QED BY <2>3, <3>2, <3>4, <3>7
  <2>6. CASE i % 2 = 0
    <3> DEFINE m == i \div 2
    <3>1. i = 2 * m /\ (2 * k + i) % 2 = 0 /\ (2 * k + (i - 1)) % 2 = 1 /\ (i - 1) \div 2 = m - 1 /\ m \in Nat \ {0}
      BY <1>i, <2>6, EvenStep
    <3>2. Rest(2 * k + (i - 1)) = <<2 * k + (i - 1)>> /\ Rest(2 * k + i) = <<>>
      BY <3>1 DEF Rest
    <3> HIDE DEF m
    <3>3. Append(L \o Pairs(k, m - 1), <<2 * (k + m) - 1, 2 * (k + m)>>) = L \o Pairs(k, m)
      <4>1. Append(Pairs(k, m - 1), <<2 * (k + m) - 1, 2 * (k + m)>>) = Pairs(k, m)
        BY <3>1 DEF Pairs
      <4>2. Pairs(k, m - 1) \in Seq(Seq(Int)) /\ <<2 * (k + m) - 1, 2 * (k + m)>> \in Seq(Int)
        BY <3>1 DEF Pairs
      <4> DEFINE P == Pairs(k, m - 1)
                 x == <<2 * (k + m) - 1, 2 * (k + m)>>
                 S == Seq(Int)
      <4>a. P \in Seq(S) /\ x \in S /\ L \in Seq(S)
        BY <4>2
      <4> HIDE DEF P, x, S
      <4>3. Append(L \o P, x) = L \o Append(P, x)
        <5>1. Append(L \o P, x) \in Seq(S) /\ L \o Append(P, x) \in Seq(S)
          BY <4>a
        <5>2. /\ Len(Append(L \o P, x)) = Len(L) + Len(P) + 1 /\ Len(L \o Append(P, x)) = Len(L) + Len(P) + 1
              /\ \A j \in 1..(Len(L) + Len(P) + 1) : Append(L \o P, x)[j] = (L \o Append(P, x))[j]
          BY <4>a
        <5> QED BY <5>1, <5>2, SeqEqual
      <4> QED BY <4>1, <4>3 DEF P, x
    <3>4. Append(<<2 * k + (i - 1)>>, 2 * k + i) = <<2 * (k + m) - 1, 2 * (k + m)>>
      <4>1. 2 * k + (i - 1) = 2 * (k + m) - 1 /\ 2 * k + i = 2 * (k + m) /\ 2 * (k + m) \in Int
        BY <3>1
      <4> QED BY <4>1, AppendOne
    <3>5. s[i] = Text(L \o Pairs(k, m), Rest(2 * k + i))
      BY <2>3 DEF m
    <3> HIDE DEF s, a
    <3>6. a[i] = Extend(Text(L \o Pairs(k, m - 1), <<2 * k + (i - 1)>>), 2 * k + i)
      BY <2>1, <2>2, <3>1, <3>2
    <3>7. a[i] = Text(Append(L \o Pairs(k, m - 1), Append(<<2 * k + (i - 1)>>, 2 * k + i)), <<>>)
      <4>1. (2 * k + i) % 2 = 0
        BY <3>1
      <4> QED BY <3>6, <4>1, ExtendIs
    <3> QED BY <3>2, <3>3, <3>4, <3>5, <3>7
  <2> QED BY <2>5, <2>6
<1>4. a[n - 2 * k] = s[n - 2 * k]
  <2> HIDE DEF s, a
  <2> QED BY <1>0, <1>2, <1>3, StatesAgree
<1>5. a[n - 2 * k] = st[Len(t)]
  OBVIOUS
<1>6. s[n - 2 * k] = Text(L \o Pairs(k, (n - 2 * k) \div 2), Rest(n))
  BY <1>0
<1> HIDE DEF s, a
<1> QED BY <1>4, <1>5, <1>6 DEF SplitRuns

LEMMA RunSeq ==
  ASSUME NEW k \in Nat, NEW n \in Nat, n >= 2 * k
  PROVE  RunFrom([i \in 1..(n - 2 * k) |-> 2 * k + i], 0, k, n)
<1> DEFINE t == [i \in 1..(n - 2 * k) |-> 2 * k + i]
<1>1. t \in Seq(Int) /\ Len(t) = 0 + (n - 2 * k) /\ \A i \in 1..(n - 2 * k) : t[0 + i] = 2 * k + i
  OBVIOUS
<1> HIDE DEF t
<1>2. RunFrom(t, 0, k, n)
  BY <1>1 DEF RunFrom
<1> QED BY <1>2 DEF t

\* Pieces in a row that begin with a first half are split into pairs.
LEMMA SplitOfRun ==
  ASSUME NEW k, NEW n, NEW t, RunFrom(t, 0, k, n)
  PROVE  /\ Split(t).lines = Pairs(k, (n - 2 * k) \div 2)
         /\ Split(t).rest = Rest(n)
<1> DEFINE m == (n - 2 * k) \div 2
           none == <<>>
<1>0. m \in Nat /\ t \in Seq(Int) /\ k \in Nat
  BY DEF RunFrom
<1> HIDE DEF m
<1>1. PICK st : SplitRuns(st, t)
  BY <1>0, SplitStates
<1>2. EndsAt(st, 0, none)
  BY <1>1 DEF SplitRuns, NoText, Text, EndsAt
<1>3. none \o Pairs(k, m) = Pairs(k, m)
  <2>1. Pairs(k, m) \in Seq(Seq(Int))
    BY <1>0 DEF Pairs
  <2> QED BY <2>1, ConcatEmptySeq
<1> HIDE DEF none
<1>4. Split(t) = Text(none \o Pairs(k, (n - 2 * k) \div 2), Rest(n))
  BY <1>1, <1>2, SplitFrom
<1>5. Split(t) = Text(Pairs(k, m), Rest(n))
  BY <1>3, <1>4 DEF m
<1> QED BY <1>5 DEF Text, m

CountType == [key : BOOLEAN, out : Nat, saw : BOOLEAN]

LEMMA ConsumeType ==
  ASSUME NEW row \in CountType, NEW e \in Events
  PROVE  Consume(row, e) \in CountType
BY DEF Consume, CountType, Events

ConsumeRuns(st, t, base) ==
  /\ st \in [0..Len(t) -> CountType] /\ st[0] = base
  /\ \A i \in 1..Len(t) : st[i] = Consume(st[i - 1], t[i])
  /\ FoldLeft(Consume, base, t) = st[Len(t)]

\* The fold over a response's events has intermediate results.
LEMMA ConsumeStates ==
  ASSUME NEW t \in Seq(Events), NEW base \in CountType
  PROVE  \E st : ConsumeRuns(st, t, base)
<1> DEFINE n == Len(t)
           g == [p \in CountType \X Events |-> Consume(p[1], p[2])]
           Eq(G) == G = [s \in SUBSET (DOMAIN t) |->
                           IF s = {} THEN base ELSE LET x == Max(s) IN Consume(G[s \ {x}], t[x])]
           iter == CHOOSE G : Eq(G)
<1>0. n \in Nat /\ DOMAIN t = 1..n /\ \A i \in 1..n : t[i] \in Events
  BY LenProperties, ElementOfSeq
<1>1. g \in [CountType \X Events -> CountType]
  BY ConsumeType
<1>g. \A a \in CountType, b \in Events : g[<<a, b>>] = Consume(a, b)
  OBVIOUS
<1>3. PICK F, st : IsFoldLeft(F, st, n, t, CountType, base, g)
  <2> HIDE DEF g, n
  <2> QED BY <1>0, <1>1, FoldLeftStates
<1>4. Eq(F)
  <2>1. \A s \in SUBSET (1..n) : s # {} => F[s \ {Max(s)}] \in CountType /\ t[Max(s)] \in Events
    BY <1>0, <1>3, Greatest DEF IsFoldLeft
  <2>2. F = [s \in SUBSET (1..n) |-> IF s = {} THEN base ELSE g[<<F[s \ {Max(s)}], t[Max(s)]>>]]
    <3> HIDE DEF g, n
    <3> QED BY <1>3 DEF IsFoldLeft
  <2> HIDE DEF g, n
  <2> QED BY <1>0, <1>g, <2>1, <2>2
<1>5. Eq(iter)
  <2> HIDE DEF Eq
  <2> QED BY <1>4
<1>6. FoldLeft(Consume, base, t) = iter[DOMAIN t]
  BY Zenon DEF FoldLeft, MapThenFoldSet
<1>7. iter[1..n] = st[n]
  <2> HIDE DEF iter, g, n
  <2>1. iter = [s \in SUBSET (1..n) |->
                  IF s = {} THEN base ELSE Consume(iter[s \ {Max(s)}], t[Max(s)])]
    BY <1>5, <1>0
  <2> HIDE DEF Eq
  <2>2. iter[{}] = base
    BY <2>1
  <2>3. ASSUME NEW s \in SUBSET (1..n), s # {}, iter[s \ {Max(s)}] \in CountType
        PROVE  iter[s] = g[<<iter[s \ {Max(s)}], t[Max(s)]>>]
    <3>1. t[Max(s)] \in Events
      BY <1>0, <2>3, Greatest
    <3>2. iter[s] = Consume(iter[s \ {Max(s)}], t[Max(s)])
      BY <2>1, <2>3
    <3> QED BY <3>1, <3>2, <2>3, <1>g
  <2> QED BY <2>2, <2>3, <1>3 DEF IsFoldLeft
<1>8. Runs(st, n, t, CountType, base, g)
  BY <1>3 DEF IsFoldLeft
<1>9. \A i \in 1..n : st[i] = Consume(st[i - 1], t[i])
  <2> SUFFICES ASSUME NEW i \in 1..n PROVE st[i] = Consume(st[i - 1], t[i])
    OBVIOUS
  <2> HIDE DEF g, n
  <2>1. i - 1 \in 0..n
    BY <1>0
  <2>2. st[i - 1] \in CountType /\ t[i] \in Events
    BY <2>1, <1>8, <1>0 DEF Runs
  <2> QED BY <2>2, <1>8, <1>g DEF Runs
<1>10. FoldLeft(Consume, base, t) = st[n]
  <2> HIDE DEF iter, n
  <2> QED BY <1>0, <1>6, <1>7
<1>11. st \in [0..n -> CountType] /\ st[0] = base
  <2> HIDE DEF n, g
  <2> QED BY <1>8 DEF Runs
<1> HIDE DEF g
<1> QED BY <1>9, <1>10, <1>11 DEF ConsumeRuns

\* The lines that are events of a response, or not parsed.
LineType(r) == {l \in Seq(Int) : Len(l) = 2 => l[2] \div 2 \in DOMAIN Script[r]}

LEMMA ConsumeLineType ==
  ASSUME NEW r \in Requests, NEW row \in CountType, NEW l \in LineType(r)
  PROVE  ConsumeLine(r, row, l) \in CountType
<1>1. \A i \in DOMAIN Script[r] : Script[r][i] \in Events
  BY ResponseAssumption, ElementOfSeq, LenProperties
<1> QED BY <1>1, ConsumeType DEF ConsumeLine, LineType

FoldLines(r, base, t) == FoldLeft(LAMBDA row, line : ConsumeLine(r, row, line), base, t)
LineRuns(st, r, t, base) ==
  /\ st \in [0..Len(t) -> CountType] /\ st[0] = base
  /\ \A i \in 1..Len(t) : st[i] = ConsumeLine(r, st[i - 1], t[i])
  /\ FoldLines(r, base, t) = st[Len(t)]

\* So has the fold over the lines of one read.
LEMMA LineStates ==
  ASSUME NEW r \in Requests, NEW t \in Seq(LineType(r)), NEW base \in CountType
  PROVE  \E st : LineRuns(st, r, t, base)
<1> DEFINE n == Len(t)
           g == [p \in CountType \X LineType(r) |-> ConsumeLine(r, p[1], p[2])]
           Eq(G) == G = [s \in SUBSET (DOMAIN t) |->
                           IF s = {} THEN base ELSE LET x == Max(s) IN ConsumeLine(r, G[s \ {x}], t[x])]
           iter == CHOOSE G : Eq(G)
<1>0. n \in Nat /\ DOMAIN t = 1..n /\ \A i \in 1..n : t[i] \in LineType(r)
  BY LenProperties, ElementOfSeq
<1>1. g \in [CountType \X LineType(r) -> CountType]
  BY ConsumeLineType
<1>g. \A a \in CountType, b \in LineType(r) : g[<<a, b>>] = ConsumeLine(r, a, b)
  OBVIOUS
<1>3. PICK F, st : IsFoldLeft(F, st, n, t, CountType, base, g)
  <2> HIDE DEF g, n
  <2> QED BY <1>0, <1>1, FoldLeftStates
<1>4. Eq(F)
  <2>1. \A s \in SUBSET (1..n) : s # {} => F[s \ {Max(s)}] \in CountType /\ t[Max(s)] \in LineType(r)
    BY <1>0, <1>3, Greatest DEF IsFoldLeft
  <2>2. F = [s \in SUBSET (1..n) |-> IF s = {} THEN base ELSE g[<<F[s \ {Max(s)}], t[Max(s)]>>]]
    <3> HIDE DEF g, n
    <3> QED BY <1>3 DEF IsFoldLeft
  <2> HIDE DEF g, n
  <2> QED BY <1>0, <1>g, <2>1, <2>2
<1>5. Eq(iter)
  <2> HIDE DEF Eq
  <2> QED BY <1>4
<1>6. FoldLines(r, base, t) = iter[DOMAIN t]
  BY Zenon DEF FoldLines, FoldLeft, MapThenFoldSet
<1>7. iter[1..n] = st[n]
  <2> HIDE DEF iter, g, n
  <2>1. iter = [s \in SUBSET (1..n) |->
                  IF s = {} THEN base ELSE ConsumeLine(r, iter[s \ {Max(s)}], t[Max(s)])]
    BY <1>5, <1>0
  <2> HIDE DEF Eq
  <2>2. iter[{}] = base
    BY <2>1
  <2>3. ASSUME NEW s \in SUBSET (1..n), s # {}, iter[s \ {Max(s)}] \in CountType
        PROVE  iter[s] = g[<<iter[s \ {Max(s)}], t[Max(s)]>>]
    <3>1. t[Max(s)] \in LineType(r)
      BY <1>0, <2>3, Greatest
    <3>2. iter[s] = ConsumeLine(r, iter[s \ {Max(s)}], t[Max(s)])
      BY <2>1, <2>3
    <3> QED BY <3>1, <3>2, <2>3, <1>g
  <2> QED BY <2>2, <2>3, <1>3 DEF IsFoldLeft
<1>8. Runs(st, n, t, CountType, base, g)
  BY <1>3 DEF IsFoldLeft
<1>9. \A i \in 1..n : st[i] = ConsumeLine(r, st[i - 1], t[i])
  <2> SUFFICES ASSUME NEW i \in 1..n PROVE st[i] = ConsumeLine(r, st[i - 1], t[i])
    OBVIOUS
  <2> HIDE DEF g, n
  <2>1. i - 1 \in 0..n
    BY <1>0
  <2>2. st[i - 1] \in CountType /\ t[i] \in LineType(r)
    BY <2>1, <1>8, <1>0 DEF Runs
  <2> QED BY <2>2, <1>8, <1>g DEF Runs
<1>10. FoldLines(r, base, t) = st[n]
  <2> HIDE DEF iter, n
  <2> QED BY <1>0, <1>6, <1>7
<1>11. st \in [0..n -> CountType] /\ st[0] = base
  <2> HIDE DEF n, g
  <2> QED BY <1>8 DEF Runs
<1> HIDE DEF g
<1> QED BY <1>9, <1>10, <1>11 DEF LineRuns

\* The usage that the first k events of a response tell of.
Usage(r, k) == FoldLeft(Consume, NoUsage, SubSeq(Script[r], 1, k))

LEMMA UsageIs ==
  ASSUME NEW r \in Requests, NEW st, ConsumeRuns(st, Script[r], NoUsage), NEW k \in 0..Len(Script[r])
  PROVE  Usage(r, k) = st[k] /\ Usage(r, k) \in CountType
<1> DEFINE t == SubSeq(Script[r], 1, k)
<1>1. t \in Seq(Events) /\ Len(t) = k /\ \A i \in 1..k : t[i] = Script[r][i]
  BY ResponseAssumption
<1>2. NoUsage \in CountType
  BY DEF NoUsage, CountType
<1>3. PICK a : ConsumeRuns(a, t, NoUsage)
  BY <1>1, <1>2, ConsumeStates
<1>4. a[0] = st[0] /\ \A i \in 1..k : a[i - 1] = st[i - 1] => a[i] = st[i]
  <2>1. \A i \in 1..k : i \in 1..Len(Script[r])
    OBVIOUS
  <2> HIDE DEF t
  <2> QED BY <1>1, <1>3, <2>1 DEF ConsumeRuns
<1>5. k \in Nat
  BY ResponseAssumption
<1>6. a[k] = st[k]
  BY <1>4, <1>5, StatesAgree
<1> QED BY <1>1, <1>3, <1>6 DEF ConsumeRuns, Usage

\* Whatever a read cuts off, feed goes from what the events read before say to
\* what the events read then say.
LEMMA FeedIs ==
  ASSUME NEW r \in Requests, NEW g \in 0..(2 * Len(Script[r])), NEW n \in (g + 1)..(2 * Len(Script[r])),
         parser[r].partial = Rest(g), parser[r].row = Usage(r, g \div 2)
  PROVE  Feed(r, [i \in 1..(n - g) |-> g + i]) = [partial |-> Rest(n), row |-> Usage(r, n \div 2)]
<1> DEFINE len == Len(Script[r])
           k == g \div 2
           m == n \div 2
           text == Rest(g) \o [i \in 1..(n - g) |-> g + i]
<1>0. len \in Nat /\ g \in Nat /\ n \in Nat /\ k \in Nat /\ m \in Nat /\ k <= m /\ m <= len
      /\ n >= 2 * k /\ (n - 2 * k) \div 2 = m - k /\ (g = 2 * k \/ g = 2 * k + 1)
  <2>1. len \in Nat
    BY ResponseAssumption, LenProperties
  <2> HIDE DEF len
  <2>2. g \in Nat /\ n \in Nat /\ g < n /\ n <= 2 * len
    BY <2>1 DEF len
  <2>3. k \in Nat /\ (g = 2 * k \/ g = 2 * k + 1)
    BY <2>2
  <2>4. m \in Nat /\ (n = 2 * m \/ n = 2 * m + 1)
    BY <2>2
  <2> HIDE DEF k, m
  <2>5. k <= m /\ m <= len /\ n >= 2 * k
    BY <2>1, <2>2, <2>3, <2>4
  <2>6. (n - 2 * k) \div 2 = m - k
    <3>1. \E d \in Nat : d = m - k /\ (n - 2 * k = 2 * d \/ n - 2 * k = 2 * d + 1)
      BY <2>3, <2>4, <2>5
    <3>2. \A d \in Nat : (2 * d) \div 2 = d /\ (2 * d + 1) \div 2 = d
      OBVIOUS
    <3> QED BY ONLY <3>1, <3>2
  <2> QED BY <2>1, <2>2, <2>3, <2>4, <2>5, <2>6 DEF k, m, len
<1>1. text = [i \in 1..(n - 2 * k) |-> 2 * k + i]
  <2>1. CASE g = 2 * k
    <3>1. Rest(g) = <<>>
      BY <2>1, <1>0 DEF Rest
    <3> QED BY <3>1, <2>1, <1>0
  <2>2. CASE g = 2 * k + 1
    <3>1. Rest(g) = <<g>>
      BY <2>2, <1>0 DEF Rest
    <3> HIDE DEF k
    <3> QED BY <3>1, <2>2, <1>0
  <2> QED BY <2>1, <2>2, <1>0
<1>2. Split(text).lines = Pairs(k, m - k) /\ Split(text).rest = Rest(n)
  <2> HIDE DEF text, k, m
  <2>1. RunFrom(text, 0, k, n)
    BY <1>0, <1>1, RunSeq
  <2> QED BY <1>0, <2>1, SplitOfRun
<1>3. Pairs(k, m - k) \in Seq(LineType(r)) /\ Len(Pairs(k, m - k)) = m - k
  <2> HIDE DEF k, m
  <2>1. \A j \in 1..(m - k) : <<2 * (k + j) - 1, 2 * (k + j)>> \in LineType(r)
    <3> SUFFICES ASSUME NEW j \in 1..(m - k) PROVE <<2 * (k + j) - 1, 2 * (k + j)>> \in LineType(r)
      OBVIOUS
    <3>1. (2 * (k + j)) \div 2 = k + j /\ k + j \in 1..len
      BY <1>0
    <3>2. DOMAIN Script[r] = 1..len
      BY ResponseAssumption
    <3> HIDE DEF len
    <3> QED BY <3>1, <3>2, <1>0 DEF LineType
  <2>2. m - k \in Nat
    BY <1>0
  <2> QED BY <2>1, <2>2 DEF Pairs
<1>4. NoUsage \in CountType
  BY DEF NoUsage, CountType
<1>5. PICK st : ConsumeRuns(st, Script[r], NoUsage)
  BY <1>4, ConsumeStates, ResponseAssumption
<1>6. Usage(r, k) = st[k] /\ Usage(r, k) \in CountType /\ Usage(r, m) = st[m]
  <2> HIDE DEF k, m
  <2> QED BY <1>0, <1>5, UsageIs
<1>7. PICK a : LineRuns(a, r, Pairs(k, m - k), Usage(r, k))
  <2> HIDE DEF k, m
  <2> QED BY <1>3, <1>6, LineStates
<1> DEFINE b == [j \in 0..(m - k) |-> st[k + j]]
<1>8. a[m - k] = b[m - k]
  <2> HIDE DEF k, m
  <2>1. a[0] = b[0]
    <3>1. a[0] = Usage(r, k)
      BY <1>7 DEF LineRuns
    <3>2. 0 \in 0..(m - k) /\ k + 0 = k
      BY <1>0
    <3>3. b[0] = st[k + 0]
      BY <3>2
    <3> QED BY <3>1, <3>2, <3>3, <1>6
  <2>2. ASSUME NEW j \in 1..(m - k), a[j - 1] = b[j - 1] PROVE a[j] = b[j]
    <3>1. a[j] = ConsumeLine(r, st[k + (j - 1)], Pairs(k, m - k)[j])
      BY <1>3, <1>7, <2>2, <1>0 DEF LineRuns
    <3>2. Pairs(k, m - k)[j] = <<2 * (k + j) - 1, 2 * (k + j)>>
      BY DEF Pairs
    <3>3. (2 * (k + j)) \div 2 = k + j
      BY <1>0
    <3>4. a[j] = Consume(st[k + (j - 1)], Script[r][k + j])
      <4>1. Len(<<2 * (k + j) - 1, 2 * (k + j)>>) = 2
            /\ <<2 * (k + j) - 1, 2 * (k + j)>>[2] \div 2 = k + j
        BY <3>3
      <4> QED BY <3>1, <3>2, <4>1, Zenon DEF ConsumeLine
    <3>5. k + j \in 1..len /\ k + (j - 1) = (k + j) - 1
      BY <1>0
    <3>6. st[k + j] = Consume(st[k + (j - 1)], Script[r][k + j])
      BY <3>5, <1>5 DEF ConsumeRuns
    <3> QED BY <3>4, <3>6
  <2>3. m - k \in Nat
    BY <1>0
  <2> HIDE DEF b
  <2> QED BY <2>1, <2>2, <2>3, StatesAgree
<1>9. b[m - k] = st[m]
  <2> HIDE DEF k, m
  <2> QED BY <1>0
<1>10. FoldLines(r, Usage(r, k), Pairs(k, m - k)) = Usage(r, m)
  <2> HIDE DEF k, m, b
  <2> QED BY <1>3, <1>6, <1>7, <1>8, <1>9 DEF LineRuns
<1> HIDE DEF text, k, m, b
<1>11. Split(parser[r].partial \o [i \in 1..(n - g) |-> g + i]) = Split(text)
  BY DEF text
<1>12. parser[r].row = Usage(r, k)
  BY DEF k
<1>13. Feed(r, [i \in 1..(n - g) |-> g + i])
         = [partial |-> Split(text).rest, row |-> FoldLines(r, Usage(r, k), Split(text).lines)]
  BY <1>11, <1>12, Zenon DEF Feed, FoldLines
<1> QED BY <1>2, <1>10, <1>13 DEF m

-----------------------------------------------------------------------------
(* What a day has spent.                                                   *)

\* The sum of finitely many costs is a number, and that of none is zero.
LEMMA TotalIs ==
  ASSUME NEW S, IsFiniteSet(S), \A x \in S : x.cost \in Nat
  PROVE  Total(S) \in Nat /\ (S = {} => Total(S) = 0)
<1> DEFINE pick == [s \in SUBSET S |-> CHOOSE x \in s : TRUE]
           g == [p \in Nat \X S |-> p[2].cost + p[1]]
           Eq(G) == G = [s \in SUBSET S |->
                           IF s = {} THEN 0 ELSE LET x == CHOOSE x \in s : TRUE IN x.cost + G[s \ {x}]]
           iter == CHOOSE G : Eq(G)
<1>1. Picks(pick, S)
  BY DEF Picks
<1>2. g \in [Nat \X S -> Nat]
  OBVIOUS
<1>g. \A a \in Nat, b \in S : g[<<a, b>>] = b.cost + a
  OBVIOUS
<1>p. \A s \in SUBSET S : pick[s] = CHOOSE x \in s : TRUE
  OBVIOUS
<1>3. PICK F : IsFold(F, S, pick, Nat, 0, g)
  <2> HIDE DEF pick, g
  <2> QED BY <1>1, <1>2, FoldIsUnique
<1>4. Eq(F)
  <2>1. \A s \in SUBSET S : s # {} => F[s \ {pick[s]}] \in Nat /\ pick[s] \in S
    <3> HIDE DEF pick
    <3> QED BY <1>1, <1>3 DEF Picks, IsFold
  <2>2. F = [s \in SUBSET S |-> IF s = {} THEN 0 ELSE g[<<F[s \ {pick[s]}], pick[s]>>]]
    <3> HIDE DEF pick, g
    <3> QED BY <1>3 DEF IsFold, Folds
  <2>3. F = [s \in SUBSET S |-> IF s = {} THEN 0 ELSE pick[s].cost + F[s \ {pick[s]}]]
    <3> HIDE DEF pick, g
    <3> QED BY <2>1, <2>2, <1>g
  <2> HIDE DEF pick
  <2> QED BY <1>p, <2>3
<1>5. Eq(iter)
  <2> HIDE DEF Eq
  <2> QED BY <1>4
<1>6. Total(S) = iter[S]
  BY Zenon DEF Total, MapThenSumSet, MapThenFoldSet
<1>7. iter[S] = F[S]
  <2> HIDE DEF iter, pick, g
  <2>1. iter = [s \in SUBSET S |-> IF s = {} THEN 0 ELSE pick[s].cost + iter[s \ {pick[s]}]]
    BY <1>5, <1>p
  <2> HIDE DEF Eq
  <2>2. \A s \in SUBSET S : s # {} => pick[s] \in S
    BY <1>1 DEF Picks
  <2>3. FoldsWithin(iter, S, pick, Nat, 0, g)
    BY <2>1, <2>2, <1>g DEF FoldsWithin
  <2> QED BY <2>3, <1>3 DEF IsFold
<1>8. F[S] \in Nat /\ (S = {} => F[S] = 0)
  <2> HIDE DEF pick, g
  <2> QED BY <1>3 DEF IsFold, Folds
<1> QED BY <1>6, <1>7, <1>8

-----------------------------------------------------------------------------
(* Types, and what has been parsed.                                        *)

Ats == {"rest", "date", "already", "sum", "mark"}

MeterInv ==
  /\ got \in [Requests -> Nat] /\ \A r \in Requests : got[r] <= 2 * Len(Script[r])
  /\ DOMAIN parser = Requests
  /\ \A r \in Requests : parser[r] = [partial |-> Rest(got[r]), row |-> Usage(r, got[r] \div 2)]
  /\ at \in [Requests -> {"read", "buffer", "done"}]
  /\ held \in [Requests -> Seq(RowType)]
  /\ \A r \in Requests : IF at[r] = "buffer" THEN Len(held[r]) = 1 /\ held[r][1].req = r ELSE held[r] = <<>>

AgentInv ==
  /\ buf \in Seq(RowType)
  /\ flush \in [at : {"idle", "send", "back"}, rows : Seq(RowType)]
  /\ flush.at = "idle" => flush.rows = <<>>
  /\ conn \in {"up", "lost", "none"}
  /\ wire \in Seq(Seq(RowType))
  /\ lost \subseteq Requests

HubInv ==
  /\ day \in 1..MaxDays
  /\ IsFiniteSet(ledger)
  /\ \A x \in ledger : x.cost \in Nat /\ x.day \in 1..MaxDays
  /\ others \in 0..MaxOther
  /\ check \in [Handlers -> [at : Ats, day : 1..MaxDays]]
  /\ lastAlertDay \in 0..MaxDays /\ alerted \subseteq 1..MaxDays

TypeInv == MeterInv /\ AgentInv /\ HubInv /\ faults \in 0..MaxFaults

LEMMA MeterKept == MeterInv /\ UNCHANGED meter => MeterInv'
BY DEF MeterInv, meter

LEMMA AgentKept == AgentInv /\ UNCHANGED agent => AgentInv'
BY DEF AgentInv, agent

LEMMA HubKept == HubInv /\ UNCHANGED hub => HubInv'
BY DEF HubInv, hub

\* A parser's row is a usage.
LEMMA ParsedType ==
  ASSUME MeterInv, NEW r \in Requests
  PROVE  parser[r].row = Usage(r, got[r] \div 2) /\ parser[r].row \in CountType
<1>1. NoUsage \in CountType
  BY DEF NoUsage, CountType
<1>2. PICK st : ConsumeRuns(st, Script[r], NoUsage)
  BY <1>1, ConsumeStates, ResponseAssumption
<1>3. Len(Script[r]) \in Nat
  BY ResponseAssumption
<1>4. got[r] \div 2 \in 0..Len(Script[r])
  BY <1>3 DEF MeterInv
<1>5. Usage(r, got[r] \div 2) \in CountType
  BY <1>2, <1>4, UsageIs
<1>6. parser[r].row = Usage(r, got[r] \div 2)
  BY DEF MeterInv
<1> QED BY <1>5, <1>6

LEMMA RowTyped ==
  ASSUME MeterInv, HubInv, NEW r \in Requests
  PROVE  Row(r) \in RowType /\ <<Row(r)>> \in Seq(RowType) /\ Row(r).req = r /\ Row(r).day = day
<1>1. parser[r].row.out \in Nat
  BY ParsedType DEF CountType
<1>2. Row(r) \in RowType /\ Row(r).req = r /\ Row(r).day = day
  BY <1>1 DEF Row, RowType, HubInv
<1> QED BY <1>2

LEMMA RowsTyped ==
  ASSUME NEW rows \in Seq(RowType)
  PROVE  ToSet(rows) \subseteq RowType /\ IsFiniteSet(ToSet(rows)) /\ DOMAIN rows = 1..Len(rows)
         /\ \A row \in ToSet(rows) : \E i \in 1..Len(rows) : row = rows[i]
<1>1. DOMAIN rows = 1..Len(rows) /\ Len(rows) \in Nat /\ \A i \in 1..Len(rows) : rows[i] \in RowType
  BY LenProperties, ElementOfSeq
<1>2. IsFiniteSet(1..Len(rows))
  BY <1>1, FS_Interval
<1>3. ToSet(rows) = {rows[i] : i \in 1..Len(rows)}
  BY <1>1 DEF ToSet
<1>4. rows \in Surjection(1..Len(rows), ToSet(rows))
  BY <1>1, <1>3 DEF Surjection
<1>5. IsFiniteSet(ToSet(rows))
  BY <1>2, <1>4, FS_Surjection
<1> QED BY <1>1, <1>3, <1>5

LEMMA EmitsTyped ==
  ASSUME AgentInv, NEW rows \in Seq(RowType), Emits(rows)
  PROVE  wire' \in Seq(Seq(RowType)) /\ lost' \subseteq Requests
<1>1. CASE conn = "up"
  <2>1. wire' = Append(wire, rows) /\ lost' = lost
    BY <1>1 DEF Emits
  <2>2. wire \in Seq(Seq(RowType)) /\ lost \subseteq Requests
    BY DEF AgentInv
  <2>3. Append(wire, rows) \in Seq(Seq(RowType))
    BY <2>2, AppendProperties
  <2> QED BY <2>1, <2>2, <2>3
<1>2. CASE conn # "up"
  <2>1. {row.req : row \in ToSet(rows)} \subseteq Requests
    BY RowsTyped DEF RowType
  <2> QED BY <1>2, <2>1 DEF AgentInv, Emits
<1> QED BY <1>1, <1>2

\* Every price is a number.
LEMMA CostType ==
  ASSUME NEW row \in RowType
  PROVE  Cost(row) \in Nat
<1> DEFINE model == Model[row.req]
           hits == {n \in 2..(Len(model) - 1) : SubSeq(model, 1, n) \in DOMAIN Prices}
<1>1. row.req \in Requests /\ row.out \in Nat
  BY DEF RowType
<1>2. Len(model) \in Nat
  BY <1>1, ResponseAssumption
<1>3. Priced(model) \in Nat
  <2>1. CASE model \in DOMAIN Prices
    BY <2>1, PriceAssumption DEF Priced
  <2>2. CASE model \notin DOMAIN Prices /\ hits = {}
    BY <2>2 DEF Priced
  <2>3. CASE model \notin DOMAIN Prices /\ hits # {}
    <3>1. hits \in SUBSET (1..Len(model))
      BY <1>2
    <3>2. Max(hits) \in hits
      <4> HIDE DEF hits, model
      <4> QED BY <2>3, <3>1, <1>2, Greatest
    <3>3. Prices[SubSeq(model, 1, Max(hits))] \in Nat
      <4>1. SubSeq(model, 1, Max(hits)) \in DOMAIN Prices
        BY <3>2
      <4> HIDE DEF hits, model
      <4> QED BY <4>1, PriceAssumption
    <3>4. Priced(model) = Prices[SubSeq(model, 1, Max(hits))]
      BY <2>3 DEF Priced
    <3> QED BY <3>3, <3>4
  <2> QED BY <2>1, <2>2, <2>3
<1> HIDE DEF model
<1>4. Cost(row) = Priced(model) * row.out
  BY DEF Cost, model
<1> QED BY <1>1, <1>3, <1>4

LEMMA FeedKept ==
  ASSUME TypeInv, NEW r \in Requests, Read(r)
  PROVE  MeterInv'
<1>1. PICK n \in (got[r] + 1)..(2 * Len(Script[r])) :
        /\ got' = [got EXCEPT ![r] = n]
        /\ parser' = [parser EXCEPT ![r] = Feed(r, [i \in 1..(n - got[r]) |-> got[r] + i])]
  BY DEF Read
<1>2. Len(Script[r]) \in Nat
  BY ResponseAssumption
<1>3. got[r] \in 0..(2 * Len(Script[r])) /\ n \in Nat /\ n <= 2 * Len(Script[r])
  BY <1>2 DEF TypeInv, MeterInv
<1>4. Feed(r, [i \in 1..(n - got[r]) |-> got[r] + i]) = [partial |-> Rest(n), row |-> Usage(r, n \div 2)]
  <2>1. parser[r].partial = Rest(got[r]) /\ parser[r].row = Usage(r, got[r] \div 2)
    BY DEF TypeInv, MeterInv
  <2> QED BY <2>1, <1>3, FeedIs
<1>5. parser' = [parser EXCEPT ![r] = [partial |-> Rest(n), row |-> Usage(r, n \div 2)]]
  BY <1>1, <1>4
<1>6. at' = at /\ held' = held
  BY DEF Read
<1>7. got' \in [Requests -> Nat] /\ \A q \in Requests : got'[q] <= 2 * Len(Script[q])
  BY <1>1, <1>3 DEF TypeInv, MeterInv
<1>8. DOMAIN parser' = Requests
      /\ \A q \in Requests : parser'[q] = [partial |-> Rest(got'[q]), row |-> Usage(q, got'[q] \div 2)]
  BY <1>1, <1>5 DEF TypeInv, MeterInv
<1> QED BY <1>6, <1>7, <1>8 DEF TypeInv, MeterInv

\* A handler that leaves the body has its row, or none.
LEMMA PlaceKept ==
  ASSUME TypeInv, NEW r \in Requests, got' = got, parser' = parser,
         \/ at' = [at EXCEPT ![r] = "done"] /\ at[r] # "buffer" /\ held' = held
         \/ at' = [at EXCEPT ![r] = "done"] /\ held' = [held EXCEPT ![r] = <<>>]
         \/ at' = [at EXCEPT ![r] = "buffer"] /\ held' = [held EXCEPT ![r] = <<Row(r)>>]
  PROVE  MeterInv'
<1>1. <<Row(r)>> \in Seq(RowType) /\ Len(<<Row(r)>>) = 1 /\ <<Row(r)>>[1].req = r
  BY RowTyped DEF TypeInv
<1>2. <<>> \in Seq(RowType)
  OBVIOUS
<1>3. at' \in [Requests -> {"read", "buffer", "done"}] /\ held' \in [Requests -> Seq(RowType)]
  <2> HIDE DEF Row
  <2> QED BY <1>1, <1>2 DEF TypeInv, MeterInv
<1>4. \A q \in Requests : IF at'[q] = "buffer" THEN Len(held'[q]) = 1 /\ held'[q][1].req = q ELSE held'[q] = <<>>
  BY <1>1 DEF TypeInv, MeterInv
<1>5. /\ got' \in [Requests -> Nat] /\ \A q \in Requests : got'[q] <= 2 * Len(Script[q])
      /\ DOMAIN parser' = Requests
      /\ \A q \in Requests : parser'[q] = [partial |-> Rest(got'[q]), row |-> Usage(q, got'[q] \div 2)]
  BY DEF TypeInv, MeterInv
<1> QED BY <1>3, <1>4, <1>5 DEF MeterInv

LEMMA FinishKept ==
  ASSUME TypeInv, NEW r \in Requests, Finish(r)
  PROVE  TypeInv'
<1>1. got' = got /\ parser' = parser /\ at[r] = "read" /\ buf' = buf /\ flush' = flush /\ conn' = conn /\ UNCHANGED hub
      /\ faults' = faults
  BY DEF Finish
<1>2. MeterInv'
  <2>1. \/ at' = [at EXCEPT ![r] = "done"] /\ at[r] # "buffer" /\ held' = held
        \/ at' = [at EXCEPT ![r] = "buffer"] /\ held' = [held EXCEPT ![r] = <<Row(r)>>]
    BY <1>1 DEF Finish
  <2> QED BY <1>1, <2>1, PlaceKept
<1>3. wire' \in Seq(Seq(RowType)) /\ lost' \subseteq Requests
  <2>1. CASE Emits(<<Row(r)>>)
    BY <2>1, RowTyped, EmitsTyped DEF TypeInv
  <2>2. CASE wire' = wire /\ lost' = lost
    BY <2>2 DEF TypeInv, AgentInv
  <2>3. Emits(<<Row(r)>>) \/ (wire' = wire /\ lost' = lost)
    BY DEF Finish, NotEmitted
  <2> QED BY <2>1, <2>2, <2>3
<1>4. AgentInv'
  BY <1>1, <1>3 DEF TypeInv, AgentInv
<1> QED BY <1>1, <1>2, <1>4, HubKept DEF TypeInv

LEMMA QueueKept ==
  ASSUME TypeInv, NEW r \in Requests, Queue(r)
  PROVE  TypeInv'
<1> DEFINE more == buf \o held[r]
           over == Len(more) - BufferCap
<1>1. /\ got' = got /\ parser' = parser /\ flush' = flush /\ conn' = conn /\ wire' = wire
      /\ UNCHANGED hub /\ faults' = faults
      /\ at' = [at EXCEPT ![r] = "done"] /\ held' = [held EXCEPT ![r] = <<>>]
      /\ buf' = IF over > 0 THEN SubSeq(more, over + 1, Len(more)) ELSE more
      /\ lost' = IF over > 0 THEN lost \cup {more[i].req : i \in 1..over} ELSE lost
  BY DEF Queue
<1>2. buf \in Seq(RowType) /\ held[r] \in Seq(RowType)
  BY DEF TypeInv, MeterInv, AgentInv
<1>3. more \in Seq(RowType)
  BY <1>2, ConcatProperties
<1>4. Len(more) \in Nat /\ BufferCap \in Nat /\ over \in Int /\ over <= Len(more)
      /\ \A i \in 1..Len(more) : more[i] \in RowType
  <2> HIDE DEF more
  <2> QED BY <1>3, BoundAssumption, LenProperties, ElementOfSeq
<1>5. buf' \in Seq(RowType)
  <2> HIDE DEF more
  <2>1. CASE over > 0
    <3>1. \A i \in (over + 1)..Len(more) : more[i] \in RowType
      BY <1>4, <2>1
    <3>2. SubSeq(more, over + 1, Len(more)) \in Seq(RowType)
      BY <1>4, <3>1, SubSeqProperties
    <3> QED BY <1>1, <2>1, <3>2
  <2>2. CASE ~(over > 0)
    BY <1>1, <1>3, <2>2
  <2> QED BY <2>1, <2>2
<1>6. lost' \subseteq Requests
  <2>1. \A i \in 1..over : more[i].req \in Requests
    <3> HIDE DEF more
    <3> QED BY <1>4 DEF RowType
  <2> HIDE DEF more, over
  <2> QED BY <1>1, <2>1 DEF TypeInv, AgentInv
<1>7. AgentInv'
  BY <1>1, <1>5, <1>6 DEF TypeInv, AgentInv
<1>8. MeterInv'
  BY <1>1, PlaceKept
<1> QED BY <1>1, <1>7, <1>8, HubKept DEF TypeInv

LEMMA FlushKept ==
  ASSUME TypeInv, FlushTakes \/ FlushSends \/ FlushReturns
  PROVE  TypeInv'
<1>0. /\ buf \in Seq(RowType) /\ flush.rows \in Seq(RowType) /\ <<>> \in Seq(RowType)
      /\ wire \in Seq(Seq(RowType)) /\ lost \subseteq Requests /\ conn \in {"up", "lost", "none"}
      /\ \A at1 \in {"idle", "send", "back"}, rows \in Seq(RowType) :
           [at |-> at1, rows |-> rows] \in [at : {"idle", "send", "back"}, rows : Seq(RowType)]
  BY DEF TypeInv, AgentInv
<1>1. UNCHANGED meter /\ UNCHANGED hub /\ faults' = faults /\ conn' = conn
  BY DEF FlushTakes, FlushSends, FlushReturns
<1>2. AgentInv'
  <2>1. CASE FlushTakes
    BY <2>1, <1>0 DEF FlushTakes, AgentInv
  <2>2. CASE FlushSends
    <3>1. CASE Emits(flush.rows) /\ flush' = [at |-> "idle", rows |-> <<>>]
      <4>1. wire' \in Seq(Seq(RowType)) /\ lost' \subseteq Requests
        BY <3>1, <1>0, EmitsTyped DEF TypeInv
      <4> QED BY <3>1, <4>1, <2>2, <1>0, <1>1 DEF FlushSends, AgentInv
    <3>2. CASE NotEmitted /\ flush' = [flush EXCEPT !.at = "back"]
      <4>1. flush' \in [at : {"idle", "send", "back"}, rows : Seq(RowType)] /\ flush'.at # "idle"
        BY <3>2 DEF TypeInv, AgentInv
      <4> QED BY <3>2, <4>1, <2>2, <1>0, <1>1 DEF FlushSends, NotEmitted, AgentInv
    <3> QED BY <3>1, <3>2, <2>2 DEF FlushSends
  <2>3. CASE FlushReturns
    <3>1. flush.rows \o buf \in Seq(RowType)
      BY <1>0, ConcatProperties
    <3> QED BY <3>1, <2>3, <1>0 DEF FlushReturns, PutBack, AgentInv
  <2> QED BY <2>1, <2>2, <2>3
<1> QED BY <1>1, <1>2, MeterKept, HubKept DEF TypeInv

LEMMA ConnKept ==
  ASSUME TypeInv, Connect \/ Break \/ NoticeLoss
  PROVE  TypeInv'
<1>1. UNCHANGED meter /\ UNCHANGED hub /\ buf' = buf /\ flush' = flush /\ conn' \in {"up", "lost", "none"}
  BY DEF Connect, Break, NoticeLoss
<1>2. wire' \in Seq(Seq(RowType)) /\ lost' \subseteq Requests
  <2>1. CASE Break
    <3>1. \A i \in DOMAIN wire : ToSet(wire[i]) \subseteq RowType
      BY RowsTyped, LenProperties, ElementOfSeq DEF TypeInv, AgentInv
    <3>2. {row.req : row \in UNION {ToSet(wire[i]) : i \in DOMAIN wire}} \subseteq Requests
      BY <3>1 DEF RowType
    <3> QED BY <2>1, <3>2 DEF Break, TypeInv, AgentInv
  <2>2. CASE Connect \/ NoticeLoss
    BY <2>2 DEF Connect, NoticeLoss, TypeInv, AgentInv
  <2> QED BY <2>1, <2>2
<1>3. faults' \in 0..MaxFaults
  BY BoundAssumption DEF Connect, Break, NoticeLoss, Fault, TypeInv
<1>4. AgentInv'
  BY <1>1, <1>2 DEF TypeInv, AgentInv
<1> QED BY <1>1, <1>3, <1>4, MeterKept, HubKept DEF TypeInv

\* The rows of one batch, as the ledger keeps them.
Kept(rows) == {[of |-> row.req, cost |-> Cost(row), day |-> row.day] : row \in ToSet(rows)}

LEMMA KeptTyped ==
  ASSUME NEW rows \in Seq(RowType)
  PROVE  /\ IsFiniteSet(Kept(rows))
         /\ \A x \in Kept(rows) : \E row \in ToSet(rows) :
              x.of = row.req /\ x.cost = Cost(row) /\ x.day = row.day /\ row \in RowType
<1> DEFINE f == [row \in ToSet(rows) |-> [of |-> row.req, cost |-> Cost(row), day |-> row.day]]
<1>1. IsFiniteSet(ToSet(rows)) /\ ToSet(rows) \subseteq RowType
  BY RowsTyped
<1>2. f \in Surjection(ToSet(rows), Kept(rows))
  BY DEF Surjection, Kept
<1>3. IsFiniteSet(Kept(rows))
  <2> HIDE DEF f
  <2> QED BY <1>1, <1>2, FS_Surjection
<1>4. \A x \in Kept(rows) : \E row \in ToSet(rows) : x.of = row.req /\ x.cost = Cost(row) /\ x.day = row.day
  BY DEF Kept
<1> QED BY <1>1, <1>3, <1>4

LEMMA IngestKept ==
  ASSUME TypeInv, Ingest
  PROVE  TypeInv'
<1>1. /\ UNCHANGED meter /\ wire # <<>> /\ wire' = Tail(wire) /\ buf' = buf /\ flush' = flush /\ conn' = conn
      /\ day' = day /\ others' = others /\ lastAlertDay' = lastAlertDay /\ alerted' = alerted
  BY DEF Ingest
<1>2. Head(wire) \in Seq(RowType) /\ Tail(wire) \in Seq(Seq(RowType))
  <2>1. wire \in Seq(Seq(RowType))
    BY DEF TypeInv, AgentInv
  <2> QED BY <2>1, <1>1, HeadTailProperties
<1>3. CASE /\ Checks("agent", "rest", "date") /\ ledger' = ledger \cup Kept(Head(wire))
           /\ lost' = lost /\ faults' = faults
  <2>1. IsFiniteSet(ledger')
    <3>1. IsFiniteSet(ledger) /\ IsFiniteSet(Kept(Head(wire)))
      BY <1>2, KeptTyped DEF TypeInv, HubInv
    <3> QED BY <3>1, <1>3, FS_Union
  <2>2. \A x \in Kept(Head(wire)) : x.cost \in Nat /\ x.day \in 1..MaxDays
    <3> SUFFICES ASSUME NEW x \in Kept(Head(wire)) PROVE x.cost \in Nat /\ x.day \in 1..MaxDays
      OBVIOUS
    <3>1. PICK row \in ToSet(Head(wire)) : x.cost = Cost(row) /\ x.day = row.day /\ row \in RowType
      BY <1>2, KeptTyped
    <3> QED BY <3>1, CostType DEF RowType
  <2>3. check' \in [Handlers -> [at : Ats, day : 1..MaxDays]]
    BY <1>3 DEF Checks, TypeInv, HubInv, Ats, Handlers
  <2>4. HubInv'
    BY <1>1, <1>3, <2>1, <2>2, <2>3 DEF TypeInv, HubInv
  <2>5. AgentInv'
    BY <1>1, <1>2, <1>3 DEF TypeInv, AgentInv
  <2> QED BY <1>1, <1>3, <2>4, <2>5, MeterKept DEF TypeInv
<1>4. CASE Fault /\ lost' = lost \cup {row.req : row \in ToSet(Head(wire))} /\ check' = check /\ ledger' = ledger
  <2>1. {row.req : row \in ToSet(Head(wire))} \subseteq Requests
    BY <1>2, RowsTyped DEF RowType
  <2>2. AgentInv'
    BY <1>1, <1>2, <1>4, <2>1 DEF TypeInv, AgentInv
  <2>3. faults' \in 0..MaxFaults
    BY <1>4, BoundAssumption DEF Fault, TypeInv
  <2>4. UNCHANGED hub
    BY <1>1, <1>4 DEF hub
  <2> QED BY <1>1, <2>2, <2>3, <2>4, MeterKept, HubKept DEF TypeInv
<1> QED BY <1>3, <1>4 DEF Ingest, Kept

LEMMA DayKept ==
  ASSUME TypeInv, Midnight \/ IngestOther
  PROVE  TypeInv'
<1>1. UNCHANGED meter /\ UNCHANGED agent /\ faults' = faults /\ lastAlertDay' = lastAlertDay /\ alerted' = alerted
  BY DEF Midnight, IngestOther
<1>2. HubInv'
  <2>1. CASE Midnight
    BY <2>1, BoundAssumption DEF Midnight, TypeInv, HubInv
  <2>2. CASE IngestOther
    <3>1. IsFiniteSet(ledger')
      BY <2>2, FS_AddElement DEF IngestOther, TypeInv, HubInv
    <3>2. check' \in [Handlers -> [at : Ats, day : 1..MaxDays]]
      BY <2>2 DEF IngestOther, Checks, TypeInv, HubInv, Ats, Handlers
    <3>3. others' \in 0..MaxOther
      BY <2>2, BoundAssumption DEF IngestOther, TypeInv, HubInv
    <3>4. \A x \in ledger' : x.cost \in Nat /\ x.day \in 1..MaxDays
      BY <2>2 DEF IngestOther, TypeInv, HubInv
    <3>5. day' = day
      BY <2>2 DEF IngestOther
    <3> QED BY <1>1, <3>1, <3>2, <3>3, <3>4, <3>5 DEF TypeInv, HubInv
  <2> QED BY <2>1, <2>2
<1> QED BY <1>1, <1>2, MeterKept, AgentKept DEF TypeInv

LEMMA CheckKept ==
  ASSUME TypeInv, NEW h \in Handlers, CheckDate(h) \/ CheckAlready(h) \/ CheckSum(h) \/ CheckMarks(h)
  PROVE  TypeInv'
<1>1. /\ UNCHANGED meter /\ UNCHANGED agent /\ day' = day /\ ledger' = ledger /\ others' = others
      /\ faults' = faults
  BY DEF CheckDate, CheckAlready, CheckSum, CheckMarks
<1>2. check[h] \in [at : Ats, day : 1..MaxDays] /\ day \in 1..MaxDays
  BY DEF TypeInv, HubInv
<1>3. /\ lastAlertDay' = lastAlertDay \/ lastAlertDay' = check[h].day
      /\ alerted' = alerted \/ alerted' = alerted \cup {check[h].day}
  BY DEF CheckDate, CheckAlready, CheckSum, CheckMarks
<1>4. lastAlertDay' \in 0..MaxDays /\ alerted' \subseteq 1..MaxDays
  <2>1. check[h].day \in 1..MaxDays /\ lastAlertDay \in 0..MaxDays /\ alerted \subseteq 1..MaxDays
    BY <1>2 DEF TypeInv, HubInv
  <2>2. check[h].day \in 0..MaxDays
    BY <2>1
  <2>3. lastAlertDay' \in 0..MaxDays
    BY <2>1, <2>2, <1>3
  <2>4. alerted' \subseteq 1..MaxDays
    BY <2>1, <1>3
  <2> QED BY <2>3, <2>4
<1>5. \/ check' = [check EXCEPT ![h] = [at |-> "already", day |-> day]]
      \/ \E to \in Ats : check' = [check EXCEPT ![h].at = to]
  BY DEF CheckDate, CheckAlready, CheckSum, CheckMarks, Checks, Ats
<1>6. check' \in [Handlers -> [at : Ats, day : 1..MaxDays]]
  BY <1>2, <1>5 DEF TypeInv, HubInv, Ats
<1>7. HubInv'
  BY <1>1, <1>4, <1>6 DEF TypeInv, HubInv
<1> QED BY <1>1, <1>7, MeterKept, AgentKept DEF TypeInv

\* What is parsed so far, the row a handler holds, and typed buffers are kept.
LEMMA TypeStep == TypeInv /\ [Next]_vars => TypeInv'
<1> SUFFICES ASSUME TypeInv, [Next]_vars PROVE TypeInv'
  OBVIOUS
<1>1. ASSUME NEW r \in Requests, Read(r) PROVE TypeInv'
  <2>1. UNCHANGED agent /\ UNCHANGED hub /\ faults' = faults
    BY <1>1 DEF Read
  <2> QED BY <1>1, <2>1, FeedKept, AgentKept, HubKept DEF TypeInv
<1>2. CASE UNCHANGED vars
  BY <1>2, MeterKept, AgentKept, HubKept DEF TypeInv, vars
<1>3. CASE Next
  BY <1>1, <1>3, FinishKept, QueueKept, FlushKept, ConnKept, IngestKept, DayKept, CheckKept DEF Next
<1> QED BY <1>2, <1>3

LEMMA TypeFirst == Init => TypeInv
<1> SUFFICES ASSUME Init PROVE TypeInv
  OBVIOUS
<1>1. \A r \in Requests : Len(Script[r]) \in Nat
  BY ResponseAssumption
<1>2. \A r \in Requests : Usage(r, 0) = NoUsage
  <2> SUFFICES ASSUME NEW r \in Requests PROVE Usage(r, 0) = NoUsage
    OBVIOUS
  <2>1. NoUsage \in CountType
    BY DEF NoUsage, CountType
  <2>2. PICK st : ConsumeRuns(st, Script[r], NoUsage)
    BY <2>1, ConsumeStates, ResponseAssumption
  <2>3. 0 \in 0..Len(Script[r])
    BY <1>1
  <2> QED BY <2>2, <2>3, UsageIs DEF ConsumeRuns
<1>3. Rest(0) = <<>> /\ 0 \div 2 = 0
  BY DEF Rest
<1>4. MeterInv
  <2>1. <<>> \in Seq(RowType)
    OBVIOUS
  <2>2. \A r \in Requests : parser[r] = [partial |-> Rest(got[r]), row |-> Usage(r, got[r] \div 2)]
    BY <1>2, <1>3 DEF Init
  <2> HIDE DEF RowType
  <2>3. held \in [Requests -> Seq(RowType)]
    BY <2>1 DEF Init
  <2>4. got \in [Requests -> Nat] /\ \A r \in Requests : got[r] <= 2 * Len(Script[r])
    BY <1>1 DEF Init
  <2> QED BY <2>2, <2>3, <2>4 DEF Init, MeterInv
<1>5. AgentInv
  BY DEF Init, AgentInv
<1>6. HubInv
  <2>1. IsFiniteSet(ledger)
    BY FS_EmptySet DEF Init
  <2> QED BY <2>1, BoundAssumption DEF Init, HubInv, Ats
<1>7. faults \in 0..MaxFaults
  BY BoundAssumption DEF Init
<1> QED BY <1>4, <1>5, <1>6, <1>7 DEF TypeInv

LEMMA AlwaysTyped == Spec => []TypeInv
BY TypeFirst, TypeStep, PTL DEF Spec

\* The buffers between a handler and the ledger hold rows of requests, and each
\* handler, check and flush is at a place of its code (handle, queueProxyRows,
\* flushProxyRows, checkSpendThreshold).
THEOREM TypeCorrect == Spec => []TypeOK
<1>1. TypeInv => TypeOK
  <2> SUFFICES ASSUME TypeInv PROVE TypeOK
    OBVIOUS
  <2>1. ASSUME NEW r \in Requests
        PROVE  /\ got[r] \in 0..(2 * Len(Script[r])) /\ at[r] \in {"read", "buffer", "done"}
               /\ parser[r].row.out \in Nat /\ (held[r] = <<>> <=> at[r] # "buffer")
    <3>1. parser[r].row.out \in Nat
      BY ParsedType DEF TypeInv, CountType
    <3>2. Len(Script[r]) \in Nat
      BY ResponseAssumption
    <3>3. got[r] \in 0..(2 * Len(Script[r]))
      BY <3>2 DEF TypeInv, MeterInv
    <3>4. at[r] \in {"read", "buffer", "done"}
      BY DEF TypeInv, MeterInv
    <3>5. held[r] = <<>> <=> at[r] # "buffer"
      <4>1. held[r] \in Seq(RowType)
        BY DEF TypeInv, MeterInv
      <4>2. IF at[r] = "buffer" THEN Len(held[r]) = 1 ELSE held[r] = <<>>
        BY DEF TypeInv, MeterInv
      <4> QED BY <4>2
    <3> QED BY <3>1, <3>3, <3>4, <3>5
  <2>2. ToSet(buf) \subseteq RowType /\ ToSet(flush.rows) \subseteq RowType
    <3>1. buf \in Seq(RowType) /\ flush.rows \in Seq(RowType)
      BY DEF TypeInv, AgentInv
    <3> QED BY <3>1, RowsTyped
  <2>3. UNION {ToSet(w) : w \in ToSet(wire)} \subseteq RowType
    <3>1. \A i \in DOMAIN wire : wire[i] \in Seq(RowType)
      BY LenProperties, ElementOfSeq DEF TypeInv, AgentInv
    <3>2. \A w \in ToSet(wire) : w \in Seq(RowType)
      BY <3>1, Zenon DEF ToSet
    <3>3. \A w \in ToSet(wire) : ToSet(w) \subseteq RowType
      BY <3>2, RowsTyped
    <3> QED BY <3>3
  <2>4. flush.at \in {"idle", "send", "back"} /\ conn \in {"up", "lost", "none"}
    BY DEF TypeInv, AgentInv
  <2>5. /\ day \in 1..MaxDays /\ lastAlertDay \in 0..MaxDays /\ alerted \subseteq 1..MaxDays
        /\ others \in 0..MaxOther
        /\ \A h \in Handlers : check[h].at \in {"rest", "date", "already", "sum", "mark"}
    BY DEF TypeInv, HubInv, Ats
  <2>6. faults \in 0..MaxFaults
    BY DEF TypeInv
  <2> QED BY <2>1, <2>2, <2>3, <2>4, <2>5, <2>6 DEF TypeOK
<1> QED BY <1>1, AlwaysTyped, PTL

\* Wherever the reads of a response were cut, the parser's row is what the
\* events read so far say (sseParser.feed, consumeEvent).
THEOREM ParsedTheorem == Spec => []ParsedAsWhole
<1>1. TypeInv => ParsedAsWhole
  BY ParsedType DEF TypeInv, ParsedAsWhole, Usage
<1> QED BY <1>1, AlwaysTyped, PTL

-----------------------------------------------------------------------------
(* The alert.                                                              *)

\* Rows carry the date of a day that has begun.
Until(d) == [req : Requests, out : Nat, day : 1..d]
Dated ==
  /\ \A r \in Requests : held[r] \in Seq(Until(day))
  /\ buf \in Seq(Until(day)) /\ flush.rows \in Seq(Until(day)) /\ wire \in Seq(Seq(Until(day)))
  /\ \A x \in ledger : x.day <= day

\* The handler is yet to look at today's spend, or to act on it.
Looks(h) == check[h].at = "date" \/ (check[h].at \in {"already", "sum", "mark"} /\ check[h].day = day)
Watched == Spent(day) >= Threshold /\ day \notin alerted => \E h \in Handlers : Looks(h)
AlertInv == Dated /\ (lastAlertDay # 0 => lastAlertDay \in alerted) /\ Watched

LEMMA DatedStep ==
  ASSUME TypeInv, Dated, [Next]_vars
  PROVE  Dated'
<1> DEFINE U == Until(day)
<1>0. /\ \A r \in Requests : held[r] \in Seq(U)
      /\ buf \in Seq(U) /\ flush.rows \in Seq(U) /\ wire \in Seq(Seq(U)) /\ (\A x \in ledger : x.day <= day)
      /\ <<>> \in Seq(U) /\ <<>> \in Seq(Seq(U))
  BY DEF Dated
<1> DEFINE Moves == /\ \A r \in Requests : held'[r] \in Seq(U)
                    /\ buf' \in Seq(U) /\ flush'.rows \in Seq(U) /\ wire' \in Seq(Seq(U))
                    /\ \A x \in ledger' : x.day <= day
<1>1. \A r \in Requests : Row(r) \in U /\ <<Row(r)>> \in Seq(U)
  <2> SUFFICES ASSUME NEW r \in Requests PROVE Row(r) \in U
    OBVIOUS
  <2>1. Row(r) \in RowType /\ Row(r).day = day /\ day \in Nat
    BY RowTyped DEF TypeInv, HubInv
  <2> HIDE DEF Row
  <2> QED BY <2>1 DEF RowType, Until
<1>2. ASSUME NEW rows \in Seq(U), Emits(rows) PROVE wire' \in Seq(Seq(U))
  <2>1. Append(wire, rows) \in Seq(Seq(U))
    <3> HIDE DEF U
    <3> QED BY <1>0, AppendProperties
  <2> QED BY <1>0, <1>2, <2>1 DEF Emits
<1>3. ASSUME NEW r \in Requests, Read(r) PROVE Moves
  BY <1>0, <1>3 DEF Read, agent, hub
<1>4. ASSUME NEW r \in Requests, Finish(r) PROVE Moves
  <2>1. buf' = buf /\ flush' = flush /\ ledger' = ledger
    BY <1>4 DEF Finish, hub
  <2>2. wire' \in Seq(Seq(U))
    <3> HIDE DEF U, Row
    <3> QED BY <1>0, <1>1, <1>2, <1>4 DEF Finish, NotEmitted
  <2>3. \A q \in Requests : held'[q] \in Seq(U)
    <3>1. held' = held \/ held' = [held EXCEPT ![r] = <<Row(r)>>]
      BY <1>4 DEF Finish
    <3> HIDE DEF U, Row
    <3> QED BY <1>0, <1>1, <3>1 DEF TypeInv, MeterInv
  <2> HIDE DEF U
  <2> QED BY <1>0, <2>1, <2>2, <2>3
<1>5. ASSUME NEW r \in Requests, Queue(r) PROVE Moves
  <2> DEFINE more == buf \o held[r]
             over == Len(more) - BufferCap
  <2>1. /\ flush' = flush /\ wire' = wire /\ ledger' = ledger /\ held' = [held EXCEPT ![r] = <<>>]
        /\ buf' = IF over > 0 THEN SubSeq(more, over + 1, Len(more)) ELSE more
    BY <1>5 DEF Queue, hub
  <2> HIDE DEF U
  <2>2. more \in Seq(U)
    BY <1>0, ConcatProperties
  <2> HIDE DEF more
  <2>3. Len(more) \in Nat /\ BufferCap \in Nat /\ \A i \in 1..Len(more) : more[i] \in U
    BY <2>2, BoundAssumption, LenProperties, ElementOfSeq
  <2>4. over > 0 => SubSeq(more, over + 1, Len(more)) \in Seq(U)
    <3> SUFFICES ASSUME over > 0 PROVE SubSeq(more, over + 1, Len(more)) \in Seq(U)
      OBVIOUS
    <3>1. \A i \in (over + 1)..Len(more) : more[i] \in U
      BY <2>3
    <3> QED BY <2>3, <3>1, SubSeqProperties
  <2> HIDE DEF over
  <2>5. buf' \in Seq(U)
    BY <2>1, <2>2, <2>4
  <2>6. \A q \in Requests : held'[q] \in Seq(U)
    BY <1>0, <2>1 DEF TypeInv, MeterInv
  <2> QED BY <1>0, <2>1, <2>5, <2>6
<1>6. ASSUME FlushTakes PROVE Moves
  <2> HIDE DEF U
  <2> QED BY <1>0, <1>6 DEF FlushTakes, meter, hub
<1>7. ASSUME FlushSends PROVE Moves
  <2> HIDE DEF U
  <2>1. flush'.rows \in Seq(U)
    <3>1. flush \in [at : {"idle", "send", "back"}, rows : Seq(RowType)]
      BY DEF TypeInv, AgentInv
    <3>2. flush' = [at |-> "idle", rows |-> <<>>] \/ flush' = [flush EXCEPT !.at = "back"]
      BY <1>7 DEF FlushSends
    <3>3. flush'.rows = <<>> \/ flush'.rows = flush.rows
      BY <3>1, <3>2
    <3> QED BY <1>0, <3>3
  <2>2. wire' \in Seq(Seq(U))
    BY <1>0, <1>2, <1>7 DEF FlushSends, NotEmitted
  <2>3. held' = held /\ buf' = buf /\ ledger' = ledger
    BY <1>7 DEF FlushSends, meter, hub
  <2> QED BY <1>0, <2>1, <2>2, <2>3
<1>8. ASSUME FlushReturns PROVE Moves
  <2> HIDE DEF U
  <2>1. flush.rows \o buf \in Seq(U)
    BY <1>0, ConcatProperties
  <2> QED BY <1>0, <1>8, <2>1 DEF FlushReturns, PutBack, meter, hub
<1>9. ASSUME Connect \/ Break \/ NoticeLoss PROVE Moves
  <2> HIDE DEF U
  <2> QED BY <1>0, <1>9 DEF Connect, Break, NoticeLoss, meter, hub
<1>10. ASSUME Ingest PROVE Moves
  <2> HIDE DEF U
  <2>1. Head(wire) \in Seq(U) /\ Tail(wire) \in Seq(Seq(U))
    <3>1. wire # <<>>
      BY <1>10 DEF Ingest
    <3> QED BY <1>0, <3>1, HeadTailProperties
  <2>2. held' = held /\ buf' = buf /\ flush' = flush /\ wire' = Tail(wire)
    BY <1>10 DEF Ingest, meter
  <2>3. ledger' = ledger \/ ledger' = ledger \cup Kept(Head(wire))
    BY <1>10 DEF Ingest, Kept
  <2>4. \A row \in ToSet(Head(wire)) : row \in U
    <3>1. \A i \in DOMAIN Head(wire) : Head(wire)[i] \in U
      BY <2>1, LenProperties, ElementOfSeq
    <3> QED BY <3>1, Zenon DEF ToSet
  <2>5. \A row \in U : row.day <= day
    BY DEF U, Until, TypeInv, HubInv
  <2>6. \A x \in Kept(Head(wire)) : x.day <= day
    BY <2>4, <2>5 DEF Kept
  <2> QED BY <1>0, <2>1, <2>2, <2>3, <2>6
<1>11. ASSUME IngestOther PROVE Moves
  <2>1. held' = held /\ buf' = buf /\ flush' = flush /\ wire' = wire
        /\ ledger' = ledger \cup {[of |-> others', cost |-> 1, day |-> day]}
    BY <1>11 DEF IngestOther, meter, agent
  <2>2. day \in Nat
    BY DEF TypeInv, HubInv
  <2> HIDE DEF U
  <2> QED BY <1>0, <2>1, <2>2
<1>12. ASSUME NEW h \in Handlers, CheckDate(h) \/ CheckAlready(h) \/ CheckSum(h) \/ CheckMarks(h) PROVE Moves
  <2>1. held' = held /\ buf' = buf /\ flush' = flush /\ wire' = wire /\ ledger' = ledger
    BY <1>12 DEF CheckDate, CheckAlready, CheckSum, CheckMarks, meter, agent
  <2> HIDE DEF U
  <2> QED BY <1>0, <2>1
<1>13. ASSUME Midnight \/ UNCHANGED vars PROVE Moves
  <2>1. held' = held /\ buf' = buf /\ flush' = flush /\ wire' = wire /\ ledger' = ledger
    BY <1>13 DEF Midnight, meter, agent, hub, vars
  <2> HIDE DEF U
  <2> QED BY <1>0, <2>1
<1>14. Moves
  <2> HIDE DEF Moves
  <2> QED BY <1>3, <1>4, <1>5, <1>6, <1>7, <1>8, <1>9, <1>10, <1>11, <1>12, <1>13 DEF Next
<1>15. day \in Nat /\ day' \in Nat /\ day <= day'
  <2>1. day \in 1..MaxDays /\ day' \in 1..MaxDays
    BY TypeStep DEF TypeInv, HubInv
  <2>2. day' = day \/ day' = day + 1
    BY DEF Next, Read, Finish, Queue, FlushTakes, FlushSends, FlushReturns, Connect, Break, NoticeLoss, Midnight,
           Ingest, IngestOther, CheckDate, CheckAlready, CheckSum, CheckMarks, hub, vars
  <2> QED BY <2>1, <2>2
<1>16. U \subseteq Until(day')
  BY <1>15 DEF Until
<1> DEFINE V == Until(day')
<1>17. \A rows \in Seq(U) : rows \in Seq(V)
  <2> HIDE DEF U
  <2> QED BY <1>16, SeqMonotonic
<1>18. \A batches \in Seq(Seq(U)) : batches \in Seq(Seq(V))
  <2> HIDE DEF U, V
  <2>1. Seq(U) \subseteq Seq(V)
    BY <1>17
  <2> QED BY <2>1, SeqMonotonic
<1>19. \A x \in ledger' : x.day <= day'
  <2>1. \A x \in ledger' : x.day \in Int /\ x.day <= day
    BY <1>14, TypeStep DEF TypeInv, HubInv
  <2> QED BY <1>15, <2>1
<1> HIDE DEF U
<1> QED BY <1>14, <1>17, <1>18, <1>19 DEF Dated

\* Spending is a number, and a day begins with none.
LEMMA SpentIs ==
  ASSUME TypeInv, NEW d \in Nat
  PROVE  Spent(d) \in Nat /\ ((\A x \in ledger : x.day < d) => Spent(d) = 0)
<1> DEFINE S == {row \in ledger : row.day >= d}
<1>1. IsFiniteSet(ledger) /\ S \in SUBSET ledger /\ \A x \in ledger : x.cost \in Nat /\ x.day \in Nat
  BY DEF TypeInv, HubInv
<1>2. IsFiniteSet(S) /\ \A x \in S : x.cost \in Nat
  BY <1>1, FS_Subset
<1>3. (\A x \in ledger : x.day < d) => S = {}
  BY <1>1
<1>4. Total(S) \in Nat /\ (S = {} => Total(S) = 0)
  <2> HIDE DEF S
  <2> QED BY <1>2, TotalIs
<1> QED BY <1>3, <1>4 DEF Spent

\* An alert is missing only while a check that will see the spend is running.
LEMMA AlertStep ==
  ASSUME TypeInv, AlertInv, [Next]_vars
  PROVE  AlertInv'
<1>1. Dated'
  BY DatedStep DEF AlertInv
<1>2. day \in Nat \ {0} /\ check \in [Handlers -> [at : Ats, day : 1..MaxDays]] /\ Threshold \in Nat \ {0}
  BY PriceAssumption DEF TypeInv, HubInv
<1>i. /\ (lastAlertDay # 0 => lastAlertDay \in alerted) /\ Watched
      /\ (Spent(day) >= Threshold /\ day \notin alerted => \E h \in Handlers : Looks(h))
  BY DEF AlertInv, Watched
<1> DEFINE Good == (lastAlertDay' # 0 => lastAlertDay' \in alerted') /\ Watched'
<1>3. ASSUME UNCHANGED <<day, ledger, check, lastAlertDay, alerted>> PROVE Good
  BY <1>3, <1>i DEF Watched, Spent, Looks
<1>4. ASSUME Midnight PROVE Good
  <2>1. \A x \in ledger : x.day < day + 1
    BY <1>2 DEF AlertInv, Dated, TypeInv, HubInv
  <2>2. Spent(day + 1) = 0
    BY <1>2, <2>1, SpentIs
  <2>3. Spent(day)' = 0
    BY <1>4, <2>2 DEF Midnight, Spent
  <2>4. Watched'
    BY <1>2, <2>3 DEF Watched
  <2> QED BY <1>4, <1>i, <2>4 DEF Midnight
<1>5. ASSUME Ingest \/ IngestOther PROVE Good
  <2>1. day' = day /\ lastAlertDay' = lastAlertDay /\ alerted' = alerted
    BY <1>5 DEF Ingest, IngestOther
  <2>2. \/ ledger' = ledger /\ check' = check
        \/ \E h \in Handlers : check' = [check EXCEPT ![h].at = "date"]
    BY <1>5 DEF Ingest, IngestOther, Checks, Handlers
  <2>3. Watched'
    <3>1. CASE ledger' = ledger /\ check' = check
      BY <3>1, <2>1, <1>i DEF Watched, Spent, Looks
    <3>2. ASSUME NEW h \in Handlers, check' = [check EXCEPT ![h].at = "date"] PROVE Watched'
      <4>1. Looks(h)'
        BY <3>2, <1>2 DEF Looks
      <4> QED BY <4>1 DEF Watched
    <3> QED BY <2>2, <3>1, <3>2
  <2> QED BY <1>i, <2>1, <2>3
<1>6. ASSUME NEW h \in Handlers, CheckDate(h) \/ CheckAlready(h) \/ CheckSum(h) \/ CheckMarks(h) PROVE Good
  <2>1. day' = day /\ ledger' = ledger
    BY <1>6 DEF CheckDate, CheckAlready, CheckSum, CheckMarks
  <2>2. Spent(day)' = Spent(day) /\ Spent(day) \in Nat
    BY <2>1, <1>2, SpentIs DEF Spent
  <2>3. lastAlertDay' # 0 => lastAlertDay' \in alerted'
    BY <1>6, <1>i DEF CheckDate, CheckAlready, CheckSum, CheckMarks
  <2>4. alerted \subseteq alerted'
    BY <1>6 DEF CheckDate, CheckAlready, CheckSum, CheckMarks
  <2>5. ASSUME Spent(day) >= Threshold, day \notin alerted' PROVE \E k \in Handlers : Looks(k)'
    <3>1. PICK k \in Handlers : Looks(k)
      BY <1>i, <2>4, <2>5
    <3>2. CASE k # h
      <4>1. check'[k] = check[k]
        BY <1>6, <1>2, <3>2 DEF CheckDate, CheckAlready, CheckSum, CheckMarks, Checks
      <4> QED BY <2>1, <3>1, <4>1 DEF Looks
    <3>3. CASE k = h /\ CheckDate(h)
      BY <3>3, <1>2, <2>1 DEF CheckDate, Looks
    <3>4. CASE k = h /\ CheckAlready(h)
      <4>1. check[h].day = day
        BY <3>1, <3>4 DEF CheckAlready, Checks, Looks
      <4>2. ~Already(h)
        BY <4>1, <2>4, <2>5, <1>i, <1>2 DEF Already
      <4> QED BY <4>1, <4>2, <3>4, <1>2, <2>1 DEF CheckAlready, Checks, Looks
    <3>5. CASE k = h /\ CheckSum(h)
      <4>1. check[h].day = day
        BY <3>1, <3>5 DEF CheckSum, Checks, Looks
      <4>2. ~(Spent(check[h].day) < Threshold)
        BY <4>1, <2>2, <2>5, <1>2
      <4> QED BY <4>1, <4>2, <3>5, <1>2, <2>1 DEF CheckSum, Checks, Looks
    <3>6. CASE k = h /\ CheckMarks(h)
      <4>1. check[h].day = day /\ alerted' = alerted \cup {check[h].day}
        BY <3>1, <3>6 DEF CheckMarks, Checks, Looks
      <4> QED BY <4>1, <2>5
    <3> QED BY <1>6, <3>2, <3>3, <3>4, <3>5, <3>6
  <2>6. Watched'
    BY <2>1, <2>2, <2>5 DEF Watched
  <2> QED BY <2>3, <2>6
<1>7. ASSUME NEW r \in Requests, Read(r) \/ Finish(r) \/ Queue(r) PROVE Good
  BY <1>3, <1>7 DEF Read, Finish, Queue, hub
<1>8. ASSUME FlushTakes \/ FlushSends \/ FlushReturns \/ Connect \/ Break \/ NoticeLoss \/ UNCHANGED vars PROVE Good
  BY <1>3, <1>8 DEF FlushTakes, FlushSends, FlushReturns, Connect, Break, NoticeLoss, hub, vars
<1>9. Good
  <2> HIDE DEF Good
  <2> QED BY <1>4, <1>5, <1>6, <1>7, <1>8 DEF Next
<1> QED BY <1>1, <1>9 DEF AlertInv

LEMMA AlertFirst == Init => AlertInv
<1> SUFFICES ASSUME Init PROVE AlertInv
  OBVIOUS
<1>1. TypeInv /\ ledger = {} /\ day = 1
  BY TypeFirst DEF Init
<1>2. Spent(day) = 0
  BY <1>1, SpentIs
<1>3. Watched
  BY <1>2, PriceAssumption DEF Watched
<1>4. Dated
  BY DEF Init, Dated
<1> QED BY <1>3, <1>4 DEF Init, AlertInv

\* Once no check is running, a day whose spend has reached the threshold has had
\* its alert, however ingests and midnight interleave (checkSpendThreshold).
THEOREM CrossingTheorem == Spec => []CrossingIsAlerted
<1>1. AlertInv => CrossingIsAlerted
  BY DEF AlertInv, Watched, Looks, CrossingIsAlerted
<1>2. Spec => []AlertInv
  BY AlertFirst, AlertStep, AlwaysTyped, PTL DEF Spec
<1> QED BY <1>1, <1>2, PTL

-----------------------------------------------------------------------------
(* The places of a response's usage.                                       *)

Has(rows, r) == {i \in DOMAIN rows : rows[i].req = r}
Count(rows, r) == Cardinality(Has(rows, r))
InWire(w, r) == UNION {{i} \X Has(w[i], r) : i \in DOMAIN w}
WireCount(w, r) == Cardinality(InWire(w, r))
InLedger(l, r) == {x \in l : x.of = r}
In(r, S) == IF r \in S THEN 1 ELSE 0

\* Rows that are given up are in history, if they were in one place only.
GaveUp(rows) == {row.req : row \in ToSet(rows)}

LEMMA CountIs ==
  ASSUME NEW rows \in Seq(RowType), NEW r
  PROVE  /\ IsFiniteSet(Has(rows, r)) /\ Count(rows, r) \in Nat
         /\ Has(rows, r) = {i \in 1..Len(rows) : rows[i].req = r} /\ Len(rows) \in Nat
         /\ (Count(rows, r) = 0 <=> r \notin GaveUp(rows))
<1>1. DOMAIN rows = 1..Len(rows) /\ Len(rows) \in Nat
  BY LenProperties
<1>2. Has(rows, r) \in SUBSET (1..Len(rows)) /\ IsFiniteSet(1..Len(rows))
  BY <1>1, FS_Interval DEF Has
<1>3. IsFiniteSet(Has(rows, r))
  BY <1>2, FS_Subset
<1>4. Count(rows, r) \in Nat /\ (Count(rows, r) = 0 <=> Has(rows, r) = {})
  BY <1>3, FS_CardinalityType, FS_EmptySet DEF Count
<1>5. Has(rows, r) = {} <=> r \notin GaveUp(rows)
  BY DEF Has, GaveUp, ToSet
<1> QED BY <1>1, <1>3, <1>4, <1>5 DEF Has

LEMMA CountNone == \A r : Count(<<>>, r) = 0
<1>1. \A r : Has(<<>>, r) = {}
  BY DEF Has
<1> QED BY <1>1, FS_EmptySet DEF Count

LEMMA CountOne ==
  ASSUME NEW row \in RowType, NEW r
  PROVE  Count(<<row>>, r) = IF row.req = r THEN 1 ELSE 0
<1>1. Has(<<row>>, r) = IF row.req = r THEN {1} ELSE {}
  BY DEF Has
<1> QED BY <1>1, FS_EmptySet, FS_Singleton DEF Count

LEMMA CountConcat ==
  ASSUME NEW a \in Seq(RowType), NEW b \in Seq(RowType), NEW r
  PROVE  Count(a \o b, r) = Count(a, r) + Count(b, r)
<1> DEFINE n == Len(a)
           T == {n + i : i \in Has(b, r)}
           f == [i \in Has(b, r) |-> n + i]
<1>1. /\ IsFiniteSet(Has(a, r)) /\ Has(a, r) = {i \in 1..n : a[i].req = r} /\ n \in Nat
      /\ IsFiniteSet(Has(b, r)) /\ Has(b, r) = {i \in 1..Len(b) : b[i].req = r} /\ Len(b) \in Nat
      /\ Count(a, r) \in Nat /\ Count(b, r) \in Nat
  BY CountIs
<1>2. a \o b \in Seq(RowType) /\ Len(a \o b) = n + Len(b)
      /\ \A i \in 1..(n + Len(b)) : (a \o b)[i] = IF i <= n THEN a[i] ELSE b[i - n]
  BY ConcatProperties
<1>3. Has(a \o b, r) = {i \in 1..(n + Len(b)) : (a \o b)[i].req = r}
  <2>1. DOMAIN (a \o b) = 1..(n + Len(b))
    BY <1>2, LenProperties
  <2> HIDE DEF n
  <2> QED BY <2>1, Zenon DEF Has
<1> HIDE DEF n
<1>4. Has(a \o b, r) = Has(a, r) \cup T
  <2>1. ASSUME NEW i \in Has(a \o b, r) PROVE i \in Has(a, r) \cup T
    <3>1. i \in 1..(n + Len(b)) /\ (a \o b)[i].req = r
      BY <1>3
    <3>2. CASE i <= n
      BY <3>1, <3>2, <1>1, <1>2
    <3>3. CASE ~(i <= n)
      <4>1. i - n \in 1..Len(b) /\ b[i - n].req = r /\ i = n + (i - n)
        BY <3>1, <3>3, <1>1, <1>2
      <4> QED BY <4>1, <1>1
    <3> QED BY <3>2, <3>3
  <2>2. ASSUME NEW i \in Has(a, r) PROVE i \in Has(a \o b, r)
    BY <1>1, <1>2, <1>3
  <2>3. ASSUME NEW i \in Has(b, r) PROVE n + i \in Has(a \o b, r)
    <3>1. i \in 1..Len(b) /\ b[i].req = r
      BY <1>1
    <3>2. n + i \in 1..(n + Len(b)) /\ ~(n + i <= n) /\ (n + i) - n = i
      BY <3>1, <1>1
    <3> QED BY <3>1, <3>2, <1>2, <1>3
  <2> QED BY <2>1, <2>2, <2>3
<1>5. Has(a, r) \cap T = {}
  BY <1>1
<1>6. f \in Bijection(Has(b, r), T)
  <2>1. \A i, j \in Has(b, r) : f[i] = f[j] => i = j
    BY <1>1
  <2>2. f \in [Has(b, r) -> T] /\ \A t \in T : \E i \in Has(b, r) : f[i] = t
    OBVIOUS
  <2> HIDE DEF f, T
  <2>3. f \in Injection(Has(b, r), T)
    BY <2>1, <2>2 DEF Injection, IsInjective
  <2>4. f \in Surjection(Has(b, r), T)
    BY <2>2 DEF Surjection
  <2> QED BY <2>3, <2>4 DEF Bijection
<1>7. IsFiniteSet(T) /\ Cardinality(T) = Count(b, r)
  <2> HIDE DEF f, T
  <2> QED BY <1>1, <1>6, FS_Bijection DEF ExistsBijection, Count
<1> HIDE DEF T
<1>8. Cardinality(Has(a, r) \cup T) = Cardinality(Has(a, r)) + Cardinality(T) - Cardinality({})
  BY <1>1, <1>5, <1>7, FS_Union
<1> QED BY <1>1, <1>4, <1>7, <1>8, FS_EmptySet DEF Count

LEMMA GivenUp ==
  ASSUME NEW rows \in Seq(RowType), NEW r, NEW S, Count(rows, r) + In(r, S) <= 1
  PROVE  In(r, S \cup GaveUp(rows)) = Count(rows, r) + In(r, S)
<1>1. Count(rows, r) \in Nat /\ (Count(rows, r) = 0 <=> r \notin GaveUp(rows))
  BY CountIs
<1> QED BY <1>1 DEF In

LEMMA WireIs ==
  ASSUME NEW w \in Seq(Seq(RowType)), NEW r
  PROVE  IsFiniteSet(InWire(w, r)) /\ WireCount(w, r) \in Nat
<1> DEFINE S == {{i} \X Has(w[i], r) : i \in DOMAIN w}
           f == [i \in DOMAIN w |-> {i} \X Has(w[i], r)]
<1>1. DOMAIN w = 1..Len(w) /\ Len(w) \in Nat /\ \A i \in DOMAIN w : w[i] \in Seq(RowType)
  BY LenProperties, ElementOfSeq
<1>2. IsFiniteSet(DOMAIN w)
  BY <1>1, FS_Interval
<1>3. f \in Surjection(DOMAIN w, S)
  BY DEF Surjection
<1>4. IsFiniteSet(S)
  <2> HIDE DEF f, S
  <2> QED BY <1>2, <1>3, FS_Surjection
<1>5. ASSUME NEW i \in DOMAIN w PROVE IsFiniteSet({i} \X Has(w[i], r))
  BY <1>1, CountIs, FS_Singleton, FS_Product
<1>6. \A s \in S : IsFiniteSet(s)
  BY <1>5
<1>7. IsFiniteSet(UNION S)
  <2> HIDE DEF S
  <2> QED BY <1>4, <1>6, FS_UNION
<1> QED BY <1>7, FS_CardinalityType DEF InWire, WireCount

LEMMA WireNone == \A r : WireCount(<<>>, r) = 0
<1>1. \A r : InWire(<<>>, r) = {}
  BY DEF InWire
<1> QED BY <1>1, FS_EmptySet DEF WireCount

\* One more batch under way.
LEMMA WireAppend ==
  ASSUME NEW w \in Seq(Seq(RowType)), NEW rows \in Seq(RowType), NEW r
  PROVE  WireCount(Append(w, rows), r) = WireCount(w, r) + Count(rows, r)
<1> DEFINE n == Len(w)
           v == Append(w, rows)
           T == {n + 1} \X Has(rows, r)
<1>1. v \in Seq(Seq(RowType)) /\ Len(v) = n + 1 /\ (\A i \in 1..n : v[i] = w[i]) /\ v[n + 1] = rows
  BY AppendProperties
<1>2. DOMAIN v = 1..(n + 1) /\ DOMAIN w = 1..n /\ n \in Nat
  BY <1>1, LenProperties
<1> HIDE DEF v, n
<1>3. InWire(v, r) = InWire(w, r) \cup T
  <2>1. InWire(v, r) = UNION {{i} \X Has(v[i], r) : i \in 1..(n + 1)}
    BY <1>2 DEF InWire
  <2>2. InWire(w, r) = UNION {{i} \X Has(w[i], r) : i \in 1..n}
    BY <1>2 DEF InWire
  <2>3. \A i \in 1..(n + 1) : i \in 1..n \/ i = n + 1
    BY <1>2
  <2>4. (\A i \in 1..n : i \in 1..(n + 1)) /\ n + 1 \in 1..(n + 1)
    BY <1>2
  <2> HIDE DEF Has
  <2>5. ASSUME NEW p \in InWire(v, r) PROVE p \in InWire(w, r) \cup T
    <3>1. PICK i \in 1..(n + 1) : p \in {i} \X Has(v[i], r)
      BY <2>1
    <3> QED BY <3>1, <2>2, <2>3, <1>1
  <2>6. ASSUME NEW p \in InWire(w, r) PROVE p \in InWire(v, r)
    <3>1. PICK i \in 1..n : p \in {i} \X Has(w[i], r)
      BY <2>2
    <3> QED BY <3>1, <2>1, <2>4, <1>1
  <2>7. ASSUME NEW p \in T PROVE p \in InWire(v, r)
    BY <2>1, <2>4, <1>1
  <2> QED BY <2>5, <2>6, <2>7
<1>4. InWire(w, r) \cap T = {}
  <2>1. n + 1 \notin 1..n
    BY <1>2
  <2> QED BY <2>1, <1>2 DEF InWire
<1>5. IsFiniteSet(T) /\ Cardinality(T) = Count(rows, r) /\ Count(rows, r) \in Nat
  <2>1. IsFiniteSet({n + 1}) /\ Cardinality({n + 1}) = 1 /\ IsFiniteSet(Has(rows, r)) /\ Count(rows, r) \in Nat
    BY FS_Singleton, CountIs
  <2>2. IsFiniteSet(T) /\ Cardinality(T) = 1 * Cardinality(Has(rows, r))
    BY <2>1, FS_Product
  <2> QED BY <2>1, <2>2 DEF Count
<1>6. IsFiniteSet(InWire(w, r)) /\ WireCount(w, r) \in Nat
  BY WireIs
<1> HIDE DEF T
<1>7. Cardinality(InWire(w, r) \cup T) = Cardinality(InWire(w, r)) + Cardinality(T) - Cardinality({})
  BY <1>4, <1>5, <1>6, FS_Union
<1> QED BY <1>3, <1>5, <1>6, <1>7, FS_EmptySet DEF WireCount, v

\* The first batch arrives.
LEMMA WireTail ==
  ASSUME NEW w \in Seq(Seq(RowType)), w # <<>>, NEW r
  PROVE  WireCount(w, r) = Count(Head(w), r) + WireCount(Tail(w), r)
<1> DEFINE v == Tail(w)
           S == {1} \X Has(Head(w), r)
           T == {<<p[1] + 1, p[2]>> : p \in InWire(v, r)}
           f == [p \in InWire(v, r) |-> <<p[1] + 1, p[2]>>]
<1>1. Head(w) \in Seq(RowType) /\ v \in Seq(Seq(RowType)) /\ Len(v) = Len(w) - 1 /\ \A i \in 1..Len(v) : v[i] = w[i + 1]
  BY HeadTailProperties
<1>2. DOMAIN w = 1..Len(w) /\ DOMAIN v = 1..(Len(w) - 1) /\ Len(w) \in Nat \ {0} /\ Head(w) = w[1]
  BY <1>1, LenProperties, EmptySeq
<1> HIDE DEF v
<1>3. \A p : p \in InWire(v, r) <=> \E i \in 1..(Len(w) - 1) : p \in {i} \X Has(w[i + 1], r)
  BY <1>1, <1>2 DEF InWire
<1>4. \A p : p \in InWire(w, r) <=> \E i \in 1..Len(w) : p \in {i} \X Has(w[i], r)
  BY <1>2 DEF InWire
<1>5. InWire(w, r) = S \cup T
  <2> HIDE DEF Has
  <2>1. ASSUME NEW p \in InWire(w, r) PROVE p \in S \cup T
    <3>1. PICK i \in 1..Len(w) : p \in {i} \X Has(w[i], r)
      BY <1>4
    <3>2. CASE i = 1
      BY <3>1, <3>2, <1>2
    <3>3. CASE i # 1
      <4>1. i - 1 \in 1..(Len(w) - 1) /\ (i - 1) + 1 = i
        BY <3>3, <1>2
      <4>2. p = <<i, p[2]>> /\ p[2] \in Has(w[i], r)
        BY <3>1
      <4>3. <<i - 1, p[2]>> \in {i - 1} \X Has(w[(i - 1) + 1], r)
        BY <4>1, <4>2
      <4>4. <<i - 1, p[2]>> \in InWire(v, r)
        BY <1>3, <4>1, <4>3
      <4>5. p = << <<i - 1, p[2]>>[1] + 1, <<i - 1, p[2]>>[2]>>
        BY <4>1, <4>2
      <4> QED BY <4>4, <4>5
    <3> QED BY <3>2, <3>3
  <2>2. ASSUME NEW p \in S PROVE p \in InWire(w, r)
    <3>1. 1 \in 1..Len(w)
      BY <1>2
    <3> QED BY <3>1, <1>2, <1>4
  <2>3. ASSUME NEW q \in InWire(v, r) PROVE <<q[1] + 1, q[2]>> \in InWire(w, r)
    <3>1. PICK i \in 1..(Len(w) - 1) : q \in {i} \X Has(w[i + 1], r)
      BY <1>3
    <3>2. i + 1 \in 1..Len(w) /\ <<q[1] + 1, q[2]>> \in {i + 1} \X Has(w[i + 1], r)
      BY <3>1, <1>2
    <3> QED BY <3>2, <1>4
  <2> QED BY <2>1, <2>2, <2>3
<1>6. \A p \in InWire(v, r) : p[1] \in Nat \ {0} /\ p = <<p[1], p[2]>>
  <2> SUFFICES ASSUME NEW p \in InWire(v, r) PROVE p[1] \in Nat \ {0} /\ p = <<p[1], p[2]>>
    OBVIOUS
  <2>1. PICK i \in 1..(Len(w) - 1) : p \in {i} \X Has(w[i + 1], r)
    BY <1>3
  <2> QED BY <2>1, <1>2
<1>7. S \cap T = {}
  BY <1>6
<1>8. f \in Bijection(InWire(v, r), T)
  <2>1. \A p, q \in InWire(v, r) : f[p] = f[q] => p = q
    BY <1>6
  <2>3. \A t \in T : \E p \in InWire(v, r) : f[p] = t
    OBVIOUS
  <2>4. f \in [InWire(v, r) -> T]
    OBVIOUS
  <2> HIDE DEF f, T
  <2>5. f \in Injection(InWire(v, r), T)
    BY <2>1, <2>4 DEF Injection, IsInjective
  <2>6. f \in Surjection(InWire(v, r), T)
    BY <2>3, <2>4 DEF Surjection
  <2> QED BY <2>5, <2>6 DEF Bijection
<1>9. IsFiniteSet(InWire(v, r)) /\ WireCount(v, r) \in Nat
  BY <1>1, WireIs
<1>10. IsFiniteSet(T) /\ Cardinality(T) = WireCount(v, r)
  <2> HIDE DEF f, T
  <2> QED BY <1>8, <1>9, FS_Bijection DEF ExistsBijection, WireCount
<1>11. IsFiniteSet(S) /\ Cardinality(S) = Count(Head(w), r) /\ Count(Head(w), r) \in Nat
  <2>1. IsFiniteSet({1}) /\ Cardinality({1}) = 1
    BY FS_Singleton
  <2>2. IsFiniteSet(Has(Head(w), r)) /\ Count(Head(w), r) \in Nat
    BY <1>1, CountIs
  <2>3. IsFiniteSet(S) /\ Cardinality(S) = 1 * Cardinality(Has(Head(w), r))
    BY <2>1, <2>2, FS_Product
  <2> QED BY <2>2, <2>3 DEF Count
<1> HIDE DEF S, T
<1>12. Cardinality(S \cup T) = Cardinality(S) + Cardinality(T) - Cardinality({})
  BY <1>7, <1>10, <1>11, FS_Union
<1> QED BY <1>5, <1>9, <1>10, <1>11, <1>12, FS_EmptySet DEF WireCount, v

\* What the ledger gains of one batch.
LEMMA LedgerIs ==
  ASSUME NEW l, IsFiniteSet(l), NEW rows \in Seq(RowType), NEW r,
         Count(rows, r) + Cardinality(InLedger(l, r)) <= 1
  PROVE  Cardinality(InLedger(l \cup Kept(rows), r)) = Count(rows, r) + Cardinality(InLedger(l, r))
<1>1. InLedger(l, r) \in SUBSET l
  BY DEF InLedger
<1>2. IsFiniteSet(InLedger(l, r)) /\ Cardinality(InLedger(l, r)) \in Nat
      /\ (Cardinality(InLedger(l, r)) = 0 <=> InLedger(l, r) = {})
  BY <1>1, FS_Subset, FS_CardinalityType, FS_EmptySet
<1>3. /\ Count(rows, r) \in Nat /\ (Count(rows, r) = 0 <=> r \notin GaveUp(rows))
      /\ Has(rows, r) = {i \in 1..Len(rows) : rows[i].req = r} /\ IsFiniteSet(Has(rows, r))
  BY CountIs
<1>4. ToSet(rows) = {rows[i] : i \in 1..Len(rows)}
  BY LenProperties DEF ToSet
<1>5. CASE Count(rows, r) = 0
  <2>1. \A x \in Kept(rows) : x.of # r
    BY <1>3, <1>5 DEF Kept, GaveUp
  <2>2. InLedger(l \cup Kept(rows), r) = InLedger(l, r)
    BY <2>1 DEF InLedger
  <2> QED BY <1>2, <1>5, <2>2
<1>6. CASE Count(rows, r) = 1 /\ InLedger(l, r) = {}
  <2>1. PICK i : Has(rows, r) = {i}
    BY <1>3, <1>6, FS_Singleton DEF Count
  <2>2. i \in 1..Len(rows) /\ rows[i].req = r /\ \A j \in 1..Len(rows) : rows[j].req = r => j = i
    BY <2>1, <1>3
  <2> DEFINE y == [of |-> rows[i].req, cost |-> Cost(rows[i]), day |-> rows[i].day]
  <2>3. \A x \in Kept(rows) : x.of = r => x = y
    <3> SUFFICES ASSUME NEW x \in Kept(rows), x.of = r PROVE x = y
      OBVIOUS
    <3>1. PICK j \in 1..Len(rows) : x = [of |-> rows[j].req, cost |-> Cost(rows[j]), day |-> rows[j].day]
      BY <1>4 DEF Kept
    <3>2. rows[j].req = r
      BY <3>1
    <3>3. j = i
      BY <2>2, <3>2
    <3> QED BY <3>1, <3>3
  <2>4. y \in Kept(rows) /\ y.of = r
    BY <1>4, <2>2 DEF Kept
  <2> HIDE DEF y
  <2>5. InLedger(l \cup Kept(rows), r) = {y}
    BY <1>6, <2>3, <2>4 DEF InLedger
  <2>6. Cardinality({y}) = 1
    BY FS_Singleton
  <2>7. Cardinality(InLedger(l, r)) = 0
    BY <1>2, <1>6
  <2>8. Cardinality(InLedger(l \cup Kept(rows), r)) = 1
    BY <2>5, <2>6
  <2>9. Count(rows, r) = 1
    BY <1>6
  <2> HIDE DEF InLedger
  <2> QED BY <2>7, <2>8, <2>9
<1> QED BY <1>2, <1>3, <1>5, <1>6

\* A batch under way is in the count of those under way.
LEMMA WireGaveUp ==
  ASSUME NEW w \in Seq(Seq(RowType)), NEW r
  PROVE  WireCount(w, r) = 0 <=> r \notin {row.req : row \in UNION {ToSet(w[i]) : i \in DOMAIN w}}
<1>1. \A i \in DOMAIN w : w[i] \in Seq(RowType)
  BY LenProperties, ElementOfSeq
<1>2. WireCount(w, r) = 0 <=> InWire(w, r) = {}
  BY WireIs, FS_EmptySet DEF WireCount
<1>3. InWire(w, r) = {} <=> \A i \in DOMAIN w : Has(w[i], r) = {}
  <2>1. ASSUME NEW i \in DOMAIN w, NEW j \in Has(w[i], r) PROVE InWire(w, r) # {}
    <3>1. <<i, j>> \in {i} \X Has(w[i], r)
      OBVIOUS
    <3>2. <<i, j>> \in InWire(w, r)
      BY <3>1 DEF InWire
    <3> QED BY <3>2
  <2>2. ASSUME NEW p \in InWire(w, r) PROVE \E i \in DOMAIN w : Has(w[i], r) # {}
    <3>1. PICK i \in DOMAIN w : p \in {i} \X Has(w[i], r)
      BY DEF InWire
    <3> QED BY <3>1
  <2> QED BY <2>1, <2>2
<1>4. \A i \in DOMAIN w : Has(w[i], r) = {} <=> \A row \in ToSet(w[i]) : row.req # r
  BY DEF Has, ToSet
<1> QED BY <1>2, <1>3, <1>4

Held(r) == IF at[r] = "buffer" THEN 1 ELSE 0
Told(r) == parser[r].row.key /\ parser[r].row.saw
Due(r) == IF at[r] # "read" /\ Told(r) THEN 1 ELSE 0

LEMMA PlacesIs ==
  ASSUME NEW r
  PROVE  Places(r) = Count(buf, r) + Count(flush.rows, r) + WireCount(wire, r)
                     + Cardinality(InLedger(ledger, r)) + In(r, lost) + Held(r)
BY DEF Places, Count, Has, WireCount, InWire, InLedger, In, Held

LEMMA PlacesType ==
  ASSUME TypeInv, NEW r
  PROVE  /\ Count(buf, r) \in Nat /\ Count(flush.rows, r) \in Nat /\ WireCount(wire, r) \in Nat
         /\ IsFiniteSet(ledger) /\ Cardinality(InLedger(ledger, r)) \in Nat /\ In(r, lost) \in {0, 1} /\ Held(r) \in {0, 1}
<1>1. buf \in Seq(RowType) /\ flush.rows \in Seq(RowType) /\ wire \in Seq(Seq(RowType)) /\ IsFiniteSet(ledger)
  BY DEF TypeInv, AgentInv, HubInv
<1>2. InLedger(ledger, r) \in SUBSET ledger
  BY DEF InLedger
<1>3. Cardinality(InLedger(ledger, r)) \in Nat
  BY <1>1, <1>2, FS_Subset, FS_CardinalityType
<1> QED BY <1>1, <1>3, CountIs, WireIs DEF In, Held

\* Rows that are emitted are under way or given up.
LEMMA EmitsCount ==
  ASSUME TypeInv, NEW rows \in Seq(RowType), Emits(rows), NEW r, Count(rows, r) + In(r, lost) <= 1
  PROVE  WireCount(wire', r) + In(r, lost') = WireCount(wire, r) + In(r, lost) + Count(rows, r)
<1>0. wire \in Seq(Seq(RowType)) /\ WireCount(wire, r) \in Nat /\ In(r, lost) \in {0, 1} /\ Count(rows, r) \in Nat
  BY PlacesType, CountIs DEF TypeInv, AgentInv
<1>1. CASE wire' = Append(wire, rows) /\ lost' = lost
  BY <1>0, <1>1, WireAppend
<1>2. CASE lost' = lost \cup GaveUp(rows) /\ wire' = wire
  <2>1. In(r, lost \cup GaveUp(rows)) = Count(rows, r) + In(r, lost)
    BY GivenUp
  <2> QED BY <1>0, <1>2, <2>1
<1> QED BY <1>1, <1>2 DEF Emits, GaveUp

\* Of rows that exceed the cap, the first are given up.
LEMMA DropCount ==
  ASSUME NEW more \in Seq(RowType), NEW over \in Nat, over <= Len(more), NEW r, NEW S,
         Count(more, r) + In(r, S) <= 1
  PROVE  Count(SubSeq(more, over + 1, Len(more)), r) + In(r, S \cup {more[i].req : i \in 1..over})
           = Count(more, r) + In(r, S)
<1> DEFINE a == SubSeq(more, 1, over)
           b == SubSeq(more, over + 1, Len(more))
<1>0. Len(more) \in Nat /\ \A i \in 1..Len(more) : more[i] \in RowType
  BY LenProperties, ElementOfSeq
<1>1. (\A i \in 1..over : more[i] \in RowType) /\ (\A i \in (over + 1)..Len(more) : more[i] \in RowType)
  BY <1>0
<1>2. a \in Seq(RowType) /\ Len(a) = over /\ \A i \in 1..over : a[i] = more[i]
  BY <1>0, <1>1
<1>3. b \in Seq(RowType)
  BY <1>0, <1>1, SubSeqProperties
<1>4. a \o b = more
  <2>1. SubSeq(more, 1, over) \o SubSeq(more, over + 1, Len(more)) = SubSeq(more, 1, Len(more))
    <3>1. 1 \in 1..(Len(more) + 1) /\ over \in (1 - 1)..Len(more) /\ Len(more) \in over..Len(more)
      BY <1>0
    <3> QED BY <3>1, ConcatAdjacentSubSeq
  <2> QED BY <2>1, SubSeqFull
<1>5. {more[i].req : i \in 1..over} = GaveUp(a)
  <2>1. DOMAIN a = 1..over
    BY <1>2, LenProperties
  <2> HIDE DEF a
  <2>2. ToSet(a) = {more[i] : i \in 1..over}
    BY <1>2, <2>1 DEF ToSet
  <2> QED BY <2>2 DEF GaveUp
<1> HIDE DEF a, b
<1>6. Count(more, r) = Count(a, r) + Count(b, r) /\ Count(a, r) \in Nat /\ Count(b, r) \in Nat
  <2>1. Count(a \o b, r) = Count(a, r) + Count(b, r)
    BY <1>2, <1>3, CountConcat
  <2>2. Count(a, r) \in Nat /\ Count(b, r) \in Nat
    BY <1>2, <1>3, CountIs
  <2> QED BY <1>4, <2>1, <2>2
<1>7. In(r, S) \in Nat
  BY DEF In
<1>8. In(r, S \cup GaveUp(a)) = Count(a, r) + In(r, S)
  BY <1>2, <1>6, <1>7, GivenUp
<1>9. In(r, S \cup {more[i].req : i \in 1..over}) = In(r, S \cup GaveUp(a))
  BY <1>5, Zenon
<1>10. Count(b, r) + In(r, S \cup {more[i].req : i \in 1..over}) = Count(more, r) + In(r, S)
  BY <1>6, <1>7, <1>8, <1>9
<1> QED BY <1>10 DEF b

\* The places of one response are as many as they are due, before and after.
Sound(r) == Places(r) = Due(r)

LEMMA MeteredStep ==
  ASSUME TypeInv, [Next]_vars, NEW q \in Requests, Sound(q)
  PROVE  Sound(q)'
<1> DEFINE B == Count(buf, q)
           F == Count(flush.rows, q)
           W == WireCount(wire, q)
           L == Cardinality(InLedger(ledger, q))
           G == In(q, lost)
           H == Held(q)
<1>1. B \in Nat /\ F \in Nat /\ W \in Nat /\ L \in Nat /\ G \in {0, 1} /\ H \in {0, 1} /\ Due(q) \in {0, 1}
  BY PlacesType DEF Due
<1>2. B + F + W + L + G + H = Due(q)
  BY PlacesIs DEF Sound
<1>3. Places(q)' = Count(buf', q) + Count(flush'.rows, q) + WireCount(wire', q)
                   + Cardinality(InLedger(ledger', q)) + In(q, lost') + Held(q)'
  BY DEF Places, Count, Has, WireCount, InWire, InLedger, In, Held
<1>t. /\ buf \in Seq(RowType) /\ flush.rows \in Seq(RowType) /\ wire \in Seq(Seq(RowType))
      /\ held \in [Requests -> Seq(RowType)] /\ DOMAIN at = Requests /\ DOMAIN parser = Requests
      /\ flush \in [at : {"idle", "send", "back"}, rows : Seq(RowType)]
  BY DEF TypeInv, MeterInv, AgentInv
<1>n. Count(buf', q) \in Nat /\ Count(flush'.rows, q) \in Nat /\ WireCount(wire', q) \in Nat /\ In(q, lost') \in {0, 1}
  <2>1. buf' \in Seq(RowType) /\ flush'.rows \in Seq(RowType) /\ wire' \in Seq(Seq(RowType))
    BY TypeStep DEF TypeInv, AgentInv
  <2> QED BY <2>1, CountIs, WireIs DEF In
<1> HIDE DEF B, F, W, L, G, H
\* Nothing but the agent's buffers moves, and what one of them loses another gains.
<1>4. ASSUME parser' = parser, at' = at, ledger' = ledger,
             Count(buf', q) + Count(flush'.rows, q) + WireCount(wire', q) + In(q, lost') = B + F + W + G
      PROVE  Sound(q)'
  <2>1. Held(q)' = H /\ Due(q)' = Due(q) /\ Cardinality(InLedger(ledger', q)) = L
    BY <1>4 DEF Held, Due, Told, H, L
  <2> QED BY <1>1, <1>2, <1>3, <1>4, <1>n, <2>1 DEF Sound
<1>5. ASSUME NEW r \in Requests, Read(r) PROVE Sound(q)'
  <2>1. at[r] = "read" /\ at' = at /\ buf' = buf /\ flush' = flush /\ wire' = wire /\ ledger' = ledger /\ lost' = lost
        /\ \A p \in Requests : p # r => parser'[p] = parser[p]
    BY <1>5, <1>t DEF Read, agent, hub
  <2>2. Due(q)' = Due(q)
    BY <2>1 DEF Due, Told
  <2>3. Places(q)' = B + F + W + L + G + H
    BY <2>1, <1>3 DEF B, F, W, L, G, H, Held
  <2> QED BY <1>2, <2>2, <2>3 DEF Sound
<1>6. ASSUME NEW r \in Requests, Finish(r) PROVE Sound(q)'
  <2>1. at[r] = "read" /\ parser' = parser /\ buf' = buf /\ flush' = flush /\ ledger' = ledger
    BY <1>6 DEF Finish, hub
  <2>2. Count(buf', q) = B /\ Count(flush'.rows, q) = F /\ Cardinality(InLedger(ledger', q)) = L /\ Told(q)' = Told(q)
    BY <2>1 DEF B, F, L, Told
  <2> DEFINE new == Count(<<Row(r)>>, q)
  <2>3. <<Row(r)>> \in Seq(RowType) /\ new = IF q = r THEN 1 ELSE 0
    BY RowTyped, CountOne DEF TypeInv
  <2> HIDE DEF new
  <2>4. q = r => Due(q) = 0 /\ H = 0
    BY <2>1 DEF Due, H, Held
  <2>5. q = r => G = 0
    BY <1>1, <1>2, <2>4
  <2>6. CASE Told(r) /\ Emits(<<Row(r)>>) /\ at' = [at EXCEPT ![r] = "done"]
    <3>1. new + G <= 1
      BY <1>1, <2>3, <2>5
    <3>2. WireCount(wire', q) + In(q, lost') = W + G + new
      BY <2>3, <2>6, <3>1, EmitsCount DEF new, W, G
    <3>3. CASE q = r
      <4>1. Held(q)' = 0 /\ Due(q)' = 1
        BY <1>t, <2>2, <2>6, <3>3 DEF Held, Due
      <4> QED BY <1>1, <1>2, <1>3, <1>n, <2>2, <2>3, <2>4, <3>2, <3>3, <4>1 DEF Sound
    <3>4. CASE q # r
      <4>1. Held(q)' = H /\ Due(q)' = Due(q)
        BY <1>t, <2>2, <2>6, <3>4 DEF Held, Due, H
      <4> QED BY <1>1, <1>2, <1>3, <1>n, <2>2, <2>3, <3>2, <3>4, <4>1 DEF Sound
    <3> QED BY <3>3, <3>4
  <2>7. CASE Told(r) /\ wire' = wire /\ lost' = lost /\ at' = [at EXCEPT ![r] = "buffer"]
    <3>1. WireCount(wire', q) = W /\ In(q, lost') = G
      BY <2>7 DEF W, G
    <3>2. CASE q = r
      <4>1. Held(q)' = 1 /\ Due(q)' = 1
        BY <1>t, <2>2, <2>7, <3>2 DEF Held, Due
      <4> QED BY <1>1, <1>2, <1>3, <2>2, <2>4, <3>1, <3>2, <4>1 DEF Sound
    <3>3. CASE q # r
      <4>1. Held(q)' = H /\ Due(q)' = Due(q)
        BY <1>t, <2>2, <2>7, <3>3 DEF Held, Due, H
      <4> QED BY <1>2, <1>3, <2>2, <3>1, <4>1 DEF Sound
    <3> QED BY <3>2, <3>3
  <2>8. CASE ~Told(r) /\ wire' = wire /\ lost' = lost /\ at' = [at EXCEPT ![r] = "done"]
    <3>1. WireCount(wire', q) = W /\ In(q, lost') = G
      BY <2>8 DEF W, G
    <3>2. Held(q)' = H /\ Due(q)' = Due(q)
      <4>1. CASE q = r
        <5>1. Held(q)' = 0 /\ Due(q)' = 0
          BY <1>t, <2>2, <2>8, <4>1 DEF Held, Due
        <5> QED BY <5>1, <2>4, <4>1
      <4>2. CASE q # r
        BY <1>t, <2>2, <2>8, <4>2 DEF Held, Due, H
      <4> QED BY <4>1, <4>2
    <3> QED BY <1>2, <1>3, <2>2, <3>1, <3>2 DEF Sound
  <2> QED BY <1>6, <2>6, <2>7, <2>8 DEF Finish, NotEmitted, Told
<1>7. ASSUME NEW r \in Requests, Queue(r) PROVE Sound(q)'
  <2> DEFINE more == buf \o held[r]
             over == Len(more) - BufferCap
  <2>1. /\ at[r] = "buffer" /\ parser' = parser /\ flush' = flush /\ wire' = wire /\ ledger' = ledger
        /\ at' = [at EXCEPT ![r] = "done"]
        /\ buf' = IF over > 0 THEN SubSeq(more, over + 1, Len(more)) ELSE more
        /\ lost' = IF over > 0 THEN lost \cup {more[i].req : i \in 1..over} ELSE lost
    BY <1>7 DEF Queue, hub
  <2>2. Count(flush'.rows, q) = F /\ WireCount(wire', q) = W /\ Cardinality(InLedger(ledger', q)) = L
        /\ Told(q)' = Told(q)
    BY <2>1 DEF F, W, L, Told
  <2>3. Count(held[r], q) = IF q = r THEN 1 ELSE 0
    <3>1. held[r] \in Seq(RowType) /\ Len(held[r]) = 1 /\ held[r][1].req = r
      BY <2>1 DEF TypeInv, MeterInv
    <3>2. held[r][1] \in RowType
      BY <3>1, ElementOfSeq
    <3>3. held[r] = <<held[r][1]>>
      BY <3>1
    <3> QED BY <3>1, <3>2, <3>3, CountOne
  <2>4. more \in Seq(RowType) /\ Count(more, q) = B + Count(held[r], q)
    BY <1>t, ConcatProperties, CountConcat DEF B
  <2> HIDE DEF more
  <2>5. Held(q)' = H - Count(held[r], q) /\ Due(q)' = Due(q)
    <3>1. CASE q = r
      BY <1>t, <2>1, <2>2, <2>3, <3>1 DEF Held, Due, H
    <3>2. CASE q # r
      <4>1. Held(q)' = H /\ Due(q)' = Due(q)
        BY <1>t, <2>1, <2>2, <3>2 DEF Held, Due, H
      <4> QED BY <4>1, <1>1, <2>3, <3>2
    <3> QED BY <3>1, <3>2
  <2>6. q = r => H = 1
    BY <2>1 DEF H, Held
  <2>7. Count(more, q) + G <= 1
    BY <1>1, <1>2, <2>3, <2>4, <2>6
  <2>8. Count(buf', q) + In(q, lost') = Count(more, q) + G
    <3>1. CASE over > 0
      <4>1. over \in Nat /\ over <= Len(more)
        <5>1. Len(more) \in Nat /\ BufferCap \in Nat
          BY <2>4, LenProperties, BoundAssumption
        <5> QED BY <5>1, <3>1
      <4> HIDE DEF over
      <4>2. Count(SubSeq(more, over + 1, Len(more)), q) + In(q, lost \cup {more[i].req : i \in 1..over})
              = Count(more, q) + In(q, lost)
        BY <2>4, <2>7, <4>1, DropCount DEF G
      <4>3. buf' = SubSeq(more, over + 1, Len(more)) /\ lost' = lost \cup {more[i].req : i \in 1..over}
        BY <2>1, <3>1
      <4> QED BY <4>2, <4>3, Zenon DEF G
    <3>2. CASE ~(over > 0)
      BY <2>1, <3>2 DEF G
    <3> QED BY <3>1, <3>2
  <2> DEFINE X == Count(buf', q)
             Y == In(q, lost')
             C == Count(held[r], q)
  <2>9. X \in Nat /\ Y \in Nat /\ C \in Nat /\ X + Y = B + C + G
    BY <1>n, <2>3, <2>4, <2>8
  <2>10. Places(q)' = X + F + W + L + Y + (H - C)
    BY <1>3, <2>2, <2>5
  <2> HIDE DEF X, Y, C
  <2>11. X + F + W + L + Y + (H - C) = B + F + W + L + G + H
    BY <1>1, <2>9
  <2>12. Due(q)' = Due(q)
    BY <2>5
  <2> QED BY <1>2, <2>10, <2>11, <2>12 DEF Sound
<1>8. ASSUME FlushTakes PROVE Sound(q)'
  <2>1. flush.rows = <<>> /\ flush'.rows = buf /\ buf' = <<>> /\ wire' = wire /\ lost' = lost
        /\ parser' = parser /\ at' = at /\ ledger' = ledger
    BY <1>8 DEF FlushTakes, meter, hub, TypeInv, AgentInv
  <2>2. F = 0 /\ Count(buf', q) = 0 /\ Count(flush'.rows, q) = B /\ WireCount(wire', q) = W /\ In(q, lost') = G
    BY <2>1, CountNone DEF F, B, W, G
  <2> QED BY <1>1, <1>4, <2>1, <2>2
<1>9. ASSUME FlushSends PROVE Sound(q)'
  <2>1. buf' = buf /\ parser' = parser /\ at' = at /\ ledger' = ledger
    BY <1>9 DEF FlushSends, meter, hub
  <2>2. Count(buf', q) = B
    BY <2>1 DEF B
  <2>3. CASE Emits(flush.rows) /\ flush' = [at |-> "idle", rows |-> <<>>]
    <3>1. F + G <= 1
      BY <1>1, <1>2
    <3>2. WireCount(wire', q) + In(q, lost') = W + G + F
      BY <1>t, <2>3, <3>1, EmitsCount DEF F, G, W
    <3>3. Count(flush'.rows, q) = 0
      BY <2>3, CountNone
    <3> QED BY <1>1, <1>4, <1>n, <2>1, <2>2, <3>2, <3>3
  <2>4. CASE NotEmitted /\ flush' = [flush EXCEPT !.at = "back"]
    <3>1. flush'.rows = flush.rows /\ wire' = wire /\ lost' = lost
      BY <1>t, <2>4 DEF NotEmitted
    <3>2. Count(flush'.rows, q) = F /\ WireCount(wire', q) = W /\ In(q, lost') = G
      BY <3>1 DEF F, W, G
    <3> QED BY <1>4, <2>1, <2>2, <3>2
  <2> QED BY <1>9, <2>3, <2>4 DEF FlushSends
<1>10. ASSUME FlushReturns PROVE Sound(q)'
  <2>1. flush'.rows = <<>> /\ buf' = flush.rows \o buf /\ wire' = wire /\ lost' = lost
        /\ parser' = parser /\ at' = at /\ ledger' = ledger
    BY <1>10 DEF FlushReturns, PutBack, meter, hub
  <2>2. Count(buf', q) = F + B
    BY <1>t, <2>1, CountConcat DEF F, B
  <2>3. Count(flush'.rows, q) = 0 /\ WireCount(wire', q) = W /\ In(q, lost') = G
    BY <2>1, CountNone DEF W, G
  <2> QED BY <1>1, <1>4, <2>1, <2>2, <2>3
<1>11. ASSUME Break PROVE Sound(q)'
  <2>1. buf' = buf /\ flush' = flush /\ wire' = <<>> /\ parser' = parser /\ at' = at /\ ledger' = ledger
        /\ lost' = lost \cup {row.req : row \in UNION {ToSet(wire[i]) : i \in DOMAIN wire}}
    BY <1>11 DEF Break, meter, hub
  <2>2. Count(buf', q) = B /\ Count(flush'.rows, q) = F /\ WireCount(wire', q) = 0
    BY <2>1, WireNone DEF B, F
  <2>3. In(q, lost') = W + G
    <3>1. W = 0 <=> q \notin {row.req : row \in UNION {ToSet(wire[i]) : i \in DOMAIN wire}}
      BY <1>t, WireGaveUp DEF W
    <3>2. W + G <= 1
      BY <1>1, <1>2
    <3>3. CASE W = 0
      <4>1. q \in lost' <=> q \in lost
        BY <2>1, <3>1, <3>3
      <4> QED BY <1>1, <3>3, <4>1 DEF In, G
    <3>4. CASE W # 0
      <4>1. q \in lost'
        BY <2>1, <3>1, <3>4
      <4>2. W = 1 /\ G = 0
        BY <1>1, <3>2, <3>4
      <4> QED BY <4>1, <4>2 DEF In
    <3> QED BY <3>3, <3>4
  <2> QED BY <1>1, <1>4, <2>1, <2>2, <2>3
<1>12. ASSUME Ingest PROVE Sound(q)'
  <2>1. /\ wire # <<>> /\ wire' = Tail(wire) /\ buf' = buf /\ flush' = flush /\ parser' = parser /\ at' = at
    BY <1>12 DEF Ingest, meter
  <2>2. Count(buf', q) = B /\ Count(flush'.rows, q) = F /\ Held(q)' = H /\ Due(q)' = Due(q)
    BY <2>1 DEF B, F, H, Held, Due, Told
  <2>3. Head(wire) \in Seq(RowType) /\ Tail(wire) \in Seq(Seq(RowType))
    BY <1>t, <2>1, HeadTailProperties
  <2> DEFINE K == Count(Head(wire), q)
  <2>4. W = K + WireCount(wire', q) /\ K \in Nat /\ WireCount(wire', q) \in Nat
    BY <1>t, <2>1, <2>3, WireTail, CountIs, WireIs DEF W
  <2> HIDE DEF K
  <2>5. CASE ledger' = ledger \cup Kept(Head(wire)) /\ lost' = lost
    <3>1. K + L <= 1
      BY <1>1, <1>2, <2>4
    <3>2. IsFiniteSet(ledger)
      BY PlacesType
    <3>3. Cardinality(InLedger(ledger', q)) = K + L
      BY <2>3, <2>5, <3>1, <3>2, LedgerIs DEF K, L
    <3>4. In(q, lost') = G
      BY <2>5 DEF G
    <3> QED BY <1>1, <1>2, <1>3, <2>2, <2>4, <3>3, <3>4 DEF Sound
  <2>6. CASE ledger' = ledger /\ lost' = lost \cup GaveUp(Head(wire))
    <3>1. K + G <= 1
      BY <1>1, <1>2, <2>4
    <3>2. In(q, lost') = K + G
      BY <2>3, <2>6, <3>1, GivenUp DEF K, G
    <3>3. Cardinality(InLedger(ledger', q)) = L
      BY <2>6 DEF L
    <3> QED BY <1>1, <1>2, <1>3, <2>2, <2>4, <3>2, <3>3 DEF Sound
  <2> QED BY <1>12, <2>5, <2>6 DEF Ingest, Kept, GaveUp
<1>13. ASSUME parser' = parser, at' = at, buf' = buf, flush' = flush, wire' = wire, lost' = lost,
              InLedger(ledger', q) = InLedger(ledger, q)
       PROVE  Sound(q)'
  <2>1. Due(q)' = Due(q) /\ Held(q)' = H
    BY <1>13 DEF Due, Told, Held, H
  <2>2. Places(q)' = B + F + W + L + G + H
    BY <1>3, <1>13, <2>1 DEF B, F, W, L, G
  <2> QED BY <1>2, <2>1, <2>2 DEF Sound
<1>14. ASSUME IngestOther PROVE Sound(q)'
  <2>1. others' \in 1..MaxOther
    BY <1>14, BoundAssumption DEF IngestOther, TypeInv, HubInv
  <2>2. q # others'
    BY <2>1, KindAssumption
  <2>3. ledger' = ledger \cup {[of |-> others', cost |-> 1, day |-> day]}
    BY <1>14 DEF IngestOther
  <2>4. InLedger(ledger', q) = InLedger(ledger, q)
    BY <2>2, <2>3 DEF InLedger
  <2> QED BY <1>13, <1>14, <2>4 DEF IngestOther, meter, agent
<1>15. ASSUME Connect \/ NoticeLoss \/ Midnight \/ UNCHANGED vars PROVE Sound(q)'
  BY <1>13, <1>15 DEF Connect, NoticeLoss, Midnight, meter, agent, hub, vars
<1>16. ASSUME NEW h \in Handlers, CheckDate(h) \/ CheckAlready(h) \/ CheckSum(h) \/ CheckMarks(h) PROVE Sound(q)'
  BY <1>13, <1>16 DEF CheckDate, CheckAlready, CheckSum, CheckMarks, meter, agent
<1> QED BY <1>5, <1>6, <1>7, <1>8, <1>9, <1>10, <1>11, <1>12, <1>14, <1>15, <1>16 DEF Next

LEMMA MeteredFirst ==
  ASSUME Init, NEW r \in Requests
  PROVE  Sound(r)
<1>1. buf = <<>> /\ flush.rows = <<>> /\ wire = <<>> /\ lost = {} /\ ledger = {} /\ at[r] = "read"
  BY DEF Init
<1>2. Cardinality(InLedger(ledger, r)) = 0
  <2>1. InLedger(ledger, r) = {}
    BY <1>1 DEF InLedger
  <2> QED BY <2>1, FS_EmptySet
<1>3. Count(buf, r) = 0 /\ Count(flush.rows, r) = 0 /\ WireCount(wire, r) = 0
  BY <1>1, CountNone, WireNone
<1>4. In(r, lost) = 0 /\ Held(r) = 0 /\ Due(r) = 0
  BY <1>1 DEF In, Held, Due
<1> QED BY <1>2, <1>3, <1>4, PlacesIs DEF Sound

\* A finished response's usage is in one place: its handler, the buffer, a flush,
\* under way, in the ledger, or given up (queueProxyRows and flushProxyRows).
THEOREM MeteredTheorem == Spec => []MeteredOnce
<1>1. MeteredOnce <=> \A r \in Requests : Sound(r)
  BY DEF MeteredOnce, Sound, Due, Told
<1>2. Init => MeteredOnce
  BY <1>1, MeteredFirst
<1>3. TypeInv /\ MeteredOnce /\ [Next]_vars => MeteredOnce'
  <2> SUFFICES ASSUME TypeInv, MeteredOnce, [Next]_vars PROVE \A r \in Requests : Sound(r)'
    BY DEF MeteredOnce, Sound, Due, Told
  <2> QED BY <1>1, MeteredStep
<1> QED BY <1>2, <1>3, AlwaysTyped, PTL DEF Spec

-----------------------------------------------------------------------------
(* The log of an app (LogStream).                                          *)

CONSTANTS Kinds, MaxPieces, TailN, MaxChunk, QueueCap, ChanCap, MaxRotations
VARIABLES kind, written, file, rotations, down, up, entry, canceled, follower, offset, partial, viewer, broken,
          channel, seen, turned, torn, missed

Log == INSTANCE LogStream

LEMMA SameSplit == \A t : Log!Split(t) = Split(t)
BY Zenon DEF Log!Split, Split, Log!Extend, Extend, Log!NoText, NoText, Log!FoldLeft, FoldLeft, Log!Max, Max,
             Log!MapThenFoldSet, MapThenFoldSet

LEMMA SameSet == \A s : Log!ToSet(s) = ToSet(s)
BY Zenon DEF Log!ToSet, ToSet

\* A line in order, and whole unless a first read or a rotation cut it.
Inc(l) == \A i, j \in DOMAIN l : i < j => l[i] < l[j]
Whole(l, T) == ToSet(l) \cap T = {} => Len(l) = 2 /\ l[1] + 1 = l[2]
Fine(T) == {l \in Seq(1..MaxPieces) : Inc(l) /\ Whole(l, T)}
Batch(T) == {c \in [lines : Seq(Fine(T)), eof : BOOLEAN] : Len(c.lines) <= MaxChunk + TailN}

\* The lines of a batch, and the batches of a queue, are in order.
Before(X, Y) == \A x \in X, y \in Y : x < y
LineSet(L) == UNION {ToSet(L[i]) : i \in DOMAIN L}
QueueSet(q) == UNION {LineSet(q[i].lines) : i \in DOMAIN q}
LinesInc(L) == \A i, j \in DOMAIN L : i < j => Before(ToSet(L[i]), ToSet(L[j]))
QueueInc(q) ==
  /\ \A i \in DOMAIN q : LinesInc(q[i].lines)
  /\ \A i, j \in DOMAIN q : i < j => Before(LineSet(q[i].lines), LineSet(q[j].lines))

Unread == {file[i] : i \in {j \in DOMAIN file : j > offset \/ turned}}
Shown == LineSet(seen) \cup QueueSet(channel) \cup QueueSet(up)

FileInv ==
  /\ kind \in Kinds /\ written \in 0..MaxPieces /\ rotations \in 0..MaxRotations
  /\ file \in Seq(1..MaxPieces) /\ Len(file) <= written
  /\ \A i \in 1..Len(file) : file[i] = written - Len(file) + i
  /\ ((written - Len(file)) % 2 = 0) \/ (file = <<>> /\ written = MaxPieces)

\* The agent is told once to follow, and reads nothing before.
ViewInv ==
  /\ down \in Seq({"follow", "cancel"})
  /\ viewer \in {"none", "open", "gone"} /\ follower \in {"none", "first", "poll", "ended"}
  /\ viewer = "none" => follower = "none"
  /\ \A i \in DOMAIN down : down[i] = "follow" => follower = "none" /\ viewer # "none"
  /\ \A i, j \in DOMAIN down : down[i] = "follow" /\ down[j] = "follow" => i = j
  /\ follower \in {"none", "first"} => Shown = {} /\ partial = <<>> /\ offset = 0

\* What is queued is typed and bounded.
QueueInv ==
  /\ seen \in Seq(Fine(torn)) /\ up \in Seq(Batch(torn)) /\ channel \in Seq(Batch(torn))
  /\ Len(up) <= QueueCap /\ Len(channel) <= ChanCap

\* From what was seen to what is still to be read, pieces increase.
OrderInv ==
  /\ LinesInc(seen) /\ QueueInc(channel) /\ QueueInc(up)
  /\ Before(LineSet(seen), QueueSet(channel)) /\ Before(LineSet(seen) \cup QueueSet(channel), QueueSet(up))
  /\ Before(Shown, ToSet(partial) \cup Unread) /\ Before(ToSet(partial), Unread)
  /\ Shown \cup ToSet(partial) \subseteq 1..written

\* Where the next read begins in a line, the rest of that line is in partial, or
\* the line is cut.
CutInv ==
  /\ partial \in Seq(1..MaxPieces) /\ offset \in 0..MaxPieces /\ torn \subseteq 1..(MaxPieces + 1)
  /\ follower = "poll" =>
       /\ partial = <<>> \/ (offset % 2 = 1 /\ Len(partial) = 1 /\ partial[1] % 2 = 1)
       /\ ~turned => offset <= Len(file)
       /\ ~turned /\ offset % 2 = 1 => partial = <<file[offset]>> \/ (partial = <<>> /\ file[offset] + 1 \in torn)

FlagInv ==
  /\ entry \in BOOLEAN /\ canceled \in BOOLEAN /\ turned \in BOOLEAN /\ broken \in BOOLEAN /\ missed \in BOOLEAN
  /\ conn \in {"up", "lost", "none"}

LogInv == FileInv /\ ViewInv /\ QueueInv /\ OrderInv /\ CutInv /\ FlagInv

LEMMA InLines ==
  ASSUME NEW S, NEW L \in Seq(S)
  PROVE  /\ DOMAIN L = 1..Len(L) /\ Len(L) \in Nat
         /\ \A x : x \in LineSet(L) <=> \E i \in 1..Len(L) : x \in ToSet(L[i])
<1>1. DOMAIN L = 1..Len(L) /\ Len(L) \in Nat
  BY LenProperties
<1> QED BY <1>1 DEF LineSet

LEMMA InQueue ==
  ASSUME NEW S, NEW q \in Seq(S)
  PROVE  /\ DOMAIN q = 1..Len(q) /\ Len(q) \in Nat
         /\ \A x : x \in QueueSet(q) <=> \E i \in 1..Len(q) : x \in LineSet(q[i].lines)
<1>1. DOMAIN q = 1..Len(q) /\ Len(q) \in Nat
  BY LenProperties
<1> QED BY <1>1 DEF QueueSet

\* A part of a sequence of lines is in order if the whole is.
LEMMA LinesPart ==
  ASSUME NEW S, NEW L \in Seq(S), NEW M \in Seq(S), NEW d \in Nat,
         \A i \in 1..Len(M) : i + d \in 1..Len(L) /\ M[i] = L[i + d]
  PROVE  LineSet(M) \subseteq LineSet(L) /\ (LinesInc(L) => LinesInc(M))
<1>1. LineSet(M) \subseteq LineSet(L)
  <2> SUFFICES ASSUME NEW x \in LineSet(M) PROVE x \in LineSet(L)
    OBVIOUS
  <2>1. PICK i \in 1..Len(M) : x \in ToSet(M[i])
    BY InLines
  <2>2. i + d \in 1..Len(L) /\ x \in ToSet(L[i + d])
    BY <2>1
  <2> QED BY <2>2, InLines
<1>2. ASSUME LinesInc(L) PROVE LinesInc(M)
  <2> SUFFICES ASSUME NEW i \in 1..Len(M), NEW j \in 1..Len(M), i < j PROVE Before(ToSet(M[i]), ToSet(M[j]))
    BY InLines DEF LinesInc
  <2>1. i + d \in DOMAIN L /\ j + d \in DOMAIN L /\ i + d < j + d
    BY InLines
  <2>2. Before(ToSet(L[i + d]), ToSet(L[j + d]))
    BY <1>2, <2>1 DEF LinesInc
  <2> QED BY <2>2
<1> QED BY <1>1, <1>2

LEMMA QueuePart ==
  ASSUME NEW S, NEW q \in Seq(S), NEW p \in Seq(S), NEW d \in Nat,
         \A i \in 1..Len(p) : i + d \in 1..Len(q) /\ p[i] = q[i + d]
  PROVE  QueueSet(p) \subseteq QueueSet(q) /\ (QueueInc(q) => QueueInc(p))
<1>1. QueueSet(p) \subseteq QueueSet(q)
  <2> SUFFICES ASSUME NEW x \in QueueSet(p) PROVE x \in QueueSet(q)
    OBVIOUS
  <2>1. PICK i \in 1..Len(p) : x \in LineSet(p[i].lines)
    BY InQueue
  <2>2. i + d \in 1..Len(q) /\ x \in LineSet(q[i + d].lines)
    BY <2>1
  <2> QED BY <2>2, InQueue
<1>2. ASSUME QueueInc(q) PROVE QueueInc(p)
  <2>0. DOMAIN p = 1..Len(p) /\ Len(p) \in Nat /\ DOMAIN q = 1..Len(q)
    BY InQueue
  <2>1. ASSUME NEW i \in 1..Len(p) PROVE LinesInc(p[i].lines)
    <3>1. i + d \in DOMAIN q /\ p[i] = q[i + d]
      BY <2>0
    <3> QED BY <1>2, <3>1 DEF QueueInc
  <2>2. ASSUME NEW i \in 1..Len(p), NEW j \in 1..Len(p), i < j
        PROVE  Before(LineSet(p[i].lines), LineSet(p[j].lines))
    <3>1. i + d \in DOMAIN q /\ j + d \in DOMAIN q /\ i + d < j + d /\ p[i] = q[i + d] /\ p[j] = q[j + d]
      BY <2>0, <2>2
    <3> QED BY <1>2, <3>1 DEF QueueInc
  <2> QED BY <2>0, <2>1, <2>2 DEF QueueInc
<1> QED BY <1>1, <1>2

LEMMA LinesConcat ==
  ASSUME NEW S, NEW L \in Seq(S), NEW M \in Seq(S)
  PROVE  /\ LineSet(L \o M) = LineSet(L) \cup LineSet(M)
         /\ LinesInc(L) /\ LinesInc(M) /\ Before(LineSet(L), LineSet(M)) => LinesInc(L \o M)
<1> DEFINE all == L \o M
<1>1. all \in Seq(S) /\ Len(all) = Len(L) + Len(M)
      /\ \A i \in 1..(Len(L) + Len(M)) : all[i] = IF i <= Len(L) THEN L[i] ELSE M[i - Len(L)]
  BY ConcatProperties
<1>2. DOMAIN L = 1..Len(L) /\ Len(L) \in Nat /\ DOMAIN M = 1..Len(M) /\ Len(M) \in Nat
  BY InLines
<1> HIDE DEF all
<1>3. ASSUME NEW x \in LineSet(all) PROVE x \in LineSet(L) \cup LineSet(M)
  <2>1. PICK i \in 1..Len(all) : x \in ToSet(all[i])
    BY <1>1, InLines
  <2>2. CASE i <= Len(L)
    <3>1. i \in 1..Len(L) /\ x \in ToSet(L[i])
      BY <1>1, <1>2, <2>1, <2>2
    <3> QED BY <3>1, InLines
  <2>3. CASE ~(i <= Len(L))
    <3>1. i - Len(L) \in 1..Len(M) /\ x \in ToSet(M[i - Len(L)])
      BY <1>1, <1>2, <2>1, <2>3
    <3> QED BY <3>1, InLines
  <2> QED BY <2>2, <2>3
<1>4. ASSUME NEW x \in LineSet(L) PROVE x \in LineSet(all)
  <2>1. PICK i \in 1..Len(L) : x \in ToSet(L[i])
    BY InLines
  <2>2. i \in 1..Len(all) /\ all[i] = L[i]
    BY <1>1, <1>2
  <2> QED BY <1>1, <2>1, <2>2, InLines
<1>5. ASSUME NEW x \in LineSet(M) PROVE x \in LineSet(all)
  <2>1. PICK i \in 1..Len(M) : x \in ToSet(M[i])
    BY InLines
  <2>2. i + Len(L) \in 1..Len(all) /\ all[i + Len(L)] = M[i]
    BY <1>1, <1>2
  <2> QED BY <1>1, <2>1, <2>2, InLines
<1>6. ASSUME LinesInc(L), LinesInc(M), Before(LineSet(L), LineSet(M)) PROVE LinesInc(all)
  <2> SUFFICES ASSUME NEW i \in 1..(Len(L) + Len(M)), NEW j \in 1..(Len(L) + Len(M)), i < j
               PROVE  Before(ToSet(all[i]), ToSet(all[j]))
    BY <1>1, InLines DEF LinesInc
  <2>1. CASE j <= Len(L)
    <3>1. i \in DOMAIN L /\ j \in DOMAIN L /\ all[i] = L[i] /\ all[j] = L[j]
      BY <1>1, <1>2, <2>1
    <3> QED BY <1>6, <3>1 DEF LinesInc
  <2>2. CASE ~(i <= Len(L))
    <3>1. i - Len(L) \in DOMAIN M /\ j - Len(L) \in DOMAIN M /\ i - Len(L) < j - Len(L)
          /\ all[i] = M[i - Len(L)] /\ all[j] = M[j - Len(L)]
      BY <1>1, <1>2, <2>2
    <3> QED BY <1>6, <3>1 DEF LinesInc
  <2>3. CASE i <= Len(L) /\ ~(j <= Len(L))
    <3>1. i \in 1..Len(L) /\ j - Len(L) \in 1..Len(M) /\ all[i] = L[i] /\ all[j] = M[j - Len(L)]
      BY <1>1, <1>2, <2>3
    <3>2. ToSet(L[i]) \subseteq LineSet(L) /\ ToSet(M[j - Len(L)]) \subseteq LineSet(M)
      BY <3>1, InLines
    <3> QED BY <1>6, <3>1, <3>2 DEF Before
  <2> QED BY <1>2, <2>1, <2>2, <2>3
<1> QED BY <1>3, <1>4, <1>5, <1>6 DEF all

LEMMA QueueConcat ==
  ASSUME NEW S, NEW q \in Seq(S), NEW p \in Seq(S)
  PROVE  /\ QueueSet(q \o p) = QueueSet(q) \cup QueueSet(p)
         /\ QueueInc(q) /\ QueueInc(p) /\ Before(QueueSet(q), QueueSet(p)) => QueueInc(q \o p)
<1> DEFINE all == q \o p
<1>1. all \in Seq(S) /\ Len(all) = Len(q) + Len(p)
      /\ \A i \in 1..(Len(q) + Len(p)) : all[i] = IF i <= Len(q) THEN q[i] ELSE p[i - Len(q)]
  BY ConcatProperties
<1>2. DOMAIN q = 1..Len(q) /\ Len(q) \in Nat /\ DOMAIN p = 1..Len(p) /\ Len(p) \in Nat
  BY InQueue
<1> HIDE DEF all
<1>3. ASSUME NEW x \in QueueSet(all) PROVE x \in QueueSet(q) \cup QueueSet(p)
  <2>1. PICK i \in 1..Len(all) : x \in LineSet(all[i].lines)
    BY <1>1, InQueue
  <2>2. CASE i <= Len(q)
    <3>1. i \in 1..Len(q) /\ x \in LineSet(q[i].lines)
      BY <1>1, <1>2, <2>1, <2>2
    <3> QED BY <3>1, InQueue
  <2>3. CASE ~(i <= Len(q))
    <3>1. i - Len(q) \in 1..Len(p) /\ x \in LineSet(p[i - Len(q)].lines)
      BY <1>1, <1>2, <2>1, <2>3
    <3> QED BY <3>1, InQueue
  <2> QED BY <2>2, <2>3
<1>4. ASSUME NEW x \in QueueSet(q) PROVE x \in QueueSet(all)
  <2>1. PICK i \in 1..Len(q) : x \in LineSet(q[i].lines)
    BY InQueue
  <2>2. i \in 1..Len(all) /\ all[i] = q[i]
    BY <1>1, <1>2
  <2> QED BY <1>1, <2>1, <2>2, InQueue
<1>5. ASSUME NEW x \in QueueSet(p) PROVE x \in QueueSet(all)
  <2>1. PICK i \in 1..Len(p) : x \in LineSet(p[i].lines)
    BY InQueue
  <2>2. i + Len(q) \in 1..Len(all) /\ all[i + Len(q)] = p[i]
    BY <1>1, <1>2
  <2> QED BY <1>1, <2>1, <2>2, InQueue
<1>6. ASSUME QueueInc(q), QueueInc(p), Before(QueueSet(q), QueueSet(p)) PROVE QueueInc(all)
  <2>0. DOMAIN all = 1..(Len(q) + Len(p))
    BY <1>1, InQueue
  <2>1. ASSUME NEW i \in 1..(Len(q) + Len(p)) PROVE LinesInc(all[i].lines)
    <3>1. CASE i <= Len(q)
      BY <1>1, <1>2, <1>6, <3>1 DEF QueueInc
    <3>2. CASE ~(i <= Len(q))
      <4>1. i - Len(q) \in DOMAIN p /\ all[i] = p[i - Len(q)]
        BY <1>1, <1>2, <3>2
      <4> QED BY <1>6, <4>1 DEF QueueInc
    <3> QED BY <3>1, <3>2
  <2>2. ASSUME NEW i \in 1..(Len(q) + Len(p)), NEW j \in 1..(Len(q) + Len(p)), i < j
        PROVE  Before(LineSet(all[i].lines), LineSet(all[j].lines))
    <3>1. CASE j <= Len(q)
      <4>1. i \in DOMAIN q /\ j \in DOMAIN q /\ all[i] = q[i] /\ all[j] = q[j]
        BY <1>1, <1>2, <2>2, <3>1
      <4> QED BY <1>6, <2>2, <4>1 DEF QueueInc
    <3>2. CASE ~(i <= Len(q))
      <4>1. i - Len(q) \in DOMAIN p /\ j - Len(q) \in DOMAIN p /\ i - Len(q) < j - Len(q)
            /\ all[i] = p[i - Len(q)] /\ all[j] = p[j - Len(q)]
        BY <1>1, <1>2, <2>2, <3>2
      <4> QED BY <1>6, <4>1 DEF QueueInc
    <3>3. CASE i <= Len(q) /\ ~(j <= Len(q))
      <4>1. i \in 1..Len(q) /\ j - Len(q) \in 1..Len(p) /\ all[i] = q[i] /\ all[j] = p[j - Len(q)]
        BY <1>1, <1>2, <3>3
      <4>2. LineSet(q[i].lines) \subseteq QueueSet(q) /\ LineSet(p[j - Len(q)].lines) \subseteq QueueSet(p)
        BY <4>1, InQueue
      <4> QED BY <1>6, <4>1, <4>2 DEF Before
    <3> QED BY <1>2, <2>2, <3>1, <3>2, <3>3
  <2> QED BY <2>0, <2>1, <2>2 DEF QueueInc
<1> QED BY <1>3, <1>4, <1>5, <1>6 DEF all

\* What is sent comes after what was queued, and the queue stays in order.
LEMMA SendKeeps ==
  ASSUME Log!Sizes, NEW T, up \in Seq(Batch(T)), Len(up) <= QueueCap, QueueInc(up), missed \in BOOLEAN,
         NEW new \in Seq(Batch(T)), QueueInc(new), Before(QueueSet(up), QueueSet(new)), Log!Send(new)
  PROVE  /\ up' \in Seq(Batch(T)) /\ Len(up') <= QueueCap /\ QueueInc(up') /\ missed' \in BOOLEAN
         /\ QueueSet(up') \subseteq QueueSet(up) \cup QueueSet(new)
<1>1. CASE conn # "up"
  BY <1>1 DEF Log!Send
<1>2. CASE conn = "up"
  <2> DEFINE all == up \o new
             over == Len(all) - QueueCap
  <2>1. up' = (IF over > 0 THEN SubSeq(all, over + 1, Len(all)) ELSE all) /\ missed' = (missed \/ over > 0)
    BY <1>2 DEF Log!Send
  <2> DEFINE B == Batch(T)
  <2>2. up \in Seq(B) /\ new \in Seq(B)
    OBVIOUS
  <2> HIDE DEF B
  <2>3. all \in Seq(B) /\ QueueInc(all) /\ QueueSet(all) = QueueSet(up) \cup QueueSet(new)
    BY <2>2, ConcatProperties, QueueConcat
  <2> HIDE DEF all
  <2>4. Len(all) \in Nat /\ (\A i \in 1..Len(all) : all[i] \in B) /\ QueueCap \in Nat \ {0}
    BY <2>3, LenProperties, ElementOfSeq DEF Log!Sizes
  <2>5. CASE over > 0
    <3>1. \A i \in (over + 1)..Len(all) : all[i] \in B
      BY <2>4, <2>5
    <3>2. /\ SubSeq(all, over + 1, Len(all)) \in Seq(B)
          /\ Len(SubSeq(all, over + 1, Len(all))) = IF over + 1 <= Len(all) THEN Len(all) - (over + 1) + 1 ELSE 0
          /\ \A i \in 1..(Len(all) - (over + 1) + 1) : SubSeq(all, over + 1, Len(all))[i] = all[over + 1 + i - 1]
      <4>1. over + 1 \in Int /\ Len(all) \in Int
        BY <2>4
      <4> HIDE DEF over
      <4> QED BY <4>1, <3>1, SubSeqProperties
    <3>3. Len(up') = QueueCap /\ up' \in Seq(B) /\ \A i \in 1..QueueCap : up'[i] = all[i + over]
      <4>1. up' = SubSeq(all, over + 1, Len(all))
        BY <2>1, <2>5
      <4>2. Len(all) - (over + 1) + 1 = QueueCap /\ over + 1 <= Len(all)
        BY <2>4
      <4>3. \A i \in 1..QueueCap : over + 1 + i - 1 = i + over
        BY <2>4
      <4> HIDE DEF over
      <4> QED BY <3>2, <4>1, <4>2, <4>3
    <3>4. over \in Nat /\ \A i \in 1..Len(up') : i + over \in 1..Len(all) /\ up'[i] = all[i + over]
      BY <2>4, <2>5, <3>3
    <3> HIDE DEF over
    <3>5. QueueSet(up') \subseteq QueueSet(all) /\ QueueInc(up')
      BY <2>3, <3>3, <3>4, QueuePart
    <3>6. Len(up') <= QueueCap
      BY <2>4, <3>3
    <3>7. missed' \in BOOLEAN
      BY <2>1
    <3> QED BY <2>3, <3>3, <3>5, <3>6, <3>7 DEF B
  <2>6. CASE ~(over > 0)
    <3>1. up' = all /\ Len(all) <= QueueCap
      BY <2>1, <2>4, <2>6
    <3>2. missed' \in BOOLEAN
      BY <2>1
    <3> QED BY <2>3, <3>1, <3>2 DEF B
  <2> QED BY <2>5, <2>6
<1> QED BY <1>1, <1>2

LEMMA TimesMono ==
  ASSUME NEW M \in Nat, NEW a \in Int, NEW b \in Int, a <= b
  PROVE  a * M <= b * M
OBVIOUS

\* Chunks of lines in order are batches in order.
LEMMA ChunksKeep ==
  ASSUME Log!Sizes, NEW T, NEW L \in Seq(Fine(T)), LinesInc(L)
  PROVE  /\ Log!Chunks(L) \in Seq(Batch(T)) /\ QueueInc(Log!Chunks(L))
         /\ QueueSet(Log!Chunks(L)) \subseteq LineSet(L)
<1> DEFINE M == MaxChunk
           n == Len(L)
           k == (n + M - 1) \div M
           top(c) == IF c * M < n THEN c * M ELSE n
           part(c) == SubSeq(L, (c - 1) * M + 1, top(c))
           q == [c \in 1..k |-> [lines |-> part(c), eof |-> FALSE]]
<1>1. Log!Chunks(L) = q
  BY DEF Log!Chunks, Log!Chunk
<1>2. M \in Nat \ {0} /\ TailN \in Nat \ {0} /\ n \in Nat
  BY LenProperties DEF Log!Sizes
<1> HIDE DEF M, n
<1>3. k \in Nat
  BY <1>2
<1> HIDE DEF k
<1>4. ASSUME NEW c \in 1..k
      PROVE  /\ (c - 1) * M \in Nat /\ c * M = (c - 1) * M + M /\ c * M \in Nat
             /\ top(c) \in Nat /\ top(c) <= n /\ top(c) <= c * M
  <2>1. (c - 1) * M \in Nat /\ c * M = (c - 1) * M + M
    BY <1>2, <1>3
  <2> QED BY <1>2, <2>1
<1>5. ASSUME NEW c \in 1..k
      PROVE  /\ part(c) \in Seq(Fine(T)) /\ Len(part(c)) <= M
             /\ \A i \in 1..Len(part(c)) :
                  i + (c - 1) * M \in 1..n /\ i + (c - 1) * M <= c * M /\ part(c)[i] = L[i + (c - 1) * M]
  <2> DEFINE a == (c - 1) * M
             b == top(c)
  <2>1. a \in Nat /\ b \in Nat /\ b <= n /\ b <= a + M /\ c * M = a + M
    BY <1>4
  <2> DEFINE F == Fine(T)
  <2>2. L \in Seq(F)
    OBVIOUS
  <2> HIDE DEF a, b, F, top
  <2>3. \A i \in (a + 1)..b : L[i] \in F
    BY <2>1, <2>2, <1>2, ElementOfSeq DEF n
  <2>4. /\ SubSeq(L, a + 1, b) \in Seq(F)
        /\ Len(SubSeq(L, a + 1, b)) = IF a + 1 <= b THEN b - (a + 1) + 1 ELSE 0
        /\ \A i \in 1..(b - (a + 1) + 1) : SubSeq(L, a + 1, b)[i] = L[a + 1 + i - 1]
    <3>1. a + 1 \in Int /\ b \in Int
      BY <2>1
    <3> QED BY <2>3, <3>1, SubSeqProperties
  <2>5. Len(SubSeq(L, a + 1, b)) <= M
    BY <1>2, <2>1, <2>4
  <2>6. ASSUME NEW i \in 1..Len(SubSeq(L, a + 1, b))
        PROVE  i + a \in 1..n /\ i + a <= c * M /\ SubSeq(L, a + 1, b)[i] = L[i + a]
    <3>1. i \in 1..(b - (a + 1) + 1) /\ a + 1 + i - 1 = i + a
      BY <2>1, <2>4
    <3>2. i + a \in 1..n /\ i + a <= c * M
      BY <1>2, <2>1, <3>1
    <3> QED BY <2>4, <3>1, <3>2
  <2>7. part(c) = SubSeq(L, a + 1, b)
    BY DEF a, b
  <2> HIDE DEF part
  <2> QED BY <2>4, <2>5, <2>6, <2>7 DEF a, F
<1> HIDE DEF top, part
<1>6. ASSUME NEW c \in 1..k PROVE LinesInc(part(c)) /\ LineSet(part(c)) \subseteq LineSet(L)
  <2>1. (c - 1) * M \in Nat
    BY <1>4
  <2> DEFINE d == (c - 1) * M
  <2>2. d \in Nat /\ part(c) \in Seq(Fine(T)) /\ \A i \in 1..Len(part(c)) : i + d \in 1..Len(L) /\ part(c)[i] = L[i + d]
    BY <2>1, <1>5 DEF n
  <2> HIDE DEF d
  <2> QED BY <2>2, LinesPart
<1>7. ASSUME NEW c \in 1..k, NEW e \in 1..k, c < e PROVE Before(LineSet(part(c)), LineSet(part(e)))
  <2> SUFFICES ASSUME NEW x \in LineSet(part(c)), NEW y \in LineSet(part(e)) PROVE x < y
    BY DEF Before
  <2>1. PICK i \in 1..Len(part(c)) : x \in ToSet(part(c)[i])
    BY <1>5, InLines
  <2>2. PICK j \in 1..Len(part(e)) : y \in ToSet(part(e)[j])
    BY <1>5, InLines
  <2>3. c * M <= (e - 1) * M /\ c * M \in Nat /\ (e - 1) * M \in Nat
    BY <1>2, <1>3, <1>4, <1>7, TimesMono
  <2>4. /\ i + (c - 1) * M \in 1..n /\ i + (c - 1) * M <= c * M /\ part(c)[i] = L[i + (c - 1) * M]
        /\ j + (e - 1) * M \in 1..n /\ part(e)[j] = L[j + (e - 1) * M] /\ j >= 1
    BY <1>5
  <2> DEFINE u == i + (c - 1) * M
             v == j + (e - 1) * M
  <2>5. Len(part(e)) \in Nat
    BY <1>5, LenProperties
  <2>6. u \in DOMAIN L /\ v \in DOMAIN L /\ u < v
    <3>1. DOMAIN L = 1..n
      BY InLines DEF n
    <3>2. u \in Int /\ u <= c * M
      BY <2>4, <1>2
    <3>3. c * M < v
      BY <2>3, <2>4, <2>5
    <3> HIDE DEF u, v
    <3>4. u < v
      <4>1. v \in Int
        BY <2>4 DEF v
      <4> QED BY <2>3, <3>2, <3>3, <4>1
    <3> QED BY <2>4, <3>1, <3>4 DEF u, v
  <2> HIDE DEF u, v
  <2>7. Before(ToSet(L[u]), ToSet(L[v]))
    BY <2>6 DEF LinesInc
  <2>8. part(c)[i] = L[u] /\ part(e)[j] = L[v]
    BY <2>4 DEF u, v
  <2> QED BY <2>1, <2>2, <2>7, <2>8 DEF Before
<1>8. \A c \in 1..k : q[c].lines = part(c) /\ q[c] \in Batch(T)
  <2> SUFFICES ASSUME NEW c \in 1..k PROVE q[c].lines = part(c) /\ q[c] \in Batch(T)
    OBVIOUS
  <2>1. part(c) \in Seq(Fine(T)) /\ Len(part(c)) <= M /\ Len(part(c)) \in Nat
    BY <1>5, LenProperties
  <2>2. Len(part(c)) <= MaxChunk + TailN
    BY <2>1, <1>2 DEF M
  <2> QED BY <2>1, <2>2 DEF Batch
<1>9. q \in Seq(Batch(T)) /\ Len(q) = k /\ DOMAIN q = 1..k
  <2> DEFINE B == Batch(T)
  <2>1. \A c \in 1..k : q[c] \in B
    BY <1>8
  <2> HIDE DEF B
  <2>2. q \in [1..k -> B]
    BY <2>1
  <2>3. q \in Seq(B) /\ Len(q) = k
    BY <2>2, <1>3
  <2> QED BY <2>3 DEF B
<1> HIDE DEF q
<1>10. QueueInc(q)
  BY <1>6, <1>7, <1>8, <1>9 DEF QueueInc
<1>11. QueueSet(q) \subseteq LineSet(L)
  BY <1>6, <1>8, <1>9, InQueue
<1> QED BY <1>1, <1>9, <1>10, <1>11

LEMMA PairSet ==
  ASSUME NEW a, NEW b
  PROVE  ToSet(<<a, b>>) = {a, b} /\ ToSet(<<a>>) = {a} /\ ToSet(<<>>) = {}
<1>1. DOMAIN <<a, b>> = {1, 2} /\ DOMAIN <<a>> = {1} /\ DOMAIN <<>> = {}
  OBVIOUS
<1>2. <<a, b>>[1] = a /\ <<a, b>>[2] = b /\ <<a>>[1] = a
  OBVIOUS
<1> QED BY <1>1, <1>2 DEF ToSet

\* A pair in a row is a whole line.
LEMMA PairFine ==
  ASSUME NEW a \in 1..MaxPieces, a + 1 \in 1..MaxPieces, NEW T
  PROVE  <<a, a + 1>> \in Fine(T)
<1> DEFINE l == <<a, a + 1>>
<1>1. l \in Seq(1..MaxPieces) /\ Len(l) = 2 /\ l[1] = a /\ l[2] = a + 1 /\ DOMAIN l = {1, 2}
  OBVIOUS
<1> HIDE DEF l
<1>2. Inc(l)
  BY <1>1 DEF Inc
<1>3. Whole(l, T)
  BY <1>1 DEF Whole
<1>4. l \in Fine(T)
  BY <1>1, <1>2, <1>3 DEF Fine
<1> QED BY <1>4 DEF l

LEMMA PairsFine ==
  ASSUME MaxPieces \in Nat, NEW k \in Nat, NEW m \in Nat, 2 * (k + m) <= MaxPieces, NEW T
  PROVE  /\ Pairs(k, m) \in Seq(Fine(T)) /\ LinesInc(Pairs(k, m))
         /\ LineSet(Pairs(k, m)) \subseteq (2 * k + 1)..(2 * (k + m))
<1> DEFINE P == Pairs(k, m)
           F == Fine(T)
<1>1. ASSUME NEW j \in 1..m
      PROVE  P[j] = <<2 * (k + j) - 1, 2 * (k + j)>> /\ P[j] \in F
  <2>1. P[j] = <<2 * (k + j) - 1, 2 * (k + j)>>
    BY DEF Pairs
  <2> DEFINE a == 2 * (k + j) - 1
  <2>2. a \in 1..MaxPieces /\ a + 1 \in 1..MaxPieces /\ a + 1 = 2 * (k + j)
    OBVIOUS
  <2> HIDE DEF a, P
  <2>3. <<a, a + 1>> \in Fine(T)
    BY <2>2, PairFine
  <2> QED BY <2>1, <2>2, <2>3 DEF a
<1>2. P \in Seq(F) /\ Len(P) = m /\ DOMAIN P = 1..m
  <2> HIDE DEF F
  <2>1. P \in [1..m -> F]
    BY <1>1 DEF Pairs
  <2> HIDE DEF P
  <2> QED BY <2>1
<1> HIDE DEF P
<1>3. ASSUME NEW j \in 1..m PROVE ToSet(P[j]) = {2 * (k + j) - 1, 2 * (k + j)}
  BY <1>1, PairSet
<1>4. LinesInc(P)
  <2> SUFFICES ASSUME NEW i \in 1..m, NEW j \in 1..m, i < j PROVE Before(ToSet(P[i]), ToSet(P[j]))
    BY <1>2 DEF LinesInc
  <2> QED BY <1>3 DEF Before
<1>5. LineSet(P) \subseteq (2 * k + 1)..(2 * (k + m))
  <2> SUFFICES ASSUME NEW x \in LineSet(P) PROVE x \in (2 * k + 1)..(2 * (k + m))
    OBVIOUS
  <2>1. PICK j \in 1..m : x \in ToSet(P[j])
    BY <1>2, InLines
  <2>2. x = 2 * (k + j) - 1 \/ x = 2 * (k + j)
    BY <1>3, <2>1
  <2> QED BY <2>2
<1> QED BY <1>2, <1>4, <1>5 DEF P, F

\* A read of t is lines of the pieces X in order, and what is left over of n.
ReadsTo(t, X, n, T) ==
  /\ Split(t).rest = Rest(n)
  /\ Split(t).lines \in Seq(Fine(T)) /\ LinesInc(Split(t).lines)
  /\ LineSet(Split(t).lines) \cup ToSet(Rest(n)) \subseteq X
  /\ Before(LineSet(Split(t).lines), ToSet(Rest(n)))

LEMMA RestIs ==
  ASSUME NEW k \in Nat, NEW n \in Nat, n >= 2 * k
  PROVE  /\ ToSet(Rest(n)) \subseteq ((2 * k + 1)..n)
         /\ Rest(n) = <<>> \/ (Rest(n) = <<n>> /\ n % 2 = 1)
         /\ Before(1..(2 * (n \div 2)), ToSet(Rest(n)))
         /\ (n - 2 * k) \div 2 \in Nat /\ k + (n - 2 * k) \div 2 = n \div 2 /\ 2 * (n \div 2) <= n
<1>1. (n - 2 * k) \div 2 \in Nat /\ k + (n - 2 * k) \div 2 = n \div 2 /\ 2 * (n \div 2) <= n
  OBVIOUS
<1>2. CASE n % 2 = 1
  <2>1. Rest(n) = <<n>> /\ ToSet(Rest(n)) = {n}
    BY <1>2, PairSet DEF Rest
  <2>2. n \in (2 * k + 1)..n /\ 2 * (n \div 2) < n /\ n \div 2 \in Nat
    BY <1>2
  <2>3. Before(1..(2 * (n \div 2)), {n})
    BY <2>2 DEF Before
  <2> QED BY <1>1, <1>2, <2>1, <2>2, <2>3
<1>3. CASE n % 2 # 1
  <2>1. Rest(n) = <<>> /\ ToSet(Rest(n)) = {}
    BY <1>3, PairSet DEF Rest
  <2> QED BY <1>1, <2>1 DEF Before
<1> QED BY <1>2, <1>3

LEMMA RunReads ==
  ASSUME MaxPieces \in Nat, NEW k, NEW n, NEW t, RunFrom(t, 0, k, n), n <= MaxPieces, NEW T
  PROVE  ReadsTo(t, (2 * k + 1)..n, n, T)
<1> DEFINE m == (n - 2 * k) \div 2
<1>1. k \in Nat /\ n \in Nat /\ n >= 2 * k
  BY DEF RunFrom
<1>2. m \in Nat /\ 2 * (k + m) <= n /\ k + m = n \div 2
  BY <1>1, RestIs
<1>3. Split(t).lines = Pairs(k, m) /\ Split(t).rest = Rest(n)
  BY SplitOfRun
<1> HIDE DEF m
<1>4. /\ Pairs(k, m) \in Seq(Fine(T)) /\ LinesInc(Pairs(k, m))
      /\ LineSet(Pairs(k, m)) \subseteq (2 * k + 1)..(2 * (k + m))
  <2>1. 2 * (k + m) <= MaxPieces
    BY <1>1, <1>2
  <2> QED BY <1>1, <1>2, <2>1, PairsFine
<1>5. LineSet(Pairs(k, m)) \subseteq (2 * k + 1)..n /\ LineSet(Pairs(k, m)) \subseteq 1..(2 * (n \div 2))
  BY <1>1, <1>2, <1>4
<1>6. ToSet(Rest(n)) \subseteq ((2 * k + 1)..n) /\ Before(1..(2 * (n \div 2)), ToSet(Rest(n)))
  BY <1>1, RestIs
<1>7. Before(LineSet(Pairs(k, m)), ToSet(Rest(n)))
  BY <1>5, <1>6 DEF Before
<1> QED BY <1>3, <1>4, <1>5, <1>6, <1>7 DEF ReadsTo

\* A text's first line is l, which ends with the 2k-th piece: one that ends
\* what is left over, or one whose beginning was not read.
CutFirst(t, l, k) ==
  /\ t \in Seq(Int) /\ k \in Nat
  /\ \/ l = <<2 * k>> /\ Len(t) >= 1 /\ t[1] = 2 * k
     \/ \E p \in Int : p % 2 = 1 /\ l = <<p, 2 * k>> /\ Len(t) >= 2 /\ t[1] = p /\ t[2] = 2 * k

LEMMA CutEnds ==
  ASSUME NEW t, NEW l, NEW k, CutFirst(t, l, k), NEW st, SplitRuns(st, t)
  PROVE  EndsAt(st, Len(l), <<l>>)
<1>0. t \in Seq(Int) /\ k \in Nat /\ Len(t) \in Nat
  BY LenProperties DEF CutFirst
<1>1. st[0] = Text(<<>>, <<>>) /\ \A i \in 1..Len(t) : st[i] = Extend(st[i - 1], t[i])
  BY DEF SplitRuns, NoText, Text
<1>2. (2 * k) % 2 = 0 /\ 2 * k \in Int
  BY <1>0
<1>3. CASE l = <<2 * k>> /\ Len(t) >= 1 /\ t[1] = 2 * k
  <2>1. st[1] = Extend(Text(<<>>, <<>>), 2 * k)
    <3>1. 1 \in 1..Len(t) /\ 1 - 1 = 0
      BY <1>0, <1>3
    <3> QED BY <1>1, <1>3, <3>1
  <2>2. st[1] = Text(Append(<<>>, Append(<<>>, 2 * k)), <<>>)
    <3> DEFINE p == 2 * k
    <3>1. p % 2 = 0 /\ st[1] = Extend(Text(<<>>, <<>>), p)
      BY <1>2, <2>1
    <3> HIDE DEF p
    <3>2. st[1] = Text(Append(<<>>, Append(<<>>, p)), <<>>)
      BY <3>1, ExtendIs
    <3> QED BY <3>2 DEF p
  <2>3. Append(<<>>, Append(<<>>, 2 * k)) = <<l>> /\ <<l>> \in Seq(Seq(Int)) /\ Len(l) = 1
    BY <1>2, <1>3
  <2> QED BY <2>2, <2>3 DEF EndsAt
<1>4. CASE \E p \in Int : p % 2 = 1 /\ l = <<p, 2 * k>> /\ Len(t) >= 2 /\ t[1] = p /\ t[2] = 2 * k
  <2>0. PICK p \in Int : p % 2 = 1 /\ l = <<p, 2 * k>> /\ Len(t) >= 2 /\ t[1] = p /\ t[2] = 2 * k
    BY <1>4
  <2>1. st[1] = Extend(Text(<<>>, <<>>), p)
    <3>1. 1 \in 1..Len(t) /\ 1 - 1 = 0
      BY <1>0, <2>0
    <3> QED BY <1>1, <2>0, <3>1
  <2>2. st[1] = Text(<<>>, Append(<<>>, p))
    <3>1. p % 2 # 0
      BY <2>0
    <3> QED BY <2>1, <3>1, ExtendIs
  <2>3. Append(<<>>, p) = <<p>>
    OBVIOUS
  <2>4. st[2] = Extend(Text(<<>>, <<p>>), 2 * k)
    <3>1. 2 \in 1..Len(t) /\ 2 - 1 = 1
      BY <1>0, <2>0
    <3> QED BY <1>1, <2>0, <2>2, <2>3, <3>1
  <2>5. st[2] = Text(Append(<<>>, Append(<<p>>, 2 * k)), <<>>)
    <3> DEFINE q == 2 * k
    <3>1. q % 2 = 0 /\ st[2] = Extend(Text(<<>>, <<p>>), q)
      BY <1>2, <2>4
    <3> HIDE DEF q
    <3>2. st[2] = Text(Append(<<>>, Append(<<p>>, q)), <<>>)
      BY <3>1, ExtendIs
    <3> QED BY <3>2 DEF q
  <2>6. Append(<<p>>, 2 * k) = l
    BY <1>2, <2>0, AppendOne
  <2>7. Append(<<>>, l) = <<l>> /\ <<l>> \in Seq(Seq(Int)) /\ Len(l) = 2
    <3>1. l \in Seq(Int) /\ Len(l) = 2
      BY <1>2, <2>0
    <3> QED BY <3>1
  <2> QED BY <2>5, <2>6, <2>7 DEF EndsAt
<1> QED BY <1>3, <1>4 DEF CutFirst

LEMMA OneLine ==
  ASSUME NEW l
  PROVE  LineSet(<<l>>) = ToSet(l) /\ LinesInc(<<l>>)
<1>1. DOMAIN <<l>> = {1} /\ <<l>>[1] = l
  OBVIOUS
<1> QED BY <1>1 DEF LineSet, LinesInc

LEMMA CutReads ==
  ASSUME MaxPieces \in Nat, NEW k, NEW n, NEW t, NEW l, RunFrom(t, Len(l), k, n), CutFirst(t, l, k),
         n <= MaxPieces, NEW T, l \in Fine(T), Before(ToSet(l), (2 * k + 1)..n)
  PROVE  /\ ReadsTo(t, ToSet(l) \cup ((2 * k + 1)..n), n, T)
         /\ Split(t).lines # <<>> /\ Head(Split(t).lines) = l
<1> DEFINE m == (n - 2 * k) \div 2
           F == Fine(T)
           one == <<l>>
           P == Pairs(k, m)
<1>1. k \in Nat /\ n \in Nat /\ n >= 2 * k /\ t \in Seq(Int)
  BY DEF RunFrom
<1>2. m \in Nat /\ 2 * (k + m) <= n /\ k + m = n \div 2
  BY <1>1, RestIs
<1>3. Split(t) = Text(one \o P, Rest(n))
  <2>1. PICK st : SplitRuns(st, t)
    BY <1>1, SplitStates
  <2>2. EndsAt(st, Len(l), one)
    BY <2>1, CutEnds
  <2> HIDE DEF one
  <2> QED BY <2>1, <2>2, SplitFrom
<1> HIDE DEF m
<1>4. P \in Seq(F) /\ LinesInc(P) /\ LineSet(P) \subseteq (2 * k + 1)..(2 * (k + m))
  <2>1. 2 * (k + m) <= MaxPieces
    BY <1>1, <1>2
  <2> QED BY <1>1, <1>2, <2>1, PairsFine
<1>5. LineSet(P) \subseteq (2 * k + 1)..n /\ LineSet(P) \subseteq 1..(2 * (n \div 2))
  BY <1>1, <1>2, <1>4
<1>6. ToSet(Rest(n)) \subseteq ((2 * k + 1)..n) /\ Before(1..(2 * (n \div 2)), ToSet(Rest(n)))
  BY <1>1, RestIs
<1>7. LineSet(one) = ToSet(l) /\ LinesInc(one) /\ one \in Seq(F) /\ Len(one) = 1 /\ one[1] = l
  <2> HIDE DEF F
  <2>1. l \in F
    BY DEF F
  <2> QED BY <2>1, OneLine
<1> HIDE DEF F, one, P
<1>8. LineSet(one \o P) = ToSet(l) \cup LineSet(P) /\ LinesInc(one \o P)
  <2>1. Before(LineSet(one), LineSet(P))
    BY <1>5, <1>7 DEF Before
  <2> QED BY <1>4, <1>7, <2>1, LinesConcat
<1>9. one \o P \in Seq(F) /\ one \o P # <<>> /\ Head(one \o P) = l
  <2>1. one \o P \in Seq(F) /\ Len(one \o P) = Len(one) + Len(P) /\ Len(P) \in Nat
        /\ \A i \in 1..(Len(one) + Len(P)) : (one \o P)[i] = IF i <= Len(one) THEN one[i] ELSE P[i - Len(one)]
    BY <1>4, <1>7, ConcatProperties, LenProperties
  <2>2. (one \o P)[1] = l /\ Len(one \o P) # 0
    BY <1>7, <2>1
  <2> QED BY <2>1, <2>2, EmptySeq, HeadTailProperties
<1>10. Before(ToSet(l) \cup LineSet(P), ToSet(Rest(n)))
  BY <1>5, <1>6 DEF Before
<1>11. Split(t).lines = one \o P /\ Split(t).rest = Rest(n)
  BY <1>3 DEF Text
<1> QED BY <1>5, <1>6, <1>8, <1>9, <1>10, <1>11 DEF ReadsTo, F

\* Cutting more lines leaves fewer to be whole.
LEMMA CutMore ==
  ASSUME NEW T, NEW U, T \subseteq U
  PROVE  Seq(Fine(T)) \subseteq Seq(Fine(U)) /\ Seq(Batch(T)) \subseteq Seq(Batch(U))
<1>1. Fine(T) \subseteq Fine(U)
  BY DEF Fine, Whole
<1>2. Seq(Fine(T)) \subseteq Seq(Fine(U))
  <2> DEFINE A == Fine(T)
             B == Fine(U)
  <2>1. A \subseteq B
    BY <1>1
  <2> HIDE DEF A, B
  <2>2. Seq(A) \subseteq Seq(B)
    BY <2>1
  <2> QED BY <2>2 DEF A, B
<1>3. Batch(T) \subseteq Batch(U)
  <2> DEFINE A == Seq(Fine(T))
             B == Seq(Fine(U))
  <2>1. A \subseteq B
    BY <1>2
  <2> HIDE DEF A, B
  <2>2. {c \in [lines : A, eof : BOOLEAN] : Len(c.lines) <= MaxChunk + TailN}
          \subseteq {c \in [lines : B, eof : BOOLEAN] : Len(c.lines) <= MaxChunk + TailN}
    BY <2>1
  <2> QED BY <2>2 DEF A, B, Batch
<1>4. Seq(Batch(T)) \subseteq Seq(Batch(U))
  <2> DEFINE A == Batch(T)
             B == Batch(U)
  <2>1. A \subseteq B
    BY <1>3
  <2> HIDE DEF A, B
  <2>2. Seq(A) \subseteq Seq(B)
    BY <2>1
  <2> QED BY <2>2 DEF A, B
<1> QED BY <1>2, <1>4

LEMMA UnreadIs ==
  ASSUME Log!Sizes, FileInv
  PROVE  Unread \subseteq 1..written /\ (offset' = Len(file) /\ turned' = FALSE /\ UNCHANGED file => Unread' = {})
<1>1. file \in Seq(1..MaxPieces) /\ Len(file) \in Nat /\ DOMAIN file = 1..Len(file)
      /\ written \in Nat /\ Len(file) <= written /\ \A i \in 1..Len(file) : file[i] = written - Len(file) + i
  BY LenProperties DEF FileInv, Log!Sizes
<1>2. Unread \subseteq 1..written
  BY <1>1 DEF Unread
<1>3. ASSUME offset' = Len(file), turned' = FALSE, file' = file PROVE Unread' = {}
  <2>1. Unread' = {file[i] : i \in {j \in DOMAIN file : j > Len(file) \/ FALSE}}
    BY <1>3 DEF Unread
  <2>2. {j \in DOMAIN file : j > Len(file) \/ FALSE} = {}
    BY <1>1
  <2> QED BY <2>1, <2>2
<1> QED BY <1>2, <1>3

\* What a read hands on: new is sent, and partial' is left over.
HandsOn(new) ==
  /\ new \in Seq(Batch(torn')) /\ QueueInc(new)
  /\ QueueSet(new) \cup ToSet(partial') \subseteq ToSet(partial) \cup Unread
  /\ Before(QueueSet(new), ToSet(partial'))
  /\ (new = <<>> /\ UNCHANGED <<up, missed>>) \/ Log!Send(new)

\* The next read begins where a line does, or the rest of its line is kept or cut.
CutAt(p, T) ==
  /\ p \in Seq(1..MaxPieces)
  /\ p = <<>> \/ (Len(file) % 2 = 1 /\ Len(p) = 1 /\ p[1] % 2 = 1)
  /\ Len(file) % 2 = 1 => p = <<file[Len(file)]>> \/ (p = <<>> /\ file[Len(file)] + 1 \in T)

LEMMA QueueNone ==
  QueueSet(<<>>) = {} /\ QueueInc(<<>>) /\ LineSet(<<>>) = {} /\ LinesInc(<<>>)
<1>1. DOMAIN <<>> = {}
  OBVIOUS
<1> QED BY <1>1 DEF QueueSet, QueueInc, LineSet, LinesInc

LEMMA ReadKeeps ==
  ASSUME Log!Sizes, LogInv, follower \in {"first", "poll"}, follower' = "poll",
         offset' = Len(file), turned' = FALSE, torn \subseteq torn', torn' \subseteq 1..(MaxPieces + 1),
         NEW new, HandsOn(new), CutAt(partial', torn'),
         UNCHANGED <<kind, written, file, rotations, conn, down, entry, canceled, viewer, broken, channel, seen>>
  PROVE  LogInv'
<1>1. FileInv /\ ViewInv /\ QueueInv /\ OrderInv /\ CutInv /\ FlagInv
  BY DEF LogInv
<1>2. FileInv'
  BY <1>1 DEF FileInv
<1>3. up \in Seq(Batch(torn')) /\ channel \in Seq(Batch(torn')) /\ seen \in Seq(Fine(torn'))
      /\ Len(up) <= QueueCap /\ Len(channel) <= ChanCap
  BY <1>1, CutMore DEF QueueInv
<1>4. QueueInc(up) /\ QueueInc(channel) /\ LinesInc(seen)
  BY <1>1 DEF OrderInv
<1>5. new \in Seq(Batch(torn')) /\ QueueInc(new) /\ QueueSet(new) \cup ToSet(partial') \subseteq ToSet(partial) \cup Unread
      /\ Before(QueueSet(new), ToSet(partial'))
  BY DEF HandsOn
<1>6. Before(Shown, QueueSet(new) \cup ToSet(partial'))
  BY <1>1, <1>5 DEF OrderInv, Before
<1>7. /\ up' \in Seq(Batch(torn')) /\ Len(up') <= QueueCap /\ QueueInc(up') /\ missed' \in BOOLEAN
      /\ QueueSet(up') \subseteq QueueSet(up) \cup QueueSet(new)
  <2>1. CASE new = <<>> /\ UNCHANGED <<up, missed>>
    <3>1. missed' \in BOOLEAN
      BY <1>1, <2>1 DEF FlagInv
    <3>2. up' = up
      BY <2>1
    <3> QED BY <1>3, <1>4, <3>1, <3>2
  <2>2. CASE Log!Send(new)
    <3> DEFINE T == torn'
    <3>1. Before(QueueSet(up), QueueSet(new))
      BY <1>6 DEF Shown, Before
    <3>2. missed \in BOOLEAN
      BY <1>1 DEF FlagInv
    <3>3. up \in Seq(Batch(T)) /\ new \in Seq(Batch(T))
      BY <1>3, <1>5
    <3> HIDE DEF T
    <3>4. /\ up' \in Seq(Batch(T)) /\ Len(up') <= QueueCap /\ QueueInc(up') /\ missed' \in BOOLEAN
          /\ QueueSet(up') \subseteq QueueSet(up) \cup QueueSet(new)
      BY <1>3, <1>4, <1>5, <2>2, <3>1, <3>2, <3>3, SendKeeps
    <3> QED BY <3>4 DEF T
  <2> QED BY <2>1, <2>2 DEF HandsOn
<1>8. ViewInv'
  <2>1. /\ down \in Seq({"follow", "cancel"}) /\ viewer \in {"none", "open", "gone"} /\ viewer # "none"
        /\ \A i \in DOMAIN down : down[i] # "follow"
    BY <1>1 DEF ViewInv
  <2> QED BY <2>1 DEF ViewInv
<1>9. QueueInv'
  BY <1>3, <1>7 DEF QueueInv
<1>10. OrderInv'
  <2>1. Unread' = {} /\ Unread \subseteq 1..written
    BY <1>1, UnreadIs
  <2>2. Shown' \subseteq Shown \cup QueueSet(new)
    BY <1>7 DEF Shown
  <2>3. Before(Shown', ToSet(partial') \cup Unread') /\ Before(ToSet(partial'), Unread')
    BY <1>5, <1>6, <2>1, <2>2 DEF Before
  <2>4. Before(LineSet(seen), QueueSet(channel)) /\ Before(LineSet(seen) \cup QueueSet(channel), QueueSet(up'))
    BY <1>1, <1>6, <1>7 DEF OrderInv, Before, Shown
  <2>5. Shown' \cup ToSet(partial)' \subseteq 1..written
    <3>1. Shown \cup ToSet(partial) \subseteq 1..written
      BY <1>1 DEF OrderInv
    <3> QED BY <1>5, <2>1, <2>2, <3>1
  <2> QED BY <1>4, <1>7, <2>3, <2>4, <2>5 DEF OrderInv
<1>11. CutInv'
  <2>1. Len(file) \in 0..MaxPieces
    BY <1>1, LenProperties DEF FileInv, Log!Sizes
  <2> QED BY <2>1 DEF CutInv, CutAt
<1>12. FlagInv'
  BY <1>1, <1>7, Zenon DEF FlagInv
<1> QED BY <1>2, <1>8, <1>9, <1>10, <1>11, <1>12 DEF LogInv

LEMMA Parity ==
  ASSUME NEW a \in Nat, NEW b \in Nat, b <= a, (a - b) % 2 = 0
  PROVE  a % 2 = b % 2 /\ 2 * ((a - b) \div 2) = a - b /\ (a - b) \div 2 \in Nat
OBVIOUS

\* The file holds the pieces last written, in a row, from where a line begins.
LEMMA FileIs ==
  ASSUME Log!Sizes, FileInv
  PROVE  /\ file \in Seq(Int) /\ Len(file) \in Nat /\ written \in Nat /\ MaxPieces \in Nat /\ Len(file) <= written
         /\ written <= MaxPieces /\ DOMAIN file = 1..Len(file)
         /\ \A i \in 1..Len(file) : file[i] = written - Len(file) + i
         /\ \A x \in (written - Len(file) + 1)..written :
              x - (written - Len(file)) \in 1..Len(file) /\ file[x - (written - Len(file))] = x
         /\ file # <<>> => (written - Len(file)) % 2 = 0
<1>1. /\ Len(file) \in Nat /\ DOMAIN file = 1..Len(file) /\ file \in Seq(Int) /\ MaxPieces \in Nat
      /\ written \in 0..MaxPieces /\ Len(file) <= written
  <2>1. file \in Seq(1..MaxPieces) /\ written \in 0..MaxPieces /\ Len(file) <= written
    BY DEF FileInv
  <2>2. file \in Seq(Int)
    <3> DEFINE A == 1..MaxPieces
               B == Int
    <3>1. A \subseteq B /\ file \in Seq(A)
      BY <2>1
    <3> HIDE DEF A, B
    <3>2. Seq(A) \subseteq Seq(B)
      BY <3>1
    <3> QED BY <3>1, <3>2 DEF B
  <2> QED BY <2>1, <2>2, LenProperties DEF Log!Sizes
<1>2. \A i \in 1..Len(file) : file[i] = written - Len(file) + i
  BY DEF FileInv
<1>3. ASSUME NEW x \in (written - Len(file) + 1)..written
      PROVE  x - (written - Len(file)) \in 1..Len(file) /\ file[x - (written - Len(file))] = x
  <2> DEFINE j == x - (written - Len(file))
  <2>1. j \in 1..Len(file) /\ written - Len(file) + j = x
    BY <1>1
  <2> HIDE DEF j
  <2>2. file[j] = x
    BY <1>2, <2>1
  <2> QED BY <2>1, <2>2 DEF j
<1>4. file # <<>> => (written - Len(file)) % 2 = 0
  BY DEF FileInv
<1> QED BY <1>1, <1>2, <1>3, <1>4

LEMMA SuffixIs ==
  ASSUME Log!Sizes, FileInv, NEW o \in 0..Len(file)
  PROVE  /\ SubSeq(file, o + 1, Len(file)) \in Seq(Int) /\ Len(SubSeq(file, o + 1, Len(file))) = Len(file) - o
         /\ \A i \in 1..(Len(file) - o) : SubSeq(file, o + 1, Len(file))[i] = written - Len(file) + o + i
<1>1. /\ file \in Seq(Int) /\ Len(file) \in Nat /\ written \in Nat
      /\ \A i \in 1..Len(file) : file[i] = written - Len(file) + i
  BY FileIs
<1> DEFINE s == SubSeq(file, o + 1, Len(file))
<1>2. s \in Seq(Int) /\ Len(s) = Len(file) - o /\ \A i \in 1..(Len(file) - o) : s[i] = file[o + i]
  <2>1. \A i \in (o + 1)..Len(file) : file[i] \in Int
    BY <1>1, ElementOfSeq
  <2>2. /\ s \in Seq(Int) /\ Len(s) = IF o + 1 <= Len(file) THEN Len(file) - (o + 1) + 1 ELSE 0
        /\ \A i \in 1..(Len(file) - (o + 1) + 1) : s[i] = file[o + 1 + i - 1]
    <3>1. o + 1 \in Int /\ Len(file) \in Int
      BY <1>1
    <3> QED BY <1>1, <2>1, <3>1, SubSeqProperties
  <2>3. Len(file) - (o + 1) + 1 = Len(file) - o /\ (o + 1 <= Len(file) \/ Len(file) - o = 0)
    BY <1>1
  <2>4. \A i \in 1..(Len(file) - o) : o + 1 + i - 1 = o + i
    BY <1>1
  <2> HIDE DEF s
  <2> QED BY <2>2, <2>3, <2>4
<1> HIDE DEF s
<1>3. ASSUME NEW i \in 1..(Len(file) - o) PROVE s[i] = written - Len(file) + o + i
  <2>1. o + i \in 1..Len(file)
    BY <1>1
  <2>2. file[o + i] = written - Len(file) + (o + i)
    BY <1>1, <2>1
  <2> QED BY <1>1, <1>2, <2>2
<1> QED BY <1>2, <1>3 DEF s

\* The end of a file that holds anything is where the next read begins.
LEMMA FileEnd ==
  ASSUME Log!Sizes, FileInv, NEW T
  PROVE  /\ file # <<>> => CutAt(Rest(written), T)
         /\ file = <<>> => CutAt(Rest(0), T)
<1>1. /\ Len(file) \in Nat /\ written \in Nat /\ written <= MaxPieces /\ Len(file) <= written /\ MaxPieces \in Nat
      /\ (file # <<>> => (written - Len(file)) % 2 = 0)
      /\ \A i \in 1..Len(file) : file[i] = written - Len(file) + i
  BY FileIs
<1>2. ASSUME file # <<>> PROVE CutAt(Rest(written), T)
  <2>1. Len(file) % 2 = written % 2
    BY <1>1, <1>2, Parity
  <2>2. CASE written % 2 = 1
    <3>1. Rest(written) = <<written>> /\ Len(file) % 2 = 1 /\ Len(file) \in 1..Len(file)
      BY <1>1, <2>1, <2>2 DEF Rest
    <3>2. file[Len(file)] = written
      <4>1. file[Len(file)] = written - Len(file) + Len(file)
        BY <1>1, <3>1
      <4> QED BY <1>1, <4>1
    <3>3. written \in 1..MaxPieces
      BY <1>1, <2>2
    <3>4. <<written>> \in Seq(1..MaxPieces) /\ Len(<<written>>) = 1 /\ <<written>>[1] = written
      BY <3>3
    <3> QED BY <2>2, <3>1, <3>2, <3>4 DEF CutAt
  <2>3. CASE written % 2 # 1
    <3>1. Rest(written) = <<>> /\ Len(file) % 2 # 1 /\ <<>> \in Seq(1..MaxPieces)
      BY <2>1, <2>3 DEF Rest
    <3> QED BY <3>1 DEF CutAt
  <2> QED BY <2>2, <2>3
<1>3. ASSUME file = <<>> PROVE CutAt(Rest(0), T)
  <2>1. Rest(0) = <<>> /\ <<>> \in Seq(1..MaxPieces)
    BY DEF Rest
  <2>2. Len(file) = 0 /\ 0 % 2 # 1
    BY <1>3
  <2>3. Len(file) % 2 # 1
    BY <2>2
  <2> QED BY <2>1, <2>3 DEF CutAt
<1> QED BY <1>2, <1>3

LEMMA WholeFile ==
  ASSUME Log!Sizes, FileInv, NEW T
  PROVE  \E n : ReadsTo(file, ToSet(file), n, T) /\ CutAt(Rest(n), T)
<1>1. /\ file \in Seq(Int) /\ Len(file) \in Nat /\ written \in Nat /\ MaxPieces \in Nat /\ Len(file) <= written
      /\ written <= MaxPieces /\ DOMAIN file = 1..Len(file)
      /\ (\A i \in 1..Len(file) : file[i] = written - Len(file) + i)
      /\ (\A x \in (written - Len(file) + 1)..written :
            x - (written - Len(file)) \in 1..Len(file) /\ file[x - (written - Len(file))] = x)
      /\ (file # <<>> => (written - Len(file)) % 2 = 0)
  BY FileIs
<1>2. CASE file = <<>>
  <2>1. RunFrom(file, 0, 0, 0)
    BY <1>1, <1>2 DEF RunFrom
  <2>2. ReadsTo(file, (2 * 0 + 1)..0, 0, T)
    BY <1>1, <2>1, RunReads
  <2>3. (2 * 0 + 1)..0 = {}
    OBVIOUS
  <2>4. ReadsTo(file, ToSet(file), 0, T)
    BY <2>2, <2>3 DEF ReadsTo
  <2> QED BY <1>2, <2>4, FileEnd
<1>3. CASE file # <<>>
  <2> DEFINE k == (written - Len(file)) \div 2
  <2>1. 2 * k = written - Len(file) /\ k \in Nat
    BY <1>1, <1>3, Parity
  <2> HIDE DEF k
  <2>2. RunFrom(file, 0, k, written)
    <3>1. written - 2 * k = Len(file) /\ written >= 2 * k /\ Len(file) = 0 + (written - 2 * k)
      BY <1>1, <2>1
    <3>2. \A i \in 1..(written - 2 * k) : file[0 + i] = 2 * k + i
      BY <1>1, <2>1, <3>1
    <3> QED BY <1>1, <2>1, <3>1, <3>2 DEF RunFrom
  <2>3. ReadsTo(file, (2 * k + 1)..written, written, T)
    BY <1>1, <2>2, RunReads
  <2>4. (2 * k + 1)..written \subseteq ToSet(file)
    BY <1>1, <2>1 DEF ToSet
  <2>5. ReadsTo(file, ToSet(file), written, T)
    BY <2>3, <2>4 DEF ReadsTo
  <2> QED BY <1>3, <2>5, FileEnd
<1> QED BY <1>2, <1>3

\* Where the file begins in what was written.
Base == written - Len(file)

LEMMA BaseIs ==
  ASSUME Log!Sizes, FileInv
  PROVE  /\ file \in Seq(Int) /\ Len(file) \in Nat /\ written \in Nat /\ MaxPieces \in Nat /\ Base \in Nat
         /\ written = Base + Len(file) /\ written <= MaxPieces
         /\ file # <<>> => Base % 2 = 0
         /\ \A i \in 1..Len(file) : file[i] = Base + i
         /\ \A x \in (Base + 1)..written : x - Base \in 1..Len(file) /\ file[x - Base] = x
BY FileIs DEF Base

LEMMA SuffixOf ==
  ASSUME Log!Sizes, FileInv, NEW o \in 0..Len(file)
  PROVE  /\ SubSeq(file, o + 1, Len(file)) \in Seq(Int) /\ Len(SubSeq(file, o + 1, Len(file))) = Len(file) - o
         /\ \A i \in 1..(Len(file) - o) : SubSeq(file, o + 1, Len(file))[i] = Base + o + i
BY SuffixIs DEF Base

LEMMA EvenHalf ==
  ASSUME NEW b \in Nat, NEW n \in Nat, b % 2 = 0, NEW o \in 0..n, o % 2 = 0
  PROVE  \E k \in Nat : 2 * k = b + o /\ b + n >= 2 * k /\ n - o = b + n - 2 * k
<1> DEFINE k == (b + o) \div 2
<1>1. 2 * k = b + o /\ k \in Nat
  OBVIOUS
<1> HIDE DEF k
<1> QED BY <1>1

LEMMA OddHalf ==
  ASSUME NEW b \in Nat, NEW n \in Nat, b % 2 = 0, NEW o \in 0..(n - 1), o % 2 = 1
  PROVE  \E k \in Nat : /\ 2 * k = b + o + 1 /\ b + n >= 2 * k /\ n - o = 1 + (b + n - 2 * k)
                        /\ b + n - 2 * k \in Nat /\ 2 * k >= 1
<1> DEFINE k == (b + o + 1) \div 2
<1>1. 2 * k = b + o + 1 /\ k \in Nat
  OBVIOUS
<1> HIDE DEF k
<1> QED BY <1>1

LEMMA EvenAt ==
  ASSUME Log!Sizes, FileInv, file # <<>>, NEW o \in 0..Len(file), o % 2 = 0
  PROVE  \E k \in Nat : 2 * k = Base + o /\ written >= 2 * k /\ Len(file) - o = written - 2 * k
<1>1. Base \in Nat /\ Len(file) \in Nat /\ Base % 2 = 0 /\ written = Base + Len(file)
  BY BaseIs
<1>2. \E k \in Nat : 2 * k = Base + o /\ Base + Len(file) >= 2 * k /\ Len(file) - o = Base + Len(file) - 2 * k
  BY <1>1, EvenHalf, Zenon
<1> QED BY <1>1, <1>2

LEMMA OddAt ==
  ASSUME Log!Sizes, FileInv, file # <<>>, NEW o \in 0..(Len(file) - 1), o % 2 = 1
  PROVE  \E k \in Nat : /\ 2 * k = Base + o + 1 /\ written >= 2 * k /\ Len(file) - o = 1 + (written - 2 * k)
                        /\ written - 2 * k \in Nat /\ 2 * k >= 1
<1>1. Base \in Nat /\ Len(file) \in Nat /\ Base % 2 = 0 /\ written = Base + Len(file)
  BY BaseIs
<1>2. \E k \in Nat : /\ 2 * k = Base + o + 1 /\ Base + Len(file) >= 2 * k
                      /\ Len(file) - o = 1 + (Base + Len(file) - 2 * k)
                      /\ Base + Len(file) - 2 * k \in Nat /\ 2 * k >= 1
  BY <1>1, OddHalf, Zenon
<1> QED BY <1>1, <1>2

\* t is the file after its o-th piece.
ReadAfter(t, o) ==
  /\ t \in Seq(Int) /\ Len(t) = Len(file) - o
  /\ \A i \in 1..(Len(file) - o) : t[i] = Base + o + i

\* A read from where a line begins.
LEMMA ReadOn ==
  ASSUME Log!Sizes, FileInv, file # <<>>, NEW o \in 0..Len(file), o % 2 = 0, NEW T, NEW t, ReadAfter(t, o)
  PROVE  ReadsTo(t, (Base + o + 1)..written, written, T)
<1>1. written \in Nat /\ written <= MaxPieces /\ MaxPieces \in Nat
  BY BaseIs
<1>2. PICK k \in Nat : 2 * k = Base + o /\ written >= 2 * k /\ Len(file) - o = written - 2 * k
  BY EvenAt
<1>3. RunFrom(t, 0, k, written)
  <2>1. t \in Seq(Int) /\ Len(t) = 0 + (written - 2 * k)
    BY <1>1, <1>2 DEF ReadAfter
  <2>2. ASSUME NEW i \in 1..(written - 2 * k) PROVE t[0 + i] = 2 * k + i
    <3>1. i \in 1..(Len(file) - o) /\ 0 + i = i
      BY <1>2
    <3>2. t[i] = Base + o + i
      BY <3>1 DEF ReadAfter
    <3> QED BY <1>2, <3>1, <3>2
  <2> QED BY <1>1, <1>2, <2>1, <2>2 DEF RunFrom
<1>4. ReadsTo(t, (2 * k + 1)..written, written, T)
  BY <1>1, <1>3, RunReads
<1> QED BY <1>2, <1>4

\* A read from inside a line: its first line is cut, or ends what is left over.
LEMMA ReadCut ==
  ASSUME Log!Sizes, FileInv, file # <<>>, NEW o \in 0..(Len(file) - 1), o % 2 = 1,
         NEW p, p = <<>> \/ (p \in Seq(1..MaxPieces) /\ Len(p) = 1 /\ p[1] % 2 = 1),
         Before(ToSet(p), (Base + o + 1)..written), NEW T,
         T \cap (ToSet(p) \cup {Base + o + 1}) # {}, NEW t, t = p \o SubSeq(file, o + 1, Len(file))
  PROVE  /\ ReadsTo(t, ToSet(p) \cup ((Base + o + 1)..written), written, T)
         /\ Split(t).lines # <<>> /\ ToSet(Head(Split(t).lines)) = ToSet(p) \cup {Base + o + 1}
<1>1. /\ Len(file) \in Nat /\ written \in Nat /\ MaxPieces \in Nat /\ Base \in Nat
      /\ written = Base + Len(file) /\ written <= MaxPieces
  BY BaseIs
<1> DEFINE s == SubSeq(file, o + 1, Len(file))
<1>2. PICK k \in Nat : /\ 2 * k = Base + o + 1 /\ written >= 2 * k /\ Len(file) - o = 1 + (written - 2 * k)
                       /\ written - 2 * k \in Nat /\ 2 * k >= 1
  BY OddAt
<1>3. s \in Seq(Int) /\ Len(s) = Len(file) - o /\ \A i \in 1..(Len(file) - o) : s[i] = Base + o + i
  <2>1. o \in 0..Len(file)
    BY <1>1
  <2> QED BY <2>1, SuffixOf
<1> HIDE DEF s
<1>4. 2 * k \in 1..MaxPieces /\ Len(s) = 1 + (written - 2 * k)
      /\ s[1] = 2 * k /\ \A i \in 1..(written - 2 * k) : s[1 + i] = 2 * k + i
  <2>1. 2 * k \in 1..MaxPieces /\ Len(s) = 1 + (written - 2 * k) /\ 1 \in 1..(Len(file) - o)
    BY <1>1, <1>2, <1>3
  <2>2. s[1] = 2 * k
    BY <1>2, <1>3, <2>1
  <2>3. ASSUME NEW i \in 1..(written - 2 * k) PROVE s[1 + i] = 2 * k + i
    <3>1. 1 + i \in 1..(Len(file) - o)
      BY <1>2
    <3>2. s[1 + i] = Base + o + (1 + i)
      BY <1>3, <3>1
    <3>3. Base + o + (1 + i) = 2 * k + i
      BY <1>1, <1>2
    <3> QED BY <3>2, <3>3
  <2> QED BY <2>1, <2>2, <2>3
<1>5. \E l : /\ RunFrom(t, Len(l), k, written) /\ CutFirst(t, l, k) /\ l \in Fine(T)
             /\ ToSet(l) = ToSet(p) \cup {2 * k}
  <2>0. T \cap (ToSet(p) \cup {2 * k}) # {}
    BY <1>2
  <2>1. CASE p = <<>>
    <3> DEFINE l == <<2 * k>>
    <3>1. t = s
      BY <1>3, <2>1, ConcatEmptySeq DEF s
    <3>2. l \in Seq(1..MaxPieces) /\ Len(l) = 1 /\ DOMAIN l = {1} /\ ToSet(l) = {2 * k} /\ ToSet(p) = {}
      <4>1. l \in Seq(1..MaxPieces) /\ Len(l) = 1 /\ DOMAIN l = {1}
        BY <1>4
      <4>2. ToSet(l) = {2 * k} /\ ToSet(p) = {}
        BY <2>1, PairSet, Zenon
      <4> QED BY <4>1, <4>2
    <3>3. Inc(l) /\ Whole(l, T)
      BY <2>0, <3>2 DEF Inc, Whole
    <3>4. CutFirst(t, l, k)
      <4>1. t \in Seq(Int) /\ Len(t) >= 1 /\ t[1] = 2 * k
        <5>1. s[1] = 2 * k /\ Len(s) = 1 + (written - 2 * k) /\ written - 2 * k \in Nat
          BY <1>1, <1>2, <1>4
        <5>2. s \in Seq(Int) /\ Len(s) >= 1
          BY <1>3, <5>1
        <5> QED BY <3>1, <5>1, <5>2
      <4> QED BY <1>2, <4>1 DEF CutFirst
    <3> HIDE DEF l
    <3>5. RunFrom(t, Len(l), k, written)
      <4>1. Len(l) \in Nat /\ Len(t) = Len(l) + (written - 2 * k)
            /\ \A i \in 1..(written - 2 * k) : t[Len(l) + i] = 2 * k + i
        <5>1. Len(l) = 1
          BY <3>2
        <5>2. Len(s) = 1 + (written - 2 * k) /\ \A i \in 1..(written - 2 * k) : s[1 + i] = 2 * k + i
          BY <1>4
        <5>3. Len(t) = Len(l) + (written - 2 * k)
          BY <3>1, <5>1, <5>2
        <5>4. ASSUME NEW i \in 1..(written - 2 * k) PROVE t[Len(l) + i] = 2 * k + i
          <6>1. s[1 + i] = 2 * k + i
            BY <5>2
          <6> QED BY <3>1, <5>1, <6>1, Zenon
        <5>5. Len(l) \in Nat
          BY <5>1
        <5> QED BY <5>3, <5>4, <5>5, Zenon
      <4>2. t \in Seq(Int)
        BY <1>3, <3>1
      <4> QED BY <1>1, <1>2, <1>4, <4>1, <4>2 DEF RunFrom
    <3>6. l \in Fine(T)
      BY <3>2, <3>3 DEF Fine
    <3> QED BY <3>2, <3>4, <3>5, <3>6
  <2>2. CASE p \in Seq(1..MaxPieces) /\ Len(p) = 1 /\ p[1] % 2 = 1
    <3> DEFINE q == p[1]
               l == <<q, 2 * k>>
    <3>1. q \in 1..MaxPieces /\ DOMAIN p = {1}
      <4>1. DOMAIN p = 1..1
        BY <2>2, LenProperties
      <4>2. 1 \in 1..Len(p)
        BY <2>2
      <4>3. q \in 1..MaxPieces
        BY <2>2, <4>2, ElementOfSeq
      <4> HIDE DEF q
      <4> QED BY <4>1, <4>3
    <3>2. ToSet(p) = {q}
      BY <3>1 DEF ToSet
    <3>3. q < 2 * k
      <4>1. 2 * k \in (Base + o + 1)..written
        BY <1>1, <1>2, <1>4
      <4> HIDE DEF q
      <4> QED BY <3>2, <4>1 DEF Before
    <3>4. Len(t) = 1 + Len(s) /\ t \in Seq(Int) /\ t[1] = q /\ \A i \in 1..Len(s) : t[1 + i] = s[i]
      <4>1. p \in Seq(Int)
        <5> DEFINE A == 1..MaxPieces
                   B == Int
        <5>1. A \subseteq B /\ p \in Seq(A)
          BY <2>2
        <5> HIDE DEF A, B
        <5>2. Seq(A) \subseteq Seq(B)
          BY <5>1
        <5> QED BY <5>1, <5>2 DEF B
      <4>2. t \in Seq(Int) /\ Len(t) = Len(p) + Len(s)
            /\ \A i \in 1..(Len(p) + Len(s)) : t[i] = IF i <= Len(p) THEN p[i] ELSE s[i - Len(p)]
        BY <1>3, <4>1, ConcatProperties DEF s
      <4>3. Len(s) \in Nat
        BY <1>3, LenProperties
      <4>4. t[1] = q
        BY <2>2, <4>2, <4>3
      <4>5. ASSUME NEW i \in 1..Len(s) PROVE t[1 + i] = s[i]
        <5>1. 1 + i \in 1..(Len(p) + Len(s)) /\ ~(1 + i <= Len(p)) /\ (1 + i) - Len(p) = i
          BY <2>2, <4>3
        <5> QED BY <4>2, <5>1
      <4> QED BY <2>2, <4>2, <4>4, <4>5
    <3> HIDE DEF q
    <3>5. l \in Seq(1..MaxPieces) /\ Len(l) = 2 /\ DOMAIN l = {1, 2} /\ l[1] = q /\ l[2] = 2 * k
      BY <1>4, <3>1
    <3>6. ToSet(l) = {q, 2 * k}
      BY PairSet
    <3>7. CutFirst(t, l, k)
      <4>1. q % 2 = 1 /\ q \in Int
        BY <2>2, <3>1 DEF q
      <4>2. Len(t) >= 2 /\ t[2] = 2 * k
        <5>1. 1 \in 1..Len(s) /\ 1 + 1 = 2
          BY <1>1, <1>2, <1>4
        <5>2. t[1 + 1] = s[1]
          BY <3>4, <5>1
        <5> QED BY <1>3, <1>4, <3>4, <5>1, <5>2
      <4> QED BY <1>2, <3>4, <4>1, <4>2 DEF CutFirst
    <3> HIDE DEF l
    <3>8. Inc(l) /\ Whole(l, T)
      <4>1. Inc(l)
        BY <3>3, <3>5 DEF Inc
      <4>2. Whole(l, T)
        BY <2>0, <3>2, <3>6 DEF Whole
      <4> QED BY <4>1, <4>2
    <3>9. RunFrom(t, Len(l), k, written)
      <4>1. Len(t) = 2 + (written - 2 * k)
        BY <1>1, <1>2, <1>4, <3>4
      <4>2. ASSUME NEW i \in 1..(written - 2 * k) PROVE t[2 + i] = 2 * k + i
        <5>1. 1 + i \in 1..Len(s) /\ 1 + (1 + i) = 2 + i
          BY <1>1, <1>2, <1>4
        <5>2. t[1 + (1 + i)] = s[1 + i]
          BY <3>4, <5>1
        <5> QED BY <1>4, <5>1, <5>2
      <4>3. t \in Seq(Int) /\ Len(l) = 2 /\ 2 \in Nat
        BY <3>4, <3>5
      <4> QED BY <1>1, <1>2, <1>4, <4>1, <4>2, <4>3 DEF RunFrom
    <3>10. l \in Fine(T)
      BY <3>5, <3>8 DEF Fine
    <3> QED BY <3>2, <3>6, <3>7, <3>9, <3>10
  <2> QED BY <2>1, <2>2
<1>6. PICK l : /\ RunFrom(t, Len(l), k, written) /\ CutFirst(t, l, k) /\ l \in Fine(T)
               /\ ToSet(l) = ToSet(p) \cup {2 * k}
  BY <1>5
<1>7. 2 * k \in (Base + o + 1)..written
      /\ (2 * k + 1)..written \subseteq (Base + o + 1)..written
  BY <1>1, <1>2, <1>4
<1>8. Before(ToSet(l), (2 * k + 1)..written)
  <2>1. Before({2 * k}, (2 * k + 1)..written)
    BY <1>2 DEF Before
  <2> QED BY <1>6, <1>7, <2>1 DEF Before
<1>9. /\ ReadsTo(t, ToSet(l) \cup ((2 * k + 1)..written), written, T)
      /\ Split(t).lines # <<>> /\ Head(Split(t).lines) = l
  BY <1>1, <1>6, <1>8, CutReads
<1>10. ToSet(l) \cup ((2 * k + 1)..written) \subseteq ToSet(p) \cup ((Base + o + 1)..written)
  BY <1>6, <1>7
<1>11. ReadsTo(t, ToSet(p) \cup ((Base + o + 1)..written), written, T)
  BY <1>9, <1>10 DEF ReadsTo
<1> QED BY <1>2, <1>6, <1>9, <1>11

LEMMA AfterIs ==
  ASSUME Log!Sizes, FileInv, file # <<>>, NEW o \in 0..(Len(file) - 1)
  PROVE  ReadAfter(<<>> \o SubSeq(file, o + 1, Len(file)), o)
<1> DEFINE s == SubSeq(file, o + 1, Len(file))
<1>1. o \in 0..Len(file)
  BY BaseIs
<1>2. s \in Seq(Int) /\ Len(s) = Len(file) - o /\ \A i \in 1..(Len(file) - o) : s[i] = Base + o + i
  BY <1>1, SuffixOf
<1> HIDE DEF s
<1>3. <<>> \o s = s
  BY <1>2, ConcatEmptySeq
<1>4. ReadAfter(s, o)
  BY <1>2 DEF ReadAfter
<1> QED BY <1>3, <1>4 DEF s

\* What was left over of a line of the file, and the file after it.
LEMMA AfterLeft ==
  ASSUME Log!Sizes, FileInv, file # <<>>, NEW o \in 1..(Len(file) - 1)
  PROVE  ReadAfter(<<file[o]>> \o SubSeq(file, o + 1, Len(file)), o - 1)
<1> DEFINE s == SubSeq(file, o + 1, Len(file))
           p == <<file[o]>>
           t == p \o s
<1>1. o \in 0..Len(file) /\ Len(file) \in Nat /\ Base \in Nat /\ o \in 1..Len(file)
      /\ \A i \in 1..Len(file) : file[i] = Base + i
  BY BaseIs
<1>2. s \in Seq(Int) /\ Len(s) = Len(file) - o /\ \A i \in 1..(Len(file) - o) : s[i] = Base + o + i
  BY <1>1, SuffixOf
<1>3. p \in Seq(Int) /\ Len(p) = 1 /\ p[1] = Base + o
  <2>1. file[o] = Base + o /\ Base + o \in Int
    BY <1>1
  <2> QED BY <2>1
<1> HIDE DEF s, p
<1>4. t \in Seq(Int) /\ Len(t) = 1 + Len(s) /\ \A i \in 1..(1 + Len(s)) : t[i] = IF i <= 1 THEN p[i] ELSE s[i - 1]
  <2>1. t \in Seq(Int) /\ Len(t) = Len(p) + Len(s)
        /\ \A i \in 1..(Len(p) + Len(s)) : t[i] = IF i <= Len(p) THEN p[i] ELSE s[i - Len(p)]
    BY <1>2, <1>3, ConcatProperties
  <2> HIDE DEF t
  <2> QED BY <1>3, <2>1
<1> HIDE DEF t
<1>5. Len(t) = Len(file) - (o - 1) /\ Len(file) - (o - 1) = 1 + Len(s)
  BY <1>1, <1>2, <1>4
<1>6. ASSUME NEW i \in 1..(Len(file) - (o - 1)) PROVE t[i] = Base + (o - 1) + i
  <2>1. CASE i = 1
    BY <1>1, <1>3, <1>4, <1>5, <2>1
  <2>2. CASE i # 1
    <3>1. i - 1 \in 1..(Len(file) - o) /\ ~(i <= 1) /\ i \in 1..(1 + Len(s))
      BY <1>1, <1>5, <2>2
    <3>2. t[i] = s[i - 1] /\ s[i - 1] = Base + o + (i - 1)
      BY <1>2, <1>4, <3>1
    <3>3. Base + o + (i - 1) = Base + (o - 1) + i
      BY <1>1
    <3> QED BY <3>2, <3>3
  <2> QED BY <2>1, <2>2
<1>7. ReadAfter(t, o - 1)
  BY <1>4, <1>5, <1>6 DEF ReadAfter
<1> QED BY <1>7 DEF t, p, s

LEMMA SeqPieces ==
  ASSUME NEW S, NEW s \in Seq(S)
  PROVE  ToSet(s) \subseteq S
<1>1. DOMAIN s = 1..Len(s)
  BY LenProperties
<1> QED BY <1>1, ElementOfSeq DEF ToSet

\* What a poll reads.
Polled == Log!Resume.partial \o SubSeq(file, Log!Resume.from + 1, Len(file))

\* The pieces whose line it finds cut.
NewlyTorn ==
  IF turned /\ Len(file) >= offset
    THEN ToSet(IF Split(Polled).lines = <<>> THEN Polled ELSE Head(Split(Polled).lines)) ELSE {}

LEMMA TornIs ==
  ASSUME Log!Sizes, LogInv, NEW n, NEW T, NEW X, ReadsTo(Polled, X, n, T), offset <= Len(file),
         Log!Resume.partial = partial
  PROVE  NewlyTorn \subseteq 1..MaxPieces
<1> DEFINE S == 1..MaxPieces
<1>1. CASE Split(Polled).lines = <<>>
  <2>1. partial \in Seq(S)
    BY DEF LogInv, CutInv
  <2>2. SubSeq(file, Log!Resume.from + 1, Len(file)) \in Seq(S)
    <3>1. file \in Seq(S) /\ Len(file) \in Nat /\ offset \in Nat
      BY LenProperties DEF LogInv, FileInv, CutInv, Log!Sizes
    <3>2. Log!Resume.from = offset
      BY <3>1 DEF Log!Resume
    <3>3. \A i \in (offset + 1)..Len(file) : file[i] \in S
      <4> HIDE DEF S
      <4> QED BY <3>1, ElementOfSeq
    <3>4. SubSeq(file, offset + 1, Len(file)) \in Seq(S)
      <4> HIDE DEF S
      <4>1. offset + 1 \in Int /\ Len(file) \in Int
        BY <3>1
      <4> QED BY <3>1, <3>3, <4>1, SubSeqProperties
    <3> QED BY <3>2, <3>4
  <2>3. Polled \in Seq(S)
    <3> DEFINE s == SubSeq(file, Log!Resume.from + 1, Len(file))
    <3> HIDE DEF S, s
    <3>1. Polled = partial \o s
      BY DEF Polled, s
    <3> QED BY <2>1, <2>2, <3>1, ConcatProperties DEF s
  <2>4. ToSet(Polled) \subseteq S
    BY <2>3, SeqPieces
  <2> QED BY <1>1, <2>4 DEF NewlyTorn
<1>2. CASE Split(Polled).lines # <<>>
  <2> DEFINE F == Fine(T)
             L == Split(Polled).lines
  <2>1. L \in Seq(F) /\ L # <<>>
    BY <1>2 DEF ReadsTo
  <2> HIDE DEF F, L
  <2>2. Head(L) \in F
    BY <2>1, HeadTailProperties
  <2>3. ToSet(Head(L)) \subseteq S
    <3>1. Head(L) \in Seq(S)
      BY <2>2 DEF F, Fine
    <3> QED BY <3>1, SeqPieces
  <2> QED BY <1>2, <2>3 DEF NewlyTorn, L
<1> QED BY <1>1, <1>2

LEMMA PollReads ==
  ASSUME Log!Sizes, LogInv, follower = "poll", Len(file) # offset, NEW T, torn \cup NewlyTorn \subseteq T
  PROVE  /\ \E n : ReadsTo(Polled, ToSet(partial) \cup Unread, n, T) /\ CutAt(Rest(n), T)
         /\ NewlyTorn \subseteq 1..MaxPieces
<1>1. FileInv /\ OrderInv /\ CutInv
  BY DEF LogInv
<1>2. /\ file \in Seq(Int) /\ Len(file) \in Nat /\ written \in Nat /\ Base \in Nat /\ written = Base + Len(file)
      /\ DOMAIN file = 1..Len(file) /\ (\A i \in 1..Len(file) : file[i] = Base + i)
      /\ \A x \in (Base + 1)..written : x - Base \in 1..Len(file) /\ file[x - Base] = x
  BY <1>1, BaseIs, FileIs
<1>3. /\ partial \in Seq(1..MaxPieces) /\ offset \in Nat
      /\ partial = <<>> \/ (offset % 2 = 1 /\ Len(partial) = 1 /\ partial[1] % 2 = 1)
      /\ ~turned => offset <= Len(file)
      /\ ~turned /\ offset % 2 = 1 => partial = <<file[offset]>> \/ (partial = <<>> /\ file[offset] + 1 \in torn)
  BY <1>1 DEF CutInv, Log!Sizes
<1>n. Len(file) \in Nat /\ written \in Nat /\ Base \in Nat /\ written = Base + Len(file) /\ offset \in Nat
  BY <1>2, <1>3
<1>t. ~turned => offset <= Len(file)
  BY <1>3
<1>f. \A i \in 1..Len(file) : file[i] = Base + i
  BY <1>2
<1>4. CASE Len(file) < offset
  <2>1. turned
    BY <1>n, <1>t, <1>4
  <2>2. Polled = file
    <3>1. Polled = <<>> \o SubSeq(file, 0 + 1, Len(file))
      BY <1>4 DEF Polled, Log!Resume
    <3>2. SubSeq(file, 1, Len(file)) = file /\ 0 + 1 = 1
      BY <1>2
    <3>3. <<>> \o file = file
      BY <1>2, ConcatEmptySeq
    <3> QED BY <3>1, <3>2, <3>3
  <2>3. ToSet(file) \subseteq Unread
    BY <2>1 DEF ToSet, Unread
  <2>4. PICK n : ReadsTo(file, ToSet(file), n, T) /\ CutAt(Rest(n), T)
    BY <1>1, WholeFile
  <2>5. ReadsTo(file, ToSet(partial) \cup Unread, n, T)
    BY <2>3, <2>4 DEF ReadsTo
  <2>6. NewlyTorn = {}
    BY <1>n, <1>4 DEF NewlyTorn
  <2> QED BY <2>2, <2>4, <2>5, <2>6
<1>5. CASE ~(Len(file) < offset)
  <2>1. offset \in 0..(Len(file) - 1) /\ offset <= Len(file) /\ file # <<>> /\ offset \in 0..Len(file)
    <3>1. offset < Len(file)
      BY <1>n, <1>5
    <3>2. file # <<>>
      BY <1>n, <3>1
    <3> QED BY <1>n, <3>1, <3>2
  <2>2. Polled = partial \o SubSeq(file, offset + 1, Len(file)) /\ Log!Resume.partial = partial
    BY <1>5 DEF Polled, Log!Resume
  <2>3. (Base + offset + 1)..written \subseteq Unread
    <3> SUFFICES ASSUME NEW x \in (Base + offset + 1)..written PROVE x \in Unread
      OBVIOUS
    <3>1. x \in (Base + 1)..written /\ x - Base > offset
      BY <1>n
    <3>2. x - Base \in DOMAIN file /\ file[x - Base] = x
      BY <1>2, <3>1
    <3> QED BY <3>1, <3>2 DEF Unread
  <2>4. CutAt(Rest(written), T)
    BY <1>1, <2>1, FileEnd
  <2>5. ReadsTo(Polled, ToSet(partial) \cup Unread, written, T)
    <3>1. CASE offset % 2 = 0
      <4>1. partial = <<>>
        BY <1>3, <3>1
      <4>2. ReadAfter(Polled, offset)
        BY <1>1, <2>1, <2>2, <4>1, AfterIs
      <4>3. ReadsTo(Polled, (Base + offset + 1)..written, written, T)
        BY <1>1, <2>1, <3>1, <4>2, ReadOn
      <4> QED BY <2>3, <4>3 DEF ReadsTo
    <3>2. CASE offset % 2 = 1 /\ partial = <<file[offset]>> /\ ~turned
      <4>1. offset \in 1..(Len(file) - 1) /\ offset - 1 \in 0..Len(file) /\ (offset - 1) % 2 = 0
        <5>1. (offset - 1) % 2 = 0 /\ offset # 0
          BY <1>n, <3>2
        <5> QED BY <1>n, <2>1, <5>1
      <4>2. ReadAfter(Polled, offset - 1)
        BY <1>1, <2>1, <2>2, <3>2, <4>1, AfterLeft
      <4>3. ReadsTo(Polled, (Base + (offset - 1) + 1)..written, written, T)
        BY <1>1, <2>1, <4>1, <4>2, ReadOn
      <4>4. (Base + (offset - 1) + 1)..written \subseteq ToSet(partial) \cup Unread
        <5>1. ToSet(partial) = {Base + offset}
          <6>1. file[offset] = Base + offset
            <7>1. offset \in 1..Len(file)
              BY <1>n, <4>1
            <7> QED BY <1>f, <7>1
          <6> QED BY <3>2, <6>1, PairSet
        <5>2. (Base + (offset - 1) + 1)..written \subseteq {Base + offset} \cup ((Base + offset + 1)..written)
          BY <1>n
        <5> QED BY <2>3, <5>1, <5>2
      <4> QED BY <4>3, <4>4 DEF ReadsTo
    <3>3. CASE offset % 2 = 1 /\ (turned \/ (partial = <<>> /\ file[offset] + 1 \in torn))
      <4> DEFINE C == ToSet(partial) \cup {Base + offset + 1}
      <4>1. Before(ToSet(partial), (Base + offset + 1)..written)
        BY <1>1, <2>3 DEF OrderInv, Before
      <4>2. partial = <<>> \/ (partial \in Seq(1..MaxPieces) /\ Len(partial) = 1 /\ partial[1] % 2 = 1)
        BY <1>3
      <4>3. ASSUME NEW U, U \cap C # {}
            PROVE  /\ ReadsTo(Polled, ToSet(partial) \cup ((Base + offset + 1)..written), written, U)
                   /\ Split(Polled).lines # <<>> /\ ToSet(Head(Split(Polled).lines)) = C
        BY <1>1, <2>1, <2>2, <3>3, <4>1, <4>2, <4>3, ReadCut
      <4>4. T \cap C # {}
        <5>1. CASE turned
          <6>1. Split(Polled).lines # <<>> /\ ToSet(Head(Split(Polled).lines)) = C
            <7>1. C \cap C # {}
              OBVIOUS
            <7> QED BY <4>3, <7>1
          <6>2. NewlyTorn = C
            BY <2>1, <5>1, <6>1 DEF NewlyTorn
          <6> QED BY <6>2
        <5>2. CASE partial = <<>> /\ file[offset] + 1 \in torn
          <6>1. file[offset] + 1 = Base + offset + 1
            <7>1. offset # 0
              BY <1>n, <3>3
            <7>2. offset \in 1..Len(file)
              BY <1>n, <2>1, <7>1
            <7> QED BY <1>f, <7>2
          <6> QED BY <5>2, <6>1
        <5> QED BY <3>3, <5>1, <5>2
      <4>5. ReadsTo(Polled, ToSet(partial) \cup ((Base + offset + 1)..written), written, T)
        BY <4>3, <4>4
      <4>6. ToSet(partial) \cup ((Base + offset + 1)..written) \subseteq ToSet(partial) \cup Unread
        BY <2>3
      <4> QED BY <4>5, <4>6 DEF ReadsTo
    <3>4. offset % 2 = 0 \/ offset % 2 = 1
      BY <1>3
    <3> QED BY <1>3, <3>1, <3>2, <3>3, <3>4
  <2>6. NewlyTorn \subseteq 1..MaxPieces
    BY <2>1, <2>2, <2>5, TornIs
  <2> QED BY <2>4, <2>5, <2>6
<1> QED BY <1>4, <1>5

LEMMA PollIs ==
  ASSUME Log!Poll
  PROVE  /\ follower = "poll" /\ Len(file) # offset /\ offset' = Len(file) /\ turned' = FALSE
         /\ Log!Emit(Split(Polled).lines) /\ partial' = Split(Polled).rest /\ torn' = torn \cup NewlyTorn
         /\ UNCHANGED <<kind, written, file, rotations, conn, down, entry, canceled, follower, viewer, broken, channel, seen>>
<1> DEFINE text == Log!Split(Polled)
<1>1. /\ follower = "poll" /\ Len(file) # offset /\ offset' = Len(file) /\ turned' = FALSE
      /\ Log!Emit(text.lines) /\ partial' = text.rest
      /\ torn' = IF turned /\ Len(file) >= offset
                 THEN torn \cup Log!ToSet(IF text.lines = <<>> THEN Polled ELSE Head(text.lines))
                 ELSE torn
      /\ UNCHANGED <<kind, written, file, rotations, conn, down, entry, canceled, follower, viewer, broken, channel, seen>>
  BY DEF Log!Poll, Polled, Log!log, Log!hub
<1>2. text = Split(Polled)
  BY SameSplit
<1>3. torn' = torn \cup NewlyTorn
  BY <1>1, <1>2, SameSet DEF NewlyTorn
<1> HIDE DEF text
<1> QED BY <1>1, <1>2, <1>3

LEMMA PollKeeps ==
  ASSUME Log!Sizes, LogInv, Log!Poll
  PROVE  LogInv'
<1> DEFINE T == torn'
           lines == Split(Polled).lines
           new == IF lines = <<>> THEN <<>> ELSE Log!Chunks(lines)
<1>1. /\ follower = "poll" /\ Len(file) # offset /\ offset' = Len(file) /\ turned' = FALSE
      /\ Log!Emit(lines) /\ partial' = Split(Polled).rest /\ torn' = torn \cup NewlyTorn
      /\ UNCHANGED <<kind, written, file, rotations, conn, down, entry, canceled, follower, viewer, broken, channel, seen>>
  BY PollIs
<1>2. torn \cup NewlyTorn \subseteq T
  BY <1>1
<1> HIDE DEF T
<1>3. PICK n : ReadsTo(Polled, ToSet(partial) \cup Unread, n, T) /\ CutAt(Rest(n), T)
  BY <1>1, <1>2, PollReads
<1>4. NewlyTorn \subseteq 1..MaxPieces
  BY <1>1, <1>2, PollReads
<1>5. /\ partial' = Rest(n) /\ lines \in Seq(Fine(T)) /\ LinesInc(lines)
      /\ LineSet(lines) \cup ToSet(Rest(n)) \subseteq ToSet(partial) \cup Unread
      /\ Before(LineSet(lines), ToSet(Rest(n)))
  BY <1>1, <1>3 DEF ReadsTo
<1> HIDE DEF lines
<1>6. new \in Seq(Batch(T)) /\ QueueInc(new) /\ QueueSet(new) \subseteq LineSet(lines)
  <2>1. CASE lines = <<>>
    <3>1. <<>> \in Seq(Batch(T))
      OBVIOUS
    <3> QED BY <2>1, <3>1, QueueNone
  <2>2. CASE lines # <<>>
    BY <1>5, <2>2, ChunksKeep
  <2> QED BY <2>1, <2>2
<1>7. (new = <<>> /\ UNCHANGED <<up, missed>>) \/ Log!Send(new)
  BY <1>1 DEF Log!Emit
<1> HIDE DEF new
<1>8. Before(QueueSet(new), ToSet(partial'))
  BY <1>5, <1>6 DEF Before
<1>9. HandsOn(new)
  BY <1>5, <1>6, <1>7, <1>8 DEF HandsOn, T
<1>10. torn' \subseteq 1..(MaxPieces + 1)
  <2>1. torn \subseteq 1..(MaxPieces + 1) /\ MaxPieces \in Nat
    BY DEF LogInv, CutInv, Log!Sizes
  <2> QED BY <1>1, <1>4, <2>1
<1>11. CutAt(partial', torn')
  BY <1>3, <1>5 DEF T
<1> QED BY <1>1, <1>9, <1>10, <1>11, ReadKeeps

\* The first read's lines: an engine sends the ended ones, the agent's own all.
FirstLines ==
  IF kind = "process" /\ Split(file).rest # <<>> THEN Append(Split(file).lines, Split(file).rest)
  ELSE Split(file).lines

LEMMA FirstIs ==
  ASSUME Log!FirstRead
  PROVE  /\ follower = "first" /\ follower' = "poll" /\ offset' = Len(file) /\ turned' = FALSE
         /\ LET lines == IF Len(FirstLines) > TailN
                         THEN SubSeq(FirstLines, Len(FirstLines) - TailN + 1, Len(FirstLines)) ELSE FirstLines
            IN  IF lines = <<>> THEN UNCHANGED <<up, missed>>
                ELSE Log!Send(<<[lines |-> lines, eof |-> FALSE]>>)
         /\ partial' = IF kind = "process" THEN <<>> ELSE Split(file).rest
         /\ torn' = IF kind = "process" THEN torn \cup UNION {{p, p + 1} : p \in ToSet(Split(file).rest)} ELSE torn
         /\ UNCHANGED <<kind, written, file, rotations, conn, down, entry, canceled, viewer, broken, channel, seen>>
<1>1. Log!Split(file) = Split(file) /\ Log!ToSet(Split(file).rest) = ToSet(Split(file).rest)
  BY SameSplit, SameSet
<1> QED BY <1>1 DEF Log!FirstRead, FirstLines, Log!Chunk, Log!log, Log!hub

\* M is the last N elements of L.
IsLast(M, L, N) == M = IF Len(L) > N THEN SubSeq(L, Len(L) - N + 1, Len(L)) ELSE L

\* M is a part of L.
PartOf(M, L) == \E d \in Nat : \A i \in 1..Len(M) : i + d \in 1..Len(L) /\ M[i] = L[i + d]

LEMMA LastOf ==
  ASSUME NEW S, NEW L \in Seq(S), NEW N \in Nat \ {0}, NEW M, IsLast(M, L, N)
  PROVE  M \in Seq(S) /\ Len(M) <= N /\ PartOf(M, L)
<1>0. Len(L) \in Nat /\ \A i \in 1..Len(L) : L[i] \in S
  BY LenProperties, ElementOfSeq
<1>1. CASE Len(L) > N
  <2> DEFINE d == Len(L) - N
  <2>1. d \in Nat /\ d + 1 \in Int /\ Len(L) \in Int /\ Len(L) - (d + 1) + 1 = N /\ d + 1 <= Len(L) /\ d + N = Len(L)
    BY <1>0, <1>1
  <2>2. M = SubSeq(L, d + 1, Len(L))
    BY <1>1 DEF IsLast
  <2> HIDE DEF d
  <2>3. \A i \in (d + 1)..Len(L) : L[i] \in S
    BY <1>0, <2>1
  <2>4. /\ SubSeq(L, d + 1, Len(L)) \in Seq(S)
        /\ Len(SubSeq(L, d + 1, Len(L))) = IF d + 1 <= Len(L) THEN Len(L) - (d + 1) + 1 ELSE 0
        /\ \A i \in 1..(Len(L) - (d + 1) + 1) : SubSeq(L, d + 1, Len(L))[i] = L[d + 1 + i - 1]
    BY <2>1, <2>3, SubSeqProperties
  <2>5. M \in Seq(S) /\ Len(M) = N /\ \A i \in 1..N : M[i] = L[d + 1 + i - 1]
    BY <2>1, <2>2, <2>4
  <2>6. ASSUME NEW i \in 1..Len(M) PROVE i + d \in 1..Len(L) /\ M[i] = L[i + d]
    <3>1. i \in 1..N /\ d + 1 + i - 1 = i + d /\ i + d \in 1..Len(L)
      BY <1>0, <2>1, <2>5
    <3> QED BY <2>5, <3>1
  <2>7. Len(M) <= N
    BY <2>5
  <2> QED BY <2>1, <2>5, <2>6, <2>7 DEF PartOf
<1>2. CASE ~(Len(L) > N)
  <2>1. M = L /\ Len(L) <= N
    BY <1>0, <1>2 DEF IsLast
  <2>2. \A i \in 1..Len(M) : i + 0 \in 1..Len(L) /\ M[i] = L[i + 0]
    BY <1>0, <2>1
  <2> QED BY <2>1, <2>2 DEF PartOf
<1> QED BY <1>1, <1>2

LEMMA OneBatch ==
  ASSUME NEW lines, NEW e
  PROVE  /\ QueueSet(<<[lines |-> lines, eof |-> e]>>) = LineSet(lines)
         /\ LinesInc(lines) => QueueInc(<<[lines |-> lines, eof |-> e]>>)
<1> DEFINE q == <<[lines |-> lines, eof |-> e]>>
<1>1. DOMAIN q = {1} /\ q[1].lines = lines
  OBVIOUS
<1> HIDE DEF q
<1>2. QueueSet(q) = LineSet(lines) /\ (LinesInc(lines) => QueueInc(q))
  BY <1>1 DEF QueueSet, QueueInc
<1> QED BY <1>2 DEF q

\* A line not read to its end is shown as it is, and counts as cut.
LEMMA FirstLinesAre ==
  ASSUME Log!Sizes, NEW n, NEW T, ReadsTo(file, ToSet(file), n, T), CutAt(Rest(n), T),
         kind = "process" => ToSet(Rest(n)) \subseteq T
  PROVE  /\ FirstLines \in Seq(Fine(T)) /\ LinesInc(FirstLines) /\ LineSet(FirstLines) \subseteq ToSet(file)
         /\ kind # "process" => Before(LineSet(FirstLines), ToSet(Rest(n)))
<1> DEFINE L == Split(file).lines
           R == Rest(n)
           F == Fine(T)
<1>1. /\ Split(file).rest = R /\ L \in Seq(F) /\ LinesInc(L) /\ LineSet(L) \cup ToSet(R) \subseteq ToSet(file)
      /\ Before(LineSet(L), ToSet(R))
  BY DEF ReadsTo
<1>2. R \in Seq(1..MaxPieces) /\ (R = <<>> \/ Len(R) = 1)
  BY DEF CutAt
<1>3. FirstLines = IF kind = "process" /\ R # <<>> THEN Append(L, R) ELSE L
  BY <1>1 DEF FirstLines
<1> HIDE DEF L, R
<1>4. CASE ~(kind = "process" /\ R # <<>>)
  BY <1>1, <1>3, <1>4 DEF F, R
<1>5. CASE kind = "process" /\ R # <<>>
  <2> DEFINE one == <<R>>
  <2>1. Len(R) = 1 /\ DOMAIN R = {1} /\ ToSet(R) \subseteq T
    <3>1. DOMAIN R = 1..1
      BY <1>2, <1>5, LenProperties
    <3>2. ToSet(R) \subseteq T
      BY <1>5 DEF R
    <3> QED BY <1>2, <1>5, <3>1, <3>2
  <2>2. R \in F
    <3>1. Inc(R)
      BY <2>1 DEF Inc
    <3>2. Whole(R, T)
      <4>1. R[1] \in ToSet(R)
        BY <2>1 DEF ToSet
      <4> QED BY <2>1, <4>1 DEF Whole
    <3> QED BY <1>2, <3>1, <3>2 DEF F, Fine
  <2> HIDE DEF F
  <2>3. one \in Seq(F) /\ LineSet(one) = ToSet(R) /\ LinesInc(one)
    BY <2>2, OneLine
  <2>4. Append(L, R) = L \o one
    BY <1>1, <2>2
  <2> HIDE DEF one
  <2>5. LineSet(L \o one) = LineSet(L) \cup ToSet(R) /\ LinesInc(L \o one)
    BY <1>1, <2>3, LinesConcat
  <2>6. L \o one \in Seq(F)
    BY <1>1, <2>3, ConcatProperties
  <2> QED BY <1>1, <1>3, <1>5, <2>4, <2>5, <2>6 DEF F
<1> QED BY <1>4, <1>5

LEMMA FirstKeeps ==
  ASSUME Log!Sizes, LogInv, Log!FirstRead
  PROVE  LogInv'
<1> DEFINE T == torn'
           lines == IF Len(FirstLines) > TailN
                    THEN SubSeq(FirstLines, Len(FirstLines) - TailN + 1, Len(FirstLines)) ELSE FirstLines
           new == IF lines = <<>> THEN <<>> ELSE <<[lines |-> lines, eof |-> FALSE]>>
           F == Fine(T)
<1>1. /\ follower = "first" /\ follower' = "poll" /\ offset' = Len(file) /\ turned' = FALSE
      /\ IF lines = <<>> THEN UNCHANGED <<up, missed>> ELSE Log!Send(<<[lines |-> lines, eof |-> FALSE]>>)
      /\ partial' = IF kind = "process" THEN <<>> ELSE Split(file).rest
      /\ torn' = IF kind = "process" THEN torn \cup UNION {{p, p + 1} : p \in ToSet(Split(file).rest)} ELSE torn
      /\ UNCHANGED <<kind, written, file, rotations, conn, down, entry, canceled, viewer, broken, channel, seen>>
  BY FirstIs
<1>2. FileInv /\ torn \subseteq 1..(MaxPieces + 1) /\ MaxPieces \in Nat /\ partial = <<>> /\ offset = 0
  BY <1>1 DEF LogInv, ViewInv, CutInv, Log!Sizes
<1> HIDE DEF T
<1>3. PICK n : ReadsTo(file, ToSet(file), n, T) /\ CutAt(Rest(n), T)
  BY <1>2, WholeFile
<1>4. Split(file).rest = Rest(n) /\ ToSet(Rest(n)) \subseteq ToSet(file)
  BY <1>3 DEF ReadsTo
<1>5. ToSet(Rest(n)) \subseteq 1..MaxPieces
  <2>1. Rest(n) \in Seq(1..MaxPieces)
    BY <1>3 DEF CutAt
  <2> QED BY <2>1, SeqPieces
<1>6. torn \subseteq torn' /\ torn' \subseteq 1..(MaxPieces + 1)
      /\ (kind = "process" => \A p \in ToSet(Rest(n)) : p \in torn' /\ p + 1 \in torn')
  <2>1. CASE kind = "process"
    <3>1. torn' = torn \cup UNION {{p, p + 1} : p \in ToSet(Rest(n))}
      BY <1>1, <1>4, <2>1
    <3>2. UNION {{p, p + 1} : p \in ToSet(Rest(n))} \subseteq 1..(MaxPieces + 1)
      <4> SUFFICES ASSUME NEW x \in UNION {{p, p + 1} : p \in ToSet(Rest(n))} PROVE x \in 1..(MaxPieces + 1)
        OBVIOUS
      <4>1. PICK p \in ToSet(Rest(n)) : x = p \/ x = p + 1
        OBVIOUS
      <4>2. p \in 1..MaxPieces
        BY <1>5
      <4> QED BY <1>2, <4>1, <4>2
    <3>3. torn \subseteq torn' /\ torn' \subseteq 1..(MaxPieces + 1)
      BY <1>2, <3>1, <3>2
    <3>4. ASSUME NEW p \in ToSet(Rest(n)) PROVE p \in torn' /\ p + 1 \in torn'
      BY <3>1
    <3> QED BY <3>3, <3>4
  <2>2. CASE kind # "process"
    BY <1>1, <1>2, <2>2
  <2> QED BY <2>1, <2>2
<1>7. /\ FirstLines \in Seq(Fine(T)) /\ LinesInc(FirstLines) /\ LineSet(FirstLines) \subseteq ToSet(file)
      /\ kind # "process" => Before(LineSet(FirstLines), ToSet(Rest(n)))
  <2>1. kind = "process" => ToSet(Rest(n)) \subseteq T
    BY <1>6 DEF T
  <2> QED BY <1>3, <2>1, FirstLinesAre
<1>8. lines \in Seq(F) /\ Len(lines) <= TailN /\ LinesInc(lines) /\ LineSet(lines) \subseteq LineSet(FirstLines)
  <2>1. TailN \in Nat \ {0} /\ FirstLines \in Seq(F)
    BY <1>7 DEF Log!Sizes
  <2>2. IsLast(lines, FirstLines, TailN)
    BY DEF IsLast
  <2> HIDE DEF F, lines
  <2>3. lines \in Seq(F) /\ Len(lines) <= TailN /\ PartOf(lines, FirstLines)
    BY <2>1, <2>2, LastOf
  <2>4. PICK d \in Nat : \A i \in 1..Len(lines) : i + d \in 1..Len(FirstLines) /\ lines[i] = FirstLines[i + d]
    BY <2>3 DEF PartOf
  <2>5. LineSet(lines) \subseteq LineSet(FirstLines) /\ (LinesInc(FirstLines) => LinesInc(lines))
    BY <2>1, <2>3, <2>4, LinesPart
  <2> QED BY <1>7, <2>3, <2>5
<1> HIDE DEF lines
<1>9. new \in Seq(Batch(T)) /\ QueueInc(new) /\ QueueSet(new) \subseteq LineSet(lines)
  <2>1. CASE lines = <<>>
    <3>1. <<>> \in Seq(Batch(T))
      OBVIOUS
    <3> QED BY <2>1, <3>1, QueueNone
  <2>2. CASE lines # <<>>
    <3> DEFINE B == Batch(T)
               c == [lines |-> lines, eof |-> FALSE]
    <3>1. c \in B
      <4>1. Len(lines) <= MaxChunk + TailN
        <5>1. Len(lines) \in Nat /\ TailN \in Nat /\ MaxChunk \in Nat
          BY <1>8, LenProperties DEF Log!Sizes
        <5> QED BY <1>8, <5>1
      <4> QED BY <1>8, <4>1 DEF Batch
    <3>2. QueueSet(<<c>>) = LineSet(lines) /\ QueueInc(<<c>>)
      BY <1>8, OneBatch
    <3> HIDE DEF B, c
    <3>3. <<c>> \in Seq(B)
      BY <3>1
    <3>4. new = <<c>>
      BY <2>2 DEF c
    <3> QED BY <3>2, <3>3, <3>4 DEF B
  <2> QED BY <2>1, <2>2
<1>10. (new = <<>> /\ UNCHANGED <<up, missed>>) \/ Log!Send(new)
  BY <1>1
<1> HIDE DEF new
<1>11. partial' = <<>> \/ (kind # "process" /\ partial' = Rest(n))
  BY <1>1, <1>4
<1>12. ToSet(<<>>) = {}
  BY PairSet
<1>13. ToSet(file) \subseteq Unread
  <2>1. DOMAIN file = 1..Len(file)
    BY <1>2, FileIs
  <2>2. \A j \in DOMAIN file : j > 0
    BY <2>1
  <2> QED BY <1>2, <2>2 DEF ToSet, Unread
<1>14. QueueSet(new) \cup ToSet(partial') \subseteq ToSet(partial) \cup Unread
  <2>1. ToSet(partial') \subseteq ToSet(file)
    BY <1>4, <1>11, <1>12
  <2> QED BY <1>7, <1>8, <1>9, <1>13, <2>1
<1>15. Before(QueueSet(new), ToSet(partial'))
  <2>1. CASE partial' = <<>>
    BY <1>12, <2>1 DEF Before
  <2>2. CASE kind # "process" /\ partial' = Rest(n)
    BY <1>7, <1>8, <1>9, <2>2 DEF Before
  <2> QED BY <1>11, <2>1, <2>2
<1>16. HandsOn(new)
  BY <1>9, <1>10, <1>14, <1>15 DEF HandsOn, T
<1>17. CutAt(partial', torn')
  <2>1. CASE kind # "process"
    <3>1. partial' = Rest(n)
      BY <1>1, <1>4, <2>1
    <3> QED BY <1>3, <3>1 DEF T
  <2>2. CASE kind = "process"
    <3>1. partial' = <<>> /\ <<>> \in Seq(1..MaxPieces)
      BY <1>1, <2>2
    <3>2. ASSUME Len(file) % 2 = 1 PROVE file[Len(file)] + 1 \in torn'
      <4>1. CASE Rest(n) = <<file[Len(file)]>>
        <5>1. file[Len(file)] \in ToSet(Rest(n))
          BY <4>1, PairSet
        <5> QED BY <1>6, <2>2, <5>1
      <4>2. CASE Rest(n) = <<>> /\ file[Len(file)] + 1 \in T
        BY <4>2 DEF T
      <4> QED BY <1>3, <3>2, <4>1, <4>2 DEF CutAt
    <3> QED BY <3>1, <3>2 DEF CutAt
  <2> QED BY <2>1, <2>2
<1> QED BY <1>1, <1>6, <1>16, <1>17, ReadKeeps

-----------------------------------------------------------------------------
(* The other actions.                                                      *)

\* What is only dropped, or not written yet, leaves the rest in order.
LEMMA OrderKept ==
  ASSUME OrderInv, LinesInc(seen'), QueueInc(channel'), QueueInc(up'),
         LineSet(seen') \subseteq LineSet(seen), QueueSet(channel') \subseteq QueueSet(channel),
         QueueSet(up') \subseteq QueueSet(up), ToSet(partial') \subseteq ToSet(partial), Unread' \subseteq Unread,
         written \in Int, written' \in Int, written <= written'
  PROVE  OrderInv'
<1>1. Shown' \subseteq Shown
  BY DEF Shown
<1>2. Before(Shown', ToSet(partial') \cup Unread') /\ Before(ToSet(partial'), Unread')
  BY <1>1 DEF OrderInv, Before
<1>3. Before(LineSet(seen'), QueueSet(channel')) /\ Before(LineSet(seen') \cup QueueSet(channel'), QueueSet(up'))
  BY DEF OrderInv, Before
<1>4. Shown' \cup ToSet(partial') \subseteq 1..written'
  <2>1. Shown \cup ToSet(partial) \subseteq 1..written
    BY DEF OrderInv
  <2>2. 1..written \subseteq 1..written'
    OBVIOUS
  <2> QED BY <1>1, <2>1, <2>2
<1> QED BY <1>2, <1>3, <1>4 DEF OrderInv

LEMMA UnreadKept ==
  ASSUME UNCHANGED <<file, offset, turned>>
  PROVE  Unread' = Unread
BY DEF Unread

\* A last chunk holds no lines.
LEMMA EofKeeps ==
  ASSUME Log!Sizes, QueueInv, OrderInv, missed \in BOOLEAN, Log!Send(<<Log!Chunk(<<>>, TRUE)>>)
  PROVE  /\ up' \in Seq(Batch(torn)) /\ Len(up') <= QueueCap /\ QueueInc(up') /\ missed' \in BOOLEAN
         /\ QueueSet(up') \subseteq QueueSet(up)
<1> DEFINE B == Batch(torn)
           c == [lines |-> <<>>, eof |-> TRUE]
           new == <<c>>
<1>1. c \in B
  <2>1. <<>> \in Seq(Fine(torn)) /\ Len(<<>>) = 0
    OBVIOUS
  <2>2. 0 <= MaxChunk + TailN
    BY DEF Log!Sizes
  <2> QED BY <2>1, <2>2 DEF Batch
<1>2. QueueSet(new) = {} /\ QueueInc(new)
  BY OneBatch, QueueNone
<1>3. new \in Seq(B)
  <2> HIDE DEF B, c
  <2> QED BY <1>1
<1>4. Log!Send(new)
  BY DEF Log!Chunk
<1> HIDE DEF new
<1>5. Before(QueueSet(up), QueueSet(new))
  BY <1>2 DEF Before
<1>6. up \in Seq(B) /\ Len(up) <= QueueCap /\ QueueInc(up)
  BY DEF QueueInv, OrderInv
<1> HIDE DEF B
<1>7. /\ up' \in Seq(Batch(torn)) /\ Len(up') <= QueueCap /\ QueueInc(up') /\ missed' \in BOOLEAN
      /\ QueueSet(up') \subseteq QueueSet(up) \cup QueueSet(new)
  BY <1>2, <1>3, <1>4, <1>5, <1>6, SendKeeps DEF B
<1> QED BY <1>2, <1>7

\* The parts of the invariant, but for what may be queued, that leave the log
\* and the stream as they are.
LEMMA CutKept ==
  ASSUME CutInv, UNCHANGED <<file, offset, partial, torn, turned>>, follower' = "poll" => follower = "poll"
  PROVE  CutInv'
BY DEF CutInv

LEMMA FileKept ==
  ASSUME FileInv, UNCHANGED <<kind, written, file, rotations>>
  PROVE  FileInv'
BY DEF FileInv

LEMMA FlagKept ==
  ASSUME FlagInv,
         entry' \in BOOLEAN, canceled' \in BOOLEAN, turned' \in BOOLEAN, broken' \in BOOLEAN, missed' \in BOOLEAN,
         conn' \in {"up", "lost", "none"}
  PROVE  FlagInv'
BY Zenon DEF FlagInv

\* The queues may only lose batches.
LEMMA QueuesKept ==
  ASSUME QueueInv, OrderInv, up' = up \/ up' = <<>>, channel' = channel \/ channel' = <<>>, Log!Sizes,
         UNCHANGED <<seen, torn>>
  PROVE  /\ QueueInv' /\ LinesInc(seen') /\ QueueInc(channel') /\ QueueInc(up')
         /\ LineSet(seen') \subseteq LineSet(seen) /\ QueueSet(channel') \subseteq QueueSet(channel)
         /\ QueueSet(up') \subseteq QueueSet(up)
<1>1. <<>> \in Seq(Batch(torn)) /\ Len(<<>>) = 0 /\ 0 <= QueueCap /\ 0 <= ChanCap
  BY DEF Log!Sizes
<1>2. QueueInv'
  BY <1>1 DEF QueueInv
<1>3. QueueInc(channel') /\ QueueInc(up') /\ LinesInc(seen')
  BY QueueNone DEF OrderInv
<1>4. QueueSet(channel') \subseteq QueueSet(channel) /\ QueueSet(up') \subseteq QueueSet(up)
  BY QueueNone
<1> QED BY <1>2, <1>3, <1>4

LEMMA WriteKeeps ==
  ASSUME Log!Sizes, LogInv, Log!Write
  PROVE  LogInv'
<1>1. FileInv /\ ViewInv /\ QueueInv /\ OrderInv /\ CutInv /\ FlagInv
  BY DEF LogInv
<1>2. /\ written < MaxPieces /\ written' = written + 1 /\ file' = Append(file, written')
      /\ UNCHANGED <<kind, rotations, conn, down, up, entry, canceled, follower, offset, partial, turned, torn,
                     viewer, broken, channel, seen, missed>>
  BY DEF Log!Write, Log!frames, Log!stream, Log!hub
<1>3. /\ file \in Seq(1..MaxPieces) /\ Len(file) \in Nat /\ written \in Nat /\ MaxPieces \in Nat
      /\ Len(file) <= written /\ DOMAIN file = 1..Len(file)
  BY <1>1, FileIs DEF FileInv
<1>4. \A i \in 1..Len(file) : file[i] = written - Len(file) + i
  BY <1>1 DEF FileInv
<1>5. /\ file' \in Seq(1..MaxPieces) /\ Len(file') = Len(file) + 1 /\ DOMAIN file' = 1..(Len(file) + 1)
      /\ file'[Len(file) + 1] = written + 1 /\ \A i \in 1..Len(file) : file'[i] = file[i]
  <2>1. written + 1 \in 1..MaxPieces
    BY <1>2, <1>3
  <2> DEFINE S == 1..MaxPieces
             e == written + 1
  <2>2. e \in S /\ file \in Seq(S) /\ file' = Append(file, e)
    BY <1>2, <1>3, <2>1
  <2> HIDE DEF S, e
  <2>3. file' \in Seq(S) /\ Len(file') = Len(file) + 1 /\ file'[Len(file) + 1] = e
        /\ \A i \in 1..Len(file) : file'[i] = file[i]
    BY <2>2, AppendProperties
  <2>4. DOMAIN file' = 1..Len(file')
    BY <2>3, LenProperties
  <2> QED BY <2>3, <2>4 DEF S, e
<1>6. FileInv'
  <2>1. (written - Len(file)) % 2 = 0 /\ written' - Len(file') = written - Len(file)
    <3>1. (written - Len(file)) % 2 = 0
      BY <1>1, <1>2, <1>3 DEF FileInv
    <3> QED BY <1>2, <1>3, <1>5, <3>1
  <2>2. ASSUME NEW i \in 1..Len(file') PROVE file'[i] = written' - Len(file') + i
    <3>1. CASE i = Len(file) + 1
      BY <1>2, <1>3, <1>5, <3>1
    <3>2. CASE i # Len(file) + 1
      <4>1. i \in 1..Len(file)
        BY <1>3, <1>5, <3>2
      <4> QED BY <1>2, <1>3, <1>4, <1>5, <4>1
    <3> QED BY <3>1, <3>2
  <2>3. written' \in 0..MaxPieces /\ Len(file') <= written'
    BY <1>2, <1>3, <1>5
  <2>4. kind' \in Kinds /\ rotations' \in 0..MaxRotations
    BY <1>1, <1>2 DEF FileInv
  <2>5. (written' - Len(file')) % 2 = 0
    BY <2>1
  <2> QED BY <1>5, <2>2, <2>3, <2>4, <2>5 DEF FileInv
<1>7. ViewInv'
  <2>1. Shown' = Shown
    BY <1>2 DEF Shown
  <2> QED BY <1>1, <1>2, <2>1 DEF ViewInv
<1>8. QueueInv'
  BY <1>1, <1>2 DEF QueueInv
<1>9. OrderInv'
  <2>1. Unread' \subseteq Unread \cup {written + 1}
    <3> SUFFICES ASSUME NEW x \in Unread' PROVE x \in Unread \cup {written + 1}
      OBVIOUS
    <3>1. PICK i \in 1..(Len(file) + 1) : x = file'[i] /\ (i > offset \/ turned)
      BY <1>2, <1>5 DEF Unread
    <3>2. CASE i = Len(file) + 1
      BY <1>5, <3>1, <3>2
    <3>3. CASE i # Len(file) + 1
      <4>1. i \in DOMAIN file /\ x = file[i]
        BY <1>3, <1>5, <3>1, <3>3
      <4> QED BY <3>1, <4>1 DEF Unread
    <3> QED BY <3>2, <3>3
  <2>2. Shown' = Shown
    BY <1>2 DEF Shown
  <2>3. Shown \cup ToSet(partial) \subseteq 1..written
    BY <1>1 DEF OrderInv
  <2>4. Before(Shown, {written + 1}) /\ Before(ToSet(partial), {written + 1})
    BY <1>3, <2>3 DEF Before
  <2>5. Before(Shown', ToSet(partial') \cup Unread') /\ Before(ToSet(partial'), Unread')
    BY <1>1, <1>2, <2>1, <2>2, <2>4 DEF OrderInv, Before
  <2>6. Shown' \cup ToSet(partial') \subseteq 1..written'
    <3>1. 1..written \subseteq 1..written'
      BY <1>2, <1>3
    <3> QED BY <1>2, <2>2, <2>3, <3>1
  <2> QED BY <1>1, <1>2, <2>5, <2>6 DEF OrderInv
<1>10. CutInv'
  <2>1. offset \in 0..MaxPieces /\ (follower = "poll" /\ ~turned => offset <= Len(file))
    BY <1>1 DEF CutInv
  <2>2. follower = "poll" /\ ~turned => offset <= Len(file')
    BY <1>3, <1>5, <2>1
  <2>3. follower = "poll" /\ ~turned /\ offset % 2 = 1 => file'[offset] = file[offset]
    <3> SUFFICES ASSUME follower = "poll", ~turned, offset % 2 = 1 PROVE file'[offset] = file[offset]
      OBVIOUS
    <3>1. offset \in Nat /\ offset # 0 /\ offset <= Len(file)
      BY <1>3, <2>1
    <3> QED BY <1>3, <1>5, <3>1
  <2> QED BY <1>1, <1>2, <2>2, <2>3 DEF CutInv
<1>11. FlagInv'
  BY <1>1, <1>2 DEF FlagInv
<1> QED BY <1>6, <1>7, <1>8, <1>9, <1>10, <1>11 DEF LogInv

LEMMA RotateKeeps ==
  ASSUME Log!Sizes, LogInv, Log!Rotate
  PROVE  LogInv'
<1>1. FileInv /\ ViewInv /\ QueueInv /\ OrderInv /\ CutInv /\ FlagInv
  BY DEF LogInv
<1>2. /\ rotations < MaxRotations /\ rotations' = rotations + 1 /\ file' = <<>>
      /\ written' = IF written % 2 = 1 /\ written < MaxPieces THEN written + 1 ELSE written
      /\ turned' = (follower = "poll")
      /\ UNCHANGED <<kind, conn, down, up, entry, canceled, follower, offset, partial, torn, viewer, broken, channel,
                     seen, missed>>
  BY DEF Log!Rotate, Log!frames, Log!hub
<1>3. written \in Nat /\ MaxPieces \in Nat /\ written <= MaxPieces /\ MaxRotations \in Nat
  BY <1>1, FileIs DEF Log!Sizes
<1>4. written' \in 0..MaxPieces /\ written <= written' /\ (written' % 2 = 0 \/ written' = MaxPieces)
  BY <1>2, <1>3
<1>5. FileInv'
  <2>0. Len(file') = 0
    BY <1>2
  <2>1. file' \in Seq(1..MaxPieces) /\ Len(file') = 0
    BY <1>2
  <2>2. rotations' \in 0..MaxRotations /\ kind' \in Kinds
    BY <1>1, <1>2, <1>3 DEF FileInv
  <2>3. written' - Len(file') = written'
    <3>1. written' \in Int
      BY <1>3, <1>4
    <3>2. \A w \in Int : w - 0 = w
      OBVIOUS
    <3>3. written' - 0 = written'
      BY ONLY <3>1, <3>2
    <3> QED BY ONLY <2>0, <3>3
  <2>4. ((written' - Len(file')) % 2 = 0) \/ (file' = <<>> /\ written' = MaxPieces)
    BY <1>2, <1>4, <2>3
  <2>5. Len(file') <= written' /\ 1..Len(file') = {}
    BY <1>3, <1>4, <2>1
  <2> QED BY <1>4, <2>1, <2>2, <2>4, <2>5 DEF FileInv
<1>6. ViewInv'
  <2>1. Shown' = Shown
    BY <1>2 DEF Shown
  <2> QED BY <1>1, <1>2, <2>1 DEF ViewInv
<1>7. QueueInv'
  BY <1>1, <1>2 DEF QueueInv
<1>8. OrderInv'
  <2>1. Unread' = {}
    <3>1. DOMAIN file' = {}
      BY <1>2
    <3> QED BY <3>1 DEF Unread
  <2>2. LinesInc(seen') /\ QueueInc(channel') /\ QueueInc(up')
    BY <1>1, <1>2 DEF OrderInv
  <2>3. written \in Int /\ written' \in Int
    BY <1>3, <1>4
  <2> QED BY <1>1, <1>2, <1>4, <2>1, <2>2, <2>3, OrderKept
<1>9. CutInv'
  <2>1. follower' = "poll" => turned'
    BY <1>2
  <2> QED BY <1>1, <1>2, <2>1 DEF CutInv
<1>10. FlagInv'
  <2>1. turned' \in BOOLEAN
    BY <1>2
  <2> QED BY <1>1, <1>2, <2>1 DEF FlagInv
<1> QED BY <1>5, <1>6, <1>7, <1>8, <1>9, <1>10 DEF LogInv

\* Frames to the agent may be lost, heard, or joined by a log_cancel.
LEMMA ViewKept ==
  ASSUME ViewInv, down' \in Seq({"follow", "cancel"}), NEW d \in Int,
         \A i \in DOMAIN down' : down'[i] = "follow" => i + d \in DOMAIN down /\ down[i + d] = "follow",
         viewer' = viewer \/ (viewer' = "gone" /\ viewer # "none"),
         Shown' \subseteq Shown, UNCHANGED <<follower, partial, offset>>
  PROVE  ViewInv'
<1>1. \A i \in DOMAIN down' : i \in Int
  <2>1. DOMAIN down' = 1..Len(down')
    BY LenProperties
  <2> QED BY <2>1
<1>2. ASSUME NEW i \in DOMAIN down', NEW j \in DOMAIN down', down'[i] = "follow", down'[j] = "follow" PROVE i = j
  <2>1. i + d = j + d
    BY <1>2 DEF ViewInv
  <2> QED BY <1>1, <2>1
<1>3. ASSUME NEW i \in DOMAIN down', down'[i] = "follow" PROVE follower' = "none" /\ viewer' # "none"
  BY <1>3 DEF ViewInv
<1>4. viewer' \in {"none", "open", "gone"} /\ follower' \in {"none", "first", "poll", "ended"}
      /\ (viewer' = "none" => follower' = "none")
      /\ (follower' \in {"none", "first"} => Shown' = {} /\ partial' = <<>> /\ offset' = 0)
  BY DEF ViewInv
<1> QED BY <1>2, <1>3, <1>4 DEF ViewInv

LEMMA ShownKept ==
  ASSUME QueueSet(up') \subseteq QueueSet(up), QueueSet(channel') \subseteq QueueSet(channel), UNCHANGED seen
  PROVE  Shown' \subseteq Shown
BY DEF Shown

LEMMA BreakKeeps ==
  ASSUME Log!Sizes, LogInv, Log!Break
  PROVE  LogInv'
<1>1. FileInv /\ ViewInv /\ QueueInv /\ OrderInv /\ CutInv /\ FlagInv
  BY DEF LogInv
<1>2. /\ conn' = "lost" /\ broken' = TRUE /\ up' = <<>> /\ missed' = (missed \/ up # <<>>)
      /\ \E n \in 0..Len(down) : down' = SubSeq(down, 1, n)
      /\ UNCHANGED <<kind, written, file, rotations, entry, canceled, follower, offset, partial, turned, torn, viewer,
                     channel, seen>>
  BY DEF Log!Break, Log!log, Log!stream
<1>3. PICK n \in 0..Len(down) : down' = SubSeq(down, 1, n)
  BY <1>2
<1>4. down' \in Seq({"follow", "cancel"})
      /\ \A i \in DOMAIN down' : down'[i] = "follow" => i + 0 \in DOMAIN down /\ down[i + 0] = "follow"
  <2> DEFINE S == {"follow", "cancel"}
  <2>1. down \in Seq(S)
    BY <1>1 DEF ViewInv
  <2> HIDE DEF S
  <2>2. Len(down) \in Nat /\ DOMAIN down = 1..Len(down)
    BY <2>1, LenProperties
  <2>3. down' \in Seq(S) /\ Len(down') = n /\ \A i \in 1..n : down'[i] = down[i]
    BY <1>3, <2>1, <2>2
  <2>4. DOMAIN down' = 1..n
    BY <2>3, LenProperties
  <2>5. \A i \in 1..n : i + 0 = i /\ i \in 1..Len(down)
    BY <2>2
  <2> QED BY <2>2, <2>3, <2>4, <2>5 DEF S
<1>5. /\ QueueInv' /\ LinesInc(seen') /\ QueueInc(channel') /\ QueueInc(up')
      /\ LineSet(seen') \subseteq LineSet(seen) /\ QueueSet(channel') \subseteq QueueSet(channel)
      /\ QueueSet(up') \subseteq QueueSet(up)
  BY <1>1, <1>2, QueuesKept
<1>6. ViewInv'
  <2>1. Shown' \subseteq Shown
    BY <1>2, <1>5, ShownKept
  <2> QED BY <1>1, <1>2, <1>4, <2>1, ViewKept
<1>7. OrderInv'
  <2>1. Unread' = Unread /\ written \in Int
    BY <1>1, <1>2, UnreadKept, FileIs
  <2>2. ToSet(partial') \subseteq ToSet(partial) /\ Unread' \subseteq Unread /\ written' \in Int /\ written <= written'
    BY <1>2, <2>1
  <2> QED BY <1>1, <1>5, <2>1, <2>2, OrderKept
<1>8. FlagInv'
  <2>1. missed' \in BOOLEAN /\ broken' \in BOOLEAN /\ conn' \in {"up", "lost", "none"}
    BY <1>2
  <2> QED BY <1>1, <1>2, <2>1 DEF FlagInv
<1> QED BY <1>1, <1>2, <1>5, <1>6, <1>7, <1>8, FileKept, CutKept DEF LogInv

LEMMA NoticeKeeps ==
  ASSUME Log!Sizes, LogInv, Log!NoticeLoss \/ Log!Reconnect
  PROVE  LogInv'
<1>1. FileInv /\ ViewInv /\ QueueInv /\ OrderInv /\ CutInv /\ FlagInv
  BY DEF LogInv
<1>2. /\ conn' \in {"up", "lost", "none"} /\ (entry' = FALSE \/ entry' = entry)
      /\ (canceled' = (canceled \/ entry) \/ canceled' = canceled)
      /\ UNCHANGED <<kind, written, file, rotations, down, up, follower, offset, partial, turned, torn, viewer, broken,
                     channel, seen, missed>>
  BY DEF Log!NoticeLoss, Log!Reconnect, Log!CancelAll, Log!log, Log!frames, Log!stream, Log!hub
<1>3. FlagInv'
  <2>1. entry' \in BOOLEAN /\ canceled' \in BOOLEAN
    BY <1>1, <1>2 DEF FlagInv
  <2> QED BY <1>1, <1>2, <2>1 DEF FlagInv
<1>4. Shown' = Shown /\ Unread' = Unread
  BY <1>2 DEF Shown, Unread
<1>5. ViewInv' /\ QueueInv' /\ OrderInv'
  BY <1>1, <1>2, <1>4 DEF ViewInv, QueueInv, OrderInv
<1> QED BY <1>1, <1>2, <1>3, <1>5, FileKept, CutKept DEF LogInv

\* The agent hears the frames in their order.
LEMMA HearsIs ==
  ASSUME ViewInv, NEW f, Log!Hears(f)
  PROVE  /\ down' \in Seq({"follow", "cancel"}) /\ 1 \in DOMAIN down /\ down[1] = f
         /\ \A i \in DOMAIN down' : i + 1 \in DOMAIN down /\ i # 0 /\ down'[i] = down[i + 1]
<1> DEFINE S == {"follow", "cancel"}
<1>1. down \in Seq(S) /\ down # <<>> /\ Head(down) = f /\ down' = Tail(down)
  BY DEF ViewInv, Log!Hears
<1> HIDE DEF S
<1>2. /\ down' \in Seq(S) /\ Len(down') = Len(down) - 1 /\ DOMAIN down = 1..Len(down) /\ Len(down) \in Nat
      /\ DOMAIN down' = 1..Len(down') /\ \A i \in 1..Len(down') : down'[i] = down[i + 1]
  BY <1>1, HeadTailProperties, LenProperties
<1>3. Len(down) # 0 /\ down[1] = f
  BY <1>1, <1>2, EmptySeq
<1>4. 1 \in DOMAIN down
  BY <1>2, <1>3
<1>5. \A i \in DOMAIN down' : i + 1 \in DOMAIN down /\ i # 0
  BY <1>2
<1> QED BY <1>2, <1>3, <1>4, <1>5 DEF S

LEMMA CancelKeeps ==
  ASSUME Log!Sizes, LogInv, Log!Cancel
  PROVE  LogInv'
<1>1. FileInv /\ ViewInv /\ QueueInv /\ OrderInv /\ CutInv /\ FlagInv
  BY DEF LogInv
<1>2. /\ Log!Hears("cancel") /\ entry' = FALSE /\ canceled' = (canceled \/ entry)
      /\ UNCHANGED <<kind, written, file, rotations, conn, up, follower, offset, partial, turned, torn, viewer, broken,
                     channel, seen, missed>>
  BY DEF Log!Cancel, Log!log, Log!hub
<1>3. FlagInv'
  <2>1. entry' \in BOOLEAN /\ canceled' \in BOOLEAN
    BY <1>2
  <2> QED BY <1>1, <1>2, <2>1 DEF FlagInv
<1>4. Shown' = Shown /\ Unread' = Unread
  BY <1>2 DEF Shown, Unread
<1>5. ViewInv'
  <2>1. down' \in Seq({"follow", "cancel"})
        /\ \A i \in DOMAIN down' : down'[i] = "follow" => i + 1 \in DOMAIN down /\ down[i + 1] = "follow"
    BY <1>1, <1>2, HearsIs
  <2>2. Shown' \subseteq Shown /\ 1 \in Int
    BY <1>4
  <2> QED BY <1>1, <1>2, <2>1, <2>2, ViewKept
<1>6. QueueInv' /\ OrderInv'
  BY <1>1, <1>2, <1>4 DEF QueueInv, OrderInv
<1> QED BY <1>1, <1>2, <1>3, <1>5, <1>6, FileKept, CutKept DEF LogInv

LEMMA FollowKeeps ==
  ASSUME Log!Sizes, LogInv, Log!Follow
  PROVE  LogInv'
<1>1. FileInv /\ ViewInv /\ QueueInv /\ OrderInv /\ CutInv /\ FlagInv
  BY DEF LogInv
<1>2. /\ Log!Hears("follow") /\ entry' = TRUE
      /\ \/ Log!Send(<<Log!Chunk(<<>>, TRUE)>>) /\ canceled' = TRUE /\ UNCHANGED follower
         \/ follower' = "first" /\ UNCHANGED <<canceled, up, missed>>
      /\ UNCHANGED <<kind, written, file, rotations, conn, offset, partial, turned, torn, viewer, broken, channel, seen>>
  BY DEF Log!Follow, Log!log, Log!hub
<1>3. /\ down' \in Seq({"follow", "cancel"}) /\ 1 \in DOMAIN down /\ down[1] = "follow"
      /\ \A i \in DOMAIN down' : i + 1 \in DOMAIN down /\ i # 0 /\ down'[i] = down[i + 1]
  BY <1>1, <1>2, HearsIs
<1>4. follower = "none" /\ viewer # "none" /\ \A i \in DOMAIN down' : down'[i] # "follow"
  <2>1. follower = "none" /\ viewer # "none"
    BY <1>1, <1>3 DEF ViewInv
  <2>2. ASSUME NEW i \in DOMAIN down', down'[i] = "follow" PROVE FALSE
    <3>1. i + 1 \in DOMAIN down /\ down[i + 1] = "follow" /\ i # 0
      BY <1>3, <2>2
    <3>2. i + 1 = 1
      BY <1>1, <1>3, <3>1 DEF ViewInv
    <3>3. i \in Int
      <4>1. DOMAIN down' = 1..Len(down')
        BY <1>3, LenProperties
      <4> QED BY <4>1
    <3> QED BY <3>1, <3>2, <3>3
  <2> QED BY <2>1, <2>2
<1>5. /\ up' \in Seq(Batch(torn)) /\ Len(up') <= QueueCap /\ QueueInc(up') /\ missed' \in BOOLEAN
      /\ QueueSet(up') \subseteq QueueSet(up)
  <2>1. missed \in BOOLEAN
    BY <1>1 DEF FlagInv
  <2>2. CASE Log!Send(<<Log!Chunk(<<>>, TRUE)>>)
    BY <1>1, <2>1, <2>2, EofKeeps
  <2>3. CASE UNCHANGED <<canceled, up, missed>>
    BY <1>1, <2>1, <2>3 DEF QueueInv, OrderInv
  <2> QED BY <1>2, <2>2, <2>3
<1>6. ViewInv'
  <2>1. Shown' \subseteq Shown
    BY <1>2, <1>5, ShownKept
  <2>2. Shown = {} /\ partial = <<>> /\ offset = 0
    BY <1>1, <1>4 DEF ViewInv
  <2>3. follower' \in {"none", "first"} /\ viewer' # "none" /\ viewer' \in {"none", "open", "gone"}
    BY <1>1, <1>2, <1>4 DEF ViewInv
  <2> QED BY <1>2, <1>3, <1>4, <2>1, <2>2, <2>3 DEF ViewInv
<1>7. QueueInv'
  BY <1>1, <1>2, <1>5 DEF QueueInv
<1>8. OrderInv'
  <2>1. Unread' = Unread /\ written \in Int
    BY <1>1, <1>2, UnreadKept, FileIs
  <2>2. LinesInc(seen') /\ QueueInc(channel')
    BY <1>1, <1>2 DEF OrderInv
  <2>3. /\ LineSet(seen') \subseteq LineSet(seen) /\ QueueSet(channel') \subseteq QueueSet(channel)
        /\ ToSet(partial') \subseteq ToSet(partial) /\ Unread' \subseteq Unread /\ written' \in Int /\ written <= written'
    BY <1>2, <2>1
  <2> QED BY <1>1, <1>5, <2>1, <2>2, <2>3, OrderKept
<1>9. CutInv'
  <2>1. follower' # "poll"
    BY <1>2, <1>4
  <2> QED BY <1>1, <1>2, <2>1, CutKept
<1>10. FlagInv'
  <2>1. entry' \in BOOLEAN /\ canceled' \in BOOLEAN
    <3>1. canceled \in BOOLEAN
      BY <1>1 DEF FlagInv
    <3> QED BY <1>2, <3>1
  <2> QED BY <1>1, <1>2, <1>5, <2>1 DEF FlagInv
<1> QED BY <1>1, <1>2, <1>6, <1>7, <1>8, <1>9, <1>10, FileKept DEF LogInv

LEMMA EndKeeps ==
  ASSUME Log!Sizes, LogInv, Log!End
  PROVE  LogInv'
<1>1. FileInv /\ ViewInv /\ QueueInv /\ OrderInv /\ CutInv /\ FlagInv
  BY DEF LogInv
<1>2. /\ follower \in {"first", "poll"} /\ follower' = "ended" /\ entry' = FALSE
      /\ Log!Send(<<Log!Chunk(<<>>, TRUE)>>)
      /\ UNCHANGED <<kind, written, file, rotations, conn, down, canceled, offset, partial, turned, torn, viewer, broken,
                     channel, seen>>
  BY DEF Log!End, Log!SendEof, Log!log, Log!hub
<1>3. /\ up' \in Seq(Batch(torn)) /\ Len(up') <= QueueCap /\ QueueInc(up') /\ missed' \in BOOLEAN
      /\ QueueSet(up') \subseteq QueueSet(up)
  <2>1. missed \in BOOLEAN
    BY <1>1 DEF FlagInv
  <2> QED BY <1>1, <1>2, <2>1, EofKeeps
<1>4. ViewInv'
  BY <1>1, <1>2 DEF ViewInv
<1>5. QueueInv'
  BY <1>1, <1>2, <1>3 DEF QueueInv
<1>6. OrderInv'
  <2>1. Unread' = Unread /\ written \in Int
    BY <1>1, <1>2, UnreadKept, FileIs
  <2>2. LinesInc(seen') /\ QueueInc(channel')
    BY <1>1, <1>2 DEF OrderInv
  <2>3. /\ LineSet(seen') \subseteq LineSet(seen) /\ QueueSet(channel') \subseteq QueueSet(channel)
        /\ ToSet(partial') \subseteq ToSet(partial) /\ Unread' \subseteq Unread /\ written' \in Int /\ written <= written'
    BY <1>2, <2>1
  <2> QED BY <1>1, <1>3, <2>1, <2>2, <2>3, OrderKept
<1>7. CutInv'
  <2>1. follower' # "poll"
    BY <1>2
  <2> QED BY <1>1, <1>2, <2>1, CutKept
<1>8. FlagInv'
  <2>1. entry' \in BOOLEAN
    BY <1>2
  <2> QED BY <1>1, <1>2, <1>3, <2>1 DEF FlagInv
<1> QED BY <1>1, <1>2, <1>4, <1>5, <1>6, <1>7, <1>8, FileKept DEF LogInv

\* Nobody is following before there is a viewer, and the agent is told once.
LEMMA OpenKeeps ==
  ASSUME Log!Sizes, LogInv, Log!Open
  PROVE  LogInv'
<1>1. FileInv /\ ViewInv /\ QueueInv /\ OrderInv /\ CutInv /\ FlagInv
  BY DEF LogInv
<1>2. /\ viewer = "none" /\ viewer' = "open" /\ down' = Append(down, "follow")
      /\ UNCHANGED <<kind, written, file, rotations, conn, up, entry, canceled, follower, offset, partial, turned, torn,
                     broken, channel, seen, missed>>
  BY DEF Log!Open, Log!log, Log!stream
<1>3. Shown' = Shown /\ Unread' = Unread
  BY <1>2 DEF Shown, Unread
<1>4. /\ down' \in Seq({"follow", "cancel"}) /\ Len(down) \in Nat
      /\ \A i \in DOMAIN down' : down'[i] = "follow" => i = Len(down) + 1
  <2> DEFINE S == {"follow", "cancel"}
  <2>1. down \in Seq(S) /\ "follow" \in S
    BY <1>1 DEF ViewInv
  <2> HIDE DEF S
  <2>2. /\ down' \in Seq(S) /\ Len(down') = Len(down) + 1 /\ Len(down) \in Nat /\ DOMAIN down = 1..Len(down)
        /\ DOMAIN down' = 1..Len(down') /\ \A i \in 1..Len(down) : down'[i] = down[i]
    BY <1>2, <2>1, AppendProperties, LenProperties
  <2>3. ASSUME NEW i \in DOMAIN down', down'[i] = "follow" PROVE i = Len(down) + 1
    <3> SUFFICES ASSUME i # Len(down) + 1 PROVE FALSE
      OBVIOUS
    <3>1. i \in 1..Len(down)
      BY <2>2
    <3>2. i \in DOMAIN down /\ down[i] = "follow"
      BY <2>2, <2>3, <3>1
    <3> QED BY <1>1, <1>2, <3>2 DEF ViewInv
  <2> QED BY <2>2, <2>3 DEF S
<1>5. ViewInv'
  <2>1. follower = "none" /\ Shown = {} /\ partial = <<>> /\ offset = 0
    BY <1>1, <1>2 DEF ViewInv
  <2> QED BY <1>2, <1>3, <1>4, <2>1 DEF ViewInv
<1>6. QueueInv' /\ OrderInv'
  BY <1>1, <1>2, <1>3 DEF QueueInv, OrderInv
<1>7. FlagInv'
  BY <1>1, <1>2 DEF FlagInv
<1> QED BY <1>1, <1>2, <1>5, <1>6, <1>7, FileKept, CutKept DEF LogInv

\* The handler's deferred function.
LEMMA GoneKeeps ==
  ASSUME ViewInv, viewer = "open", Log!Gone, Shown' \subseteq Shown, UNCHANGED <<follower, partial, offset>>
  PROVE  ViewInv'
<1> DEFINE S == {"follow", "cancel"}
<1>1. down \in Seq(S) /\ "cancel" \in S
  BY DEF ViewInv
<1>2. viewer' = "gone" /\ (down' = down \/ down' = Append(down, "cancel"))
  BY DEF Log!Gone
<1>3. down' \in Seq(S) /\ \A i \in DOMAIN down' : down'[i] = "follow" => i + 0 \in DOMAIN down /\ down[i + 0] = "follow"
  <2>1. "cancel" # "follow"
    OBVIOUS
  <2> HIDE DEF S
  <2>2. Len(down) \in Nat /\ DOMAIN down = 1..Len(down)
    BY <1>1, LenProperties
  <2>3. \A i \in 1..Len(down) : i + 0 = i
    BY <2>2
  <2>4. CASE down' = down
    BY <1>1, <2>2, <2>3, <2>4
  <2>5. CASE down' = Append(down, "cancel")
    <3>1. /\ down' \in Seq(S) /\ Len(down') = Len(down) + 1 /\ DOMAIN down' = 1..Len(down')
          /\ \A i \in 1..Len(down) : down'[i] = down[i]
          /\ down'[Len(down) + 1] = "cancel"
      BY <1>1, <2>5, AppendProperties, LenProperties
    <3>2. ASSUME NEW i \in DOMAIN down', down'[i] = "follow" PROVE i + 0 \in DOMAIN down /\ down[i + 0] = "follow"
      <4>1. i \in 1..(Len(down) + 1) /\ i # Len(down) + 1
        BY <2>1, <3>1, <3>2
      <4>2. i \in 1..Len(down)
        BY <2>2, <4>1
      <4> QED BY <2>2, <2>3, <3>1, <3>2, <4>2
    <3> QED BY <3>1, <3>2
  <2> QED BY <1>2, <2>4, <2>5
<1>4. 0 \in Int /\ viewer # "none"
  OBVIOUS
<1> QED BY <1>2, <1>3, <1>4, ViewKept

LEMMA CloseKeeps ==
  ASSUME Log!Sizes, LogInv, Log!Close \/ Log!AgentDisconnected
  PROVE  LogInv'
<1>1. FileInv /\ ViewInv /\ QueueInv /\ OrderInv /\ CutInv /\ FlagInv
  BY DEF LogInv
<1>2. /\ viewer = "open" /\ Log!Gone /\ channel' = <<>>
      /\ UNCHANGED <<kind, written, file, rotations, conn, up, entry, canceled, follower, offset, partial, turned, torn,
                     broken, seen, missed>>
  BY DEF Log!Close, Log!AgentDisconnected, Log!Gone, Log!log, Log!stream
<1>3. /\ QueueInv' /\ LinesInc(seen') /\ QueueInc(channel') /\ QueueInc(up')
      /\ LineSet(seen') \subseteq LineSet(seen) /\ QueueSet(channel') \subseteq QueueSet(channel)
      /\ QueueSet(up') \subseteq QueueSet(up)
  BY <1>1, <1>2, QueuesKept
<1>4. ViewInv'
  <2>1. Shown' \subseteq Shown
    BY <1>2, <1>3, ShownKept
  <2> QED BY <1>1, <1>2, <2>1, GoneKeeps
<1>5. OrderInv'
  <2>1. Unread' = Unread /\ written \in Int
    BY <1>1, <1>2, UnreadKept, FileIs
  <2>2. ToSet(partial') \subseteq ToSet(partial) /\ Unread' \subseteq Unread /\ written' \in Int /\ written <= written'
    BY <1>2, <2>1
  <2> QED BY <1>1, <1>3, <2>1, <2>2, OrderKept
<1>6. FlagInv'
  BY <1>1, <1>2 DEF FlagInv
<1> QED BY <1>1, <1>2, <1>3, <1>4, <1>5, <1>6, FileKept, CutKept DEF LogInv

\* The first batch of a queue in order comes before the others.
LEMMA QueueHead ==
  ASSUME NEW S, NEW q \in Seq(S), q # <<>>
  PROVE  /\ Head(q) \in S /\ Tail(q) \in Seq(S) /\ Len(Tail(q)) <= Len(q)
         /\ QueueSet(Tail(q)) \subseteq QueueSet(q) /\ LineSet(Head(q).lines) \subseteq QueueSet(q)
         /\ QueueInc(q) => /\ QueueInc(Tail(q)) /\ LinesInc(Head(q).lines)
                           /\ Before(LineSet(Head(q).lines), QueueSet(Tail(q)))
<1> DEFINE h == Head(q)
           t == Tail(q)
<1>1. /\ DOMAIN q = 1..Len(q) /\ Len(q) \in Nat /\ Len(q) # 0 /\ h = q[1]
      /\ t \in Seq(S) /\ Len(t) = Len(q) - 1 /\ \A i \in 1..Len(t) : t[i] = q[i + 1]
  BY HeadTailProperties, LenProperties, EmptySeq
<1> HIDE DEF h, t
<1>2. 1 \in 1..Len(q) /\ h \in S
  BY <1>1, ElementOfSeq
<1>3. \A i \in 1..Len(t) : i + 1 \in 1..Len(q) /\ t[i] = q[i + 1] /\ 1 < i + 1
  BY <1>1
<1>4. QueueSet(t) \subseteq QueueSet(q) /\ (QueueInc(q) => QueueInc(t))
  BY <1>1, <1>3, QueuePart
<1>5. LineSet(h.lines) \subseteq QueueSet(q)
  BY <1>1, <1>2, InQueue
<1>6. ASSUME QueueInc(q) PROVE LinesInc(h.lines) /\ Before(LineSet(h.lines), QueueSet(t))
  <2>1. LinesInc(h.lines)
    BY <1>1, <1>2, <1>6 DEF QueueInc
  <2>2. ASSUME NEW x \in LineSet(h.lines), NEW y \in QueueSet(t) PROVE x < y
    <3>1. PICK i \in 1..Len(t) : y \in LineSet(t[i].lines)
      BY <1>1, InQueue
    <3>2. i + 1 \in DOMAIN q /\ 1 \in DOMAIN q /\ 1 < i + 1 /\ t[i] = q[i + 1]
      BY <1>1, <1>2, <1>3
    <3>3. Before(LineSet(q[1].lines), LineSet(q[i + 1].lines))
      BY <1>6, <3>2 DEF QueueInc
    <3> QED BY <1>1, <2>2, <3>1, <3>2, <3>3 DEF Before
  <2> QED BY <2>1, <2>2 DEF Before
<1>7. Len(t) <= Len(q)
  BY <1>1
<1> QED BY <1>1, <1>2, <1>4, <1>5, <1>6, <1>7 DEF h, t

\* What moves on from queue to queue stays in order.
LEMMA OrderMoved ==
  ASSUME OrderInv, LinesInc(seen'), QueueInc(channel'), QueueInc(up'), Shown' \subseteq Shown,
         Before(LineSet(seen'), QueueSet(channel')), Before(LineSet(seen') \cup QueueSet(channel'), QueueSet(up')),
         UNCHANGED <<file, offset, turned, partial, written>>
  PROVE  OrderInv'
<1>1. Unread' = Unread
  BY UnreadKept
<1>2. Before(Shown', ToSet(partial') \cup Unread') /\ Before(ToSet(partial'), Unread')
  BY <1>1 DEF OrderInv, Before
<1>3. Shown' \cup ToSet(partial') \subseteq 1..written'
  BY DEF OrderInv
<1> QED BY <1>2, <1>3 DEF OrderInv

LEMMA DeliverKeeps ==
  ASSUME Log!Sizes, LogInv, Log!Deliver
  PROVE  LogInv'
<1> DEFINE B == Batch(torn)
           one == <<Head(up)>>
<1>1. FileInv /\ ViewInv /\ QueueInv /\ OrderInv /\ CutInv /\ FlagInv
  BY DEF LogInv
<1>2. /\ up # <<>> /\ up' = Tail(up)
      /\ \/ UNCHANGED <<channel, missed>>
         \/ Len(channel) < ChanCap /\ channel' = Append(channel, Head(up)) /\ UNCHANGED missed
         \/ missed' = TRUE /\ UNCHANGED channel
      /\ UNCHANGED <<kind, written, file, rotations, conn, down, entry, canceled, follower, offset, partial, turned, torn,
                     viewer, broken, seen>>
  BY DEF Log!Deliver, Log!log, Log!stream
<1>3. /\ up \in Seq(B) /\ channel \in Seq(B) /\ Len(up) <= QueueCap /\ Len(channel) <= ChanCap
      /\ ChanCap \in Nat /\ QueueCap \in Nat
  BY <1>1 DEF QueueInv, Log!Sizes
<1>4. /\ QueueInc(channel) /\ QueueInc(up) /\ LinesInc(seen) /\ Before(LineSet(seen), QueueSet(channel))
      /\ Before(LineSet(seen) \cup QueueSet(channel), QueueSet(up))
  BY <1>1 DEF OrderInv
<1> HIDE DEF B
<1>5. /\ Head(up) \in B /\ up' \in Seq(B) /\ Len(up') <= Len(up)
      /\ QueueSet(up') \subseteq QueueSet(up) /\ LineSet(Head(up).lines) \subseteq QueueSet(up)
      /\ QueueInc(up') /\ LinesInc(Head(up).lines) /\ Before(LineSet(Head(up).lines), QueueSet(up'))
  BY <1>2, <1>3, <1>4, QueueHead
<1>6. one \in Seq(B) /\ QueueSet(one) = LineSet(Head(up).lines) /\ QueueInc(one)
  <2>1. one \in Seq(B) /\ DOMAIN one = {1} /\ one[1] = Head(up)
    BY <1>5
  <2> HIDE DEF one
  <2>2. QueueSet(one) = LineSet(Head(up).lines)
    BY <2>1 DEF QueueSet
  <2>3. QueueInc(one)
    BY <1>5, <2>1 DEF QueueInc
  <2> QED BY <2>1, <2>2, <2>3
<1>7. Append(channel, Head(up)) = channel \o one
  BY <1>3, <1>5, AppendIsConcat
<1> HIDE DEF one
<1>8. Len(up') <= QueueCap /\ up' \in Seq(B)
  <2>1. Len(up') \in Nat /\ Len(up) \in Nat
    BY <1>3, <1>5, LenProperties
  <2> QED BY <1>3, <1>5, <2>1
<1>9. /\ channel' \in Seq(B) /\ Len(channel') <= ChanCap /\ QueueInc(channel')
      /\ QueueSet(channel') \subseteq QueueSet(channel) \cup LineSet(Head(up).lines)
      /\ missed' \in BOOLEAN
  <2>0. missed \in BOOLEAN
    BY <1>1 DEF FlagInv
  <2>1. CASE UNCHANGED channel
    BY <1>2, <1>3, <1>4, <2>0, <2>1
  <2>2. CASE Len(channel) < ChanCap /\ channel' = channel \o one /\ UNCHANGED missed
    <3>1. Before(QueueSet(channel), QueueSet(one))
      BY <1>4, <1>5, <1>6 DEF Before
    <3>2. QueueSet(channel') = QueueSet(channel) \cup QueueSet(one) /\ QueueInc(channel')
      BY <1>3, <1>4, <1>6, <2>2, <3>1, QueueConcat
    <3>3. channel' \in Seq(B) /\ Len(channel') = Len(channel) + 1
      <4>1. channel' = Append(channel, Head(up))
        BY <1>7, <2>2
      <4> QED BY <1>3, <1>5, <4>1, AppendProperties
    <3>4. Len(channel') <= ChanCap
      <4>1. Len(channel) \in Nat
        BY <1>3, LenProperties
      <4> QED BY <1>3, <2>2, <3>3, <4>1
    <3> QED BY <1>6, <2>0, <2>2, <3>2, <3>3, <3>4
  <2> QED BY <1>2, <1>7, <2>1, <2>2
<1>10. Shown' \subseteq Shown
  BY <1>2, <1>5, <1>9 DEF Shown
<1>11. ViewInv'
  BY <1>1, <1>2, <1>10 DEF ViewInv
<1>12. QueueInv'
  BY <1>1, <1>2, <1>8, <1>9 DEF QueueInv, B
<1>13. OrderInv'
  <2>1. Before(LineSet(seen'), QueueSet(channel')) /\ Before(LineSet(seen') \cup QueueSet(channel'), QueueSet(up'))
    BY <1>2, <1>4, <1>5, <1>9 DEF Before
  <2>2. LinesInc(seen')
    BY <1>2, <1>4
  <2> QED BY <1>1, <1>2, <1>5, <1>9, <1>10, <2>1, <2>2, OrderMoved
<1>14. FlagInv'
  BY <1>1, <1>2, <1>9 DEF FlagInv
<1> QED BY <1>1, <1>2, <1>11, <1>12, <1>13, <1>14, FileKept, CutKept DEF LogInv

LEMMA ShowKeeps ==
  ASSUME Log!Sizes, LogInv, Log!Show
  PROVE  LogInv'
<1> DEFINE F == Fine(torn)
           B == Batch(torn)
           L == Head(channel).lines
<1>1. FileInv /\ ViewInv /\ QueueInv /\ OrderInv /\ CutInv /\ FlagInv
  BY DEF LogInv
<1>2. /\ viewer = "open" /\ channel # <<>> /\ seen' = seen \o L
      /\ \/ Log!Gone
         \/ channel' = Tail(channel) /\ UNCHANGED <<viewer, down>>
      /\ channel' = <<>> \/ channel' = Tail(channel)
      /\ UNCHANGED <<kind, written, file, rotations, conn, up, entry, canceled, follower, offset, partial, turned, torn,
                     broken, missed>>
  BY DEF Log!Show, Log!Gone, Log!log, Log!stream
<1>3. /\ up \in Seq(B) /\ channel \in Seq(B) /\ Len(up) <= QueueCap /\ Len(channel) <= ChanCap
      /\ seen \in Seq(F) /\ ChanCap \in Nat
  BY <1>1 DEF QueueInv, Log!Sizes
<1>4. /\ QueueInc(channel) /\ QueueInc(up) /\ LinesInc(seen) /\ Before(LineSet(seen), QueueSet(channel))
      /\ Before(LineSet(seen) \cup QueueSet(channel), QueueSet(up))
  BY <1>1 DEF OrderInv
<1>5. /\ Head(channel) \in B /\ Tail(channel) \in Seq(B) /\ Len(Tail(channel)) <= Len(channel)
      /\ QueueSet(Tail(channel)) \subseteq QueueSet(channel) /\ LineSet(L) \subseteq QueueSet(channel)
      /\ QueueInc(Tail(channel)) /\ LinesInc(L) /\ Before(LineSet(L), QueueSet(Tail(channel)))
  <2> HIDE DEF B
  <2> QED BY <1>2, <1>3, <1>4, QueueHead
<1>6. L \in Seq(F)
  BY <1>5 DEF Batch
<1> HIDE DEF B, F, L
<1>7. LineSet(seen') = LineSet(seen) \cup LineSet(L) /\ LinesInc(seen')
  <2>1. Before(LineSet(seen), LineSet(L))
    BY <1>4, <1>5 DEF Before
  <2> QED BY <1>2, <1>3, <1>4, <1>5, <1>6, <2>1, LinesConcat
<1>8. seen' \in Seq(F)
  BY <1>2, <1>3, <1>6, ConcatProperties
<1>9. /\ channel' \in Seq(B) /\ Len(channel') <= ChanCap /\ QueueInc(channel')
      /\ QueueSet(channel') \subseteq QueueSet(channel) /\ Before(LineSet(L), QueueSet(channel'))
  <2>1. CASE channel' = <<>>
    <3>1. <<>> \in Seq(B) /\ Len(<<>>) = 0
      OBVIOUS
    <3>2. QueueSet(<<>>) = {} /\ QueueInc(<<>>)
      BY QueueNone
    <3>3. Len(channel') <= ChanCap
      BY <1>3, <2>1, <3>1
    <3> QED BY <2>1, <3>1, <3>2, <3>3 DEF Before
  <2>2. CASE channel' = Tail(channel)
    <3>1. Len(channel') \in Nat /\ Len(channel) \in Nat
      BY <1>3, <1>5, <2>2, LenProperties
    <3>2. Len(channel') <= ChanCap
      BY <1>3, <1>5, <2>2, <3>1
    <3> QED BY <1>5, <2>2, <3>2
  <2> QED BY <1>2, <2>1, <2>2
<1>10. Shown' \subseteq Shown
  BY <1>2, <1>5, <1>7, <1>9 DEF Shown
<1>11. ViewInv'
  <2>1. CASE Log!Gone
    BY <1>1, <1>2, <1>10, <2>1, GoneKeeps
  <2>2. CASE UNCHANGED <<viewer, down>>
    BY <1>1, <1>2, <1>10, <2>2 DEF ViewInv
  <2> QED BY <1>2, <2>1, <2>2
<1>12. QueueInv'
  BY <1>1, <1>2, <1>8, <1>9 DEF QueueInv, B, F
<1>13. OrderInv'
  <2>1. Before(LineSet(seen'), QueueSet(channel')) /\ Before(LineSet(seen') \cup QueueSet(channel'), QueueSet(up'))
    BY <1>2, <1>4, <1>5, <1>7, <1>9 DEF Before
  <2>2. QueueInc(up')
    BY <1>2, <1>4
  <2> QED BY <1>1, <1>2, <1>7, <1>9, <1>10, <2>1, <2>2, OrderMoved
<1>14. FlagInv'
  BY <1>1, <1>2 DEF FlagInv
<1> QED BY <1>1, <1>2, <1>11, <1>12, <1>13, <1>14, FileKept, CutKept DEF LogInv

LEMMA LogFirst == Log!Sizes /\ Log!Init => LogInv
<1> SUFFICES ASSUME Log!Sizes, Log!Init PROVE LogInv
  OBVIOUS
<1>1. /\ kind \in Kinds /\ written = 0 /\ file = <<>> /\ rotations = 0
      /\ conn = "up" /\ down = <<>> /\ up = <<>>
      /\ entry = FALSE /\ canceled = FALSE /\ follower = "none" /\ offset = 0 /\ partial = <<>>
      /\ turned = FALSE
      /\ viewer = "none" /\ broken = FALSE /\ channel = <<>>
      /\ seen = <<>> /\ torn = {} /\ missed = FALSE
  BY DEF Log!Init
<1>2. MaxPieces \in Nat /\ MaxRotations \in Nat /\ QueueCap \in Nat /\ ChanCap \in Nat
  BY DEF Log!Sizes
<1>3. \A S : <<>> \in Seq(S)
  OBVIOUS
<1>4. Len(<<>>) = 0 /\ DOMAIN <<>> = {} /\ 0 \in 0..MaxPieces /\ 0 \in 0..MaxRotations /\ 0 <= QueueCap /\ 0 <= ChanCap
      /\ 1..0 = {} /\ 0 - 0 = 0
  BY <1>2
<1>5. 0 % 2 = 0
  OBVIOUS
<1>6. FileInv
  <2>1. written - Len(file) = 0
    BY <1>1, <1>4
  <2>2. (written - Len(file)) % 2 = 0
    BY <1>5, <2>1
  <2>3. Len(file) <= written /\ \A i \in 1..Len(file) : file[i] = written - Len(file) + i
    BY <1>1, <1>4
  <2> QED BY <1>1, <1>3, <1>4, <2>2, <2>3 DEF FileInv
<1>7. Shown = {} /\ Unread = {} /\ ToSet(partial) = {} /\ LineSet(<<>>) = {} /\ QueueSet(<<>>) = {}
  <2>1. LineSet(<<>>) = {} /\ QueueSet(<<>>) = {}
    BY <1>4 DEF LineSet, QueueSet
  <2> QED BY <1>1, <1>4, <2>1 DEF Shown, Unread, ToSet
<1>8. ViewInv
  BY <1>1, <1>3, <1>4, <1>7 DEF ViewInv
<1>9. QueueInv
  BY <1>1, <1>3, <1>4 DEF QueueInv
<1>10. OrderInv
  <2>1. LinesInc(<<>>) /\ QueueInc(<<>>)
    BY <1>4 DEF LinesInc, QueueInc
  <2> QED BY <1>1, <1>7, <2>1 DEF OrderInv, Before
<1>11. CutInv
  BY <1>1, <1>3, <1>4 DEF CutInv
<1>12. FlagInv
  BY <1>1 DEF FlagInv
<1> QED BY <1>6, <1>8, <1>9, <1>10, <1>11, <1>12 DEF LogInv

LEMMA LogStep == Log!Sizes /\ LogInv /\ [Log!Next]_Log!vars => LogInv'
<1> SUFFICES ASSUME Log!Sizes, LogInv, [Log!Next]_Log!vars PROVE LogInv'
  OBVIOUS
<1>1. CASE Log!Next
  <2>1. \/ Log!Write \/ Log!Rotate \/ Log!Break \/ (Log!NoticeLoss \/ Log!Reconnect)
        \/ Log!Follow \/ Log!Cancel \/ Log!FirstRead \/ Log!Poll \/ Log!End
        \/ Log!Open \/ (Log!Close \/ Log!AgentDisconnected) \/ Log!Deliver \/ Log!Show
    BY <1>1 DEF Log!Next, Log!Agent, Log!Hub
  <2> QED BY <2>1, WriteKeeps, RotateKeeps, BreakKeeps, NoticeKeeps, FollowKeeps, CancelKeeps, FirstKeeps, PollKeeps,
             EndKeeps, OpenKeeps, CloseKeeps, DeliverKeeps, ShowKeeps
<1>2. CASE UNCHANGED Log!vars
  <2>1. UNCHANGED <<kind, written, file, rotations, conn, down, up, entry, canceled, follower, offset, partial, turned,
                    torn, viewer, broken, channel, seen, missed>>
    BY <1>2 DEF Log!vars, Log!log, Log!frames, Log!stream, Log!hub
  <2>2. Shown' = Shown /\ Unread' = Unread
    BY <2>1 DEF Shown, Unread
  <2>3. ViewInv' /\ QueueInv' /\ OrderInv' /\ CutInv' /\ FlagInv'
    BY <2>1, <2>2 DEF LogInv, ViewInv, QueueInv, OrderInv, CutInv, FlagInv
  <2> QED BY <2>1, <2>3, FileKept DEF LogInv
<1> QED BY <1>1, <1>2

-----------------------------------------------------------------------------
(* What the viewer sees.                                                   *)

LEMMA SeqWithin ==
  ASSUME NEW S, NEW T, S \subseteq T, NEW s \in Seq(S)
  PROVE  s \in Seq(T)
OBVIOUS

LEMMA IncConcat ==
  ASSUME NEW a \in Seq(Int), NEW b \in Seq(Int), Inc(a), Inc(b), Before(ToSet(a), ToSet(b))
  PROVE  a \o b \in Seq(Int) /\ Inc(a \o b) /\ ToSet(a \o b) = ToSet(a) \cup ToSet(b)
<1> DEFINE c == a \o b
<1>1. /\ c \in Seq(Int) /\ Len(c) = Len(a) + Len(b)
      /\ \A i \in 1..(Len(a) + Len(b)) : c[i] = IF i <= Len(a) THEN a[i] ELSE b[i - Len(a)]
  BY ConcatProperties
<1> HIDE DEF c
<1>2. /\ DOMAIN a = 1..Len(a) /\ Len(a) \in Nat /\ DOMAIN b = 1..Len(b) /\ Len(b) \in Nat
      /\ DOMAIN c = 1..(Len(a) + Len(b))
  BY <1>1, LenProperties
<1>3. ASSUME NEW i \in 1..Len(a) PROVE i \in DOMAIN c /\ c[i] = a[i]
  BY <1>1, <1>2
<1>4. ASSUME NEW i \in 1..Len(b) PROVE i + Len(a) \in DOMAIN c /\ c[i + Len(a)] = b[i]
  <2>1. i + Len(a) \in 1..(Len(a) + Len(b)) /\ ~(i + Len(a) <= Len(a)) /\ (i + Len(a)) - Len(a) = i
    BY <1>2
  <2> QED BY <1>1, <1>2, <2>1
<1>5. ASSUME NEW i \in DOMAIN c, i > Len(a) PROVE i - Len(a) \in 1..Len(b) /\ c[i] = b[i - Len(a)]
  BY <1>1, <1>2, <1>5
<1>6. ASSUME NEW i \in DOMAIN c, ~(i > Len(a)) PROVE i \in 1..Len(a) /\ c[i] = a[i]
  BY <1>1, <1>2, <1>6
<1>7. ToSet(c) = ToSet(a) \cup ToSet(b)
  <2>1. ASSUME NEW i \in DOMAIN c PROVE c[i] \in ToSet(a) \cup ToSet(b)
    BY <1>2, <1>5, <1>6 DEF ToSet
  <2>2. \A i \in DOMAIN a : a[i] \in ToSet(c)
    BY <1>2, <1>3 DEF ToSet
  <2>3. \A i \in DOMAIN b : b[i] \in ToSet(c)
    BY <1>2, <1>4 DEF ToSet
  <2>4. ToSet(c) \subseteq ToSet(a) \cup ToSet(b)
    BY <2>1 DEF ToSet
  <2>5. ToSet(a) \subseteq ToSet(c) /\ ToSet(b) \subseteq ToSet(c)
    BY <2>2, <2>3 DEF ToSet
  <2> QED BY <2>4, <2>5
<1>8. ASSUME NEW i \in DOMAIN c, NEW j \in DOMAIN c, i < j PROVE c[i] < c[j]
  <2>1. CASE i > Len(a)
    <3>1. j > Len(a)
      BY <1>2, <1>8, <2>1
    <3>2. i - Len(a) < j - Len(a)
      BY <1>2, <1>8
    <3> QED BY <1>2, <1>5, <2>1, <3>1, <3>2 DEF Inc
  <2>2. CASE ~(j > Len(a))
    <3>1. ~(i > Len(a))
      BY <1>2, <1>8, <2>2
    <3> QED BY <1>2, <1>6, <1>8, <2>2, <3>1 DEF Inc
  <2>3. CASE ~(i > Len(a)) /\ j > Len(a)
    <3>1. c[i] \in ToSet(a) /\ c[j] \in ToSet(b)
      BY <1>2, <1>5, <1>6, <2>3 DEF ToSet
    <3> QED BY <3>1 DEF Before
  <2> QED BY <2>1, <2>2, <2>3
<1> QED BY <1>1, <1>7, <1>8 DEF Inc, c

\* f[i] is the text of the first i lines.
Flat(f, n, L) == f = [i \in 1..n |-> IF i = 1 THEN L[i] ELSE f[i - 1] \o L[i]]

LEMMA FlatExists ==
  ASSUME NEW n \in Nat, NEW L, \A i \in 1..n : L[i] \in Seq(Int)
  PROVE  \E f : Flat(f, n, L)
<1> DEFINE A == Seq(Int)
           g == [p \in A \X A |-> p[1] \o p[2]]
<1>1. g \in [A \X A -> A] /\ <<>> \in A /\ \A a, b \in A : g[<<a, b>>] = a \o b
  <2>1. \A a, b \in A : a \o b \in A
    BY ConcatProperties
  <2> HIDE DEF A
  <2>2. \A p \in A \X A : p[1] \in A /\ p[2] \in A
    OBVIOUS
  <2>3. <<>> \in A
    BY DEF A
  <2> QED BY <2>1, <2>2, <2>3
<1> HIDE DEF g, A
<1>2. PICK F, st : IsFoldLeft(F, st, n, L, A, <<>>, g)
  <2>1. \A i \in 1..n : L[i] \in A
    BY DEF A
  <2> QED BY <1>1, <2>1, FoldLeftStates
<1>3. st \in [0..n -> A] /\ st[0] = <<>> /\ \A i \in 1..n : st[i] = g[<<st[i - 1], L[i]>>]
  BY <1>2 DEF IsFoldLeft, Runs
<1>4. ASSUME NEW i \in 1..n PROVE st[i] = st[i - 1] \o L[i]
  <2>1. st[i - 1] \in A /\ L[i] \in A
    BY <1>3 DEF A
  <2> QED BY <1>1, <1>3, <2>1
<1>5. ASSUME 1 \in 1..n PROVE st[1] = L[1]
  <2>1. st[1] = <<>> \o L[1]
    <3>1. 1 - 1 = 0 /\ 0 \in 0..n
      OBVIOUS
    <3>2. st[1] = g[<<st[1 - 1], L[1]>>]
      BY ONLY <1>3, <1>5
    <3>3. st[0] \in A /\ L[1] \in A
      BY <1>3, <1>5, <3>1 DEF A
    <3>4. g[<<st[0], L[1]>>] = st[0] \o L[1]
      BY <1>1, <3>3
    <3> QED BY ONLY <1>3, <3>1, <3>2, <3>4
  <2>2. L[1] \in Seq(Int)
    BY <1>5
  <2>3. <<>> \o L[1] = L[1]
    BY <2>2, ConcatEmptySeq
  <2> QED BY <2>1, <2>3
<1> DEFINE f == [i \in 1..n |-> st[i]]
<1>6. ASSUME NEW i \in 1..n PROVE f[i] = IF i = 1 THEN L[i] ELSE f[i - 1] \o L[i]
  <2>1. i # 1 => i - 1 \in 1..n
    OBVIOUS
  <2> QED BY <1>4, <1>5, <2>1
<1>7. Flat(f, n, L)
  <2>1. f = [i \in 1..n |-> f[i]]
    OBVIOUS
  <2> HIDE DEF f
  <2> QED BY <1>6, <2>1 DEF Flat
<1> QED BY <1>7

LEMMA FlattenIs ==
  ASSUME NEW L \in Seq(Seq(Int)), Len(L) # 0
  PROVE  \E f : Flat(f, Len(L), L) /\ Log!FlattenSeq(L) = f[Len(L)]
<1> DEFINE f == CHOOSE f : Flat(f, Len(L), L)
<1>1. Len(L) \in Nat /\ \A i \in 1..Len(L) : L[i] \in Seq(Int)
  BY LenProperties, ElementOfSeq
<1>2. Flat(f, Len(L), L)
  <2>1. \E h : Flat(h, Len(L), L)
    BY <1>1, FlatExists
  <2> QED BY <2>1
<1>3. Log!FlattenSeq(L) = f[Len(L)]
  BY Zenon DEF Log!FlattenSeq, Flat
<1> QED BY <1>2, <1>3

\* The text of lines in order is in order.
LEMMA FlattenInc ==
  ASSUME NEW L \in Seq(Seq(Int)), LinesInc(L), \A i \in DOMAIN L : Inc(L[i])
  PROVE  Log!FlattenSeq(L) \in Seq(Int) /\ Inc(Log!FlattenSeq(L))
<1>1. Len(L) \in Nat /\ DOMAIN L = 1..Len(L) /\ \A i \in 1..Len(L) : L[i] \in Seq(Int)
  BY LenProperties, ElementOfSeq
<1>2. CASE Len(L) = 0
  <2>1. L = <<>>
    BY <1>2, EmptySeq
  <2>2. Log!FlattenSeq(L) = <<>>
    BY <1>2, <2>1 DEF Log!FlattenSeq
  <2> QED BY <2>2 DEF Inc
<1>3. CASE Len(L) # 0
  <2>1. PICK f : Flat(f, Len(L), L) /\ Log!FlattenSeq(L) = f[Len(L)]
    BY <1>3, FlattenIs
  <2>2. \A i \in 1..Len(L) : f[i] = IF i = 1 THEN L[i] ELSE f[i - 1] \o L[i]
    BY <2>1 DEF Flat
  <2> DEFINE Good(i) == f[i] \in Seq(Int) /\ Inc(f[i]) /\ ToSet(f[i]) \subseteq UNION {ToSet(L[j]) : j \in 1..i}
             T == {i \in 0..Len(L) : i # 0 => Good(i)}
  <2>3. 0 \in T
    BY <1>1
  <2>4. ASSUME NEW i \in 0..(Len(L) - 1), i \in T PROVE i + 1 \in T
    <3>0. i + 1 \in 1..Len(L) /\ i + 1 \in 0..Len(L)
      BY <1>1
    <3>1. CASE i = 0
      <4>1. f[1] = L[1] /\ 1 \in 1..1 /\ L[1] \in Seq(Int) /\ Inc(L[1])
        BY <1>1, <2>2, <3>0, <3>1
      <4>2. Good(1)
        BY <4>1
      <4>3. i + 1 = 1
        BY <3>1
      <4> HIDE DEF Good
      <4> QED BY <3>0, <4>2, <4>3
    <3>2. CASE i # 0
      <4>1. f[i + 1] = f[i] \o L[i + 1]
        <5>1. i + 1 # 1 /\ (i + 1) - 1 = i
          BY <3>2
        <5> QED BY <2>2, <3>0, <5>1
      <4>2. f[i] \in Seq(Int) /\ Inc(f[i]) /\ ToSet(f[i]) \subseteq UNION {ToSet(L[j]) : j \in 1..i}
        BY <2>4, <3>2
      <4>3. L[i + 1] \in Seq(Int) /\ Inc(L[i + 1])
        BY <1>1, <3>0
      <4>4. Before(ToSet(f[i]), ToSet(L[i + 1]))
        <5> SUFFICES ASSUME NEW x \in ToSet(f[i]), NEW y \in ToSet(L[i + 1]) PROVE x < y
          BY DEF Before
        <5>1. PICK j \in 1..i : x \in ToSet(L[j])
          BY <4>2
        <5>2. j \in DOMAIN L /\ i + 1 \in DOMAIN L /\ j < i + 1
          BY <1>1, <3>0
        <5>3. Before(ToSet(L[j]), ToSet(L[i + 1]))
          BY <5>2 DEF LinesInc
        <5> QED BY <5>1, <5>3 DEF Before
      <4>5. f[i + 1] \in Seq(Int) /\ Inc(f[i + 1]) /\ ToSet(f[i + 1]) = ToSet(f[i]) \cup ToSet(L[i + 1])
        BY <4>1, <4>2, <4>3, <4>4, IncConcat
      <4>6. 1..i \subseteq 1..(i + 1) /\ i + 1 \in 1..(i + 1)
        OBVIOUS
      <4>7. ToSet(f[i + 1]) \subseteq UNION {ToSet(L[j]) : j \in 1..(i + 1)}
        BY <4>2, <4>5, <4>6
      <4>8. Good(i + 1)
        BY <4>5, <4>7
      <4> HIDE DEF Good
      <4> QED BY <3>0, <4>8
    <3> QED BY <3>1, <3>2
  <2>5. \A i \in 0..Len(L) : i \in T
    <3> HIDE DEF T
    <3> QED BY <1>1, <2>3, <2>4, Induct
  <2>6. Good(Len(L))
    <3> HIDE DEF Good
    <3> QED BY <1>1, <1>3, <2>5
  <2> QED BY <2>1, <2>6
<1> QED BY <1>2, <1>3

LEMMA AlwaysLog ==
  ASSUME Log!Sizes
  PROVE  Log!Spec => []LogInv
<1>1. Log!Init => LogInv
  BY LogFirst
<1>2. LogInv /\ [Log!Next]_Log!vars => LogInv'
  BY LogStep
<1> QED BY <1>1, <1>2, PTL DEF Log!Spec

\* The queues of log chunks stay within their capacities and hold lines of what
\* was written (d.send, deliver, followFile).
THEOREM LogTypeTheorem ==
  ASSUME Log!Sizes
  PROVE  Log!Spec => []Log!TypeOK
<1>1. LogInv => Log!TypeOK
  <2> SUFFICES ASSUME LogInv PROVE Log!TypeOK
    OBVIOUS
  <2> DEFINE P == 1..MaxPieces
  <2>1. FileInv /\ ViewInv /\ QueueInv /\ OrderInv /\ CutInv /\ FlagInv
    BY DEF LogInv
  <2>2. Fine(torn) \subseteq Seq(P)
    BY DEF Fine
  <2>3. seen \in Seq(Seq(P))
    BY <2>1, <2>2, SeqWithin DEF QueueInv
  <2>4. ASSUME NEW i \in DOMAIN up PROVE up[i].lines \in Seq(Seq(P)) /\ Len(up[i].lines) <= MaxChunk + TailN
    <3> DEFINE B == Batch(torn)
    <3>1. up \in Seq(B)
      BY <2>1 DEF QueueInv
    <3>2. up[i] \in B
      <4> HIDE DEF B
      <4>1. DOMAIN up = 1..Len(up)
        BY <3>1, LenProperties
      <4> QED BY <2>4, <3>1, <4>1, ElementOfSeq
    <3>3. up[i].lines \in Seq(Fine(torn)) /\ Len(up[i].lines) <= MaxChunk + TailN
      BY <3>2 DEF Batch
    <3> QED BY <2>2, <3>3, SeqWithin
  <2>5. kind \in Kinds /\ written \in 0..MaxPieces /\ file \in Seq(P) /\ rotations \in 0..MaxRotations
    BY <2>1 DEF FileInv
  <2>6. down \in Seq({"follow", "cancel"}) /\ viewer \in {"none", "open", "gone"}
        /\ follower \in {"none", "first", "poll", "ended"}
    BY <2>1 DEF ViewInv
  <2>7. Len(up) <= QueueCap /\ Len(channel) <= ChanCap
    BY <2>1 DEF QueueInv
  <2>8. partial \in Seq(P) /\ offset \in 0..MaxPieces /\ torn \subseteq 1..(MaxPieces + 1)
    BY <2>1 DEF CutInv
  <2>9. {entry, canceled, turned, broken, missed} \subseteq BOOLEAN /\ conn \in {"up", "lost", "none"}
    BY <2>1 DEF FlagInv
  <2> HIDE DEF P
  <2> QED BY <2>3, <2>4, <2>5, <2>6, <2>7, <2>8, <2>9 DEF Log!TypeOK, Log!Line, Log!Pieces, P
<1> QED BY <1>1, AlwaysLog, PTL

\* A line the viewer sees is one the app wrote, unless the first read or an
\* unnoticed rotation cut it (followFile's partial).
THEOREM WholeTheorem ==
  ASSUME Log!Sizes
  PROVE  Log!Spec => []Log!LinesWhole
<1>1. LogInv => Log!LinesWhole
  <2> SUFFICES ASSUME LogInv, NEW i \in DOMAIN seen, ToSet(seen[i]) \cap torn = {}
               PROVE  Len(seen[i]) = 2 /\ seen[i][1] + 1 = seen[i][2]
    BY SameSet DEF Log!LinesWhole
  <2> DEFINE F == Fine(torn)
  <2>1. seen \in Seq(F)
    BY DEF LogInv, QueueInv
  <2>2. seen[i] \in F
    <3> HIDE DEF F
    <3>1. DOMAIN seen = 1..Len(seen)
      BY <2>1, LenProperties
    <3> QED BY <2>1, <3>1, ElementOfSeq
  <2> QED BY <2>2 DEF Fine, Whole
<1> QED BY <1>1, AlwaysLog, PTL

\* The viewer sees what the app wrote in its order and nothing twice (deliver,
\* followFile).
THEOREM SeenTheorem ==
  ASSUME Log!Sizes
  PROVE  Log!Spec => []Log!SeenInOrder
<1>1. LogInv => Log!SeenInOrder
  <2> SUFFICES ASSUME LogInv PROVE Log!SeenInOrder
    OBVIOUS
  <2> DEFINE F == Fine(torn)
             Q == Seq(Int)
  <2>1. seen \in Seq(F) /\ LinesInc(seen)
    BY DEF LogInv, QueueInv, OrderInv
  <2>2. \A l \in F : l \in Q /\ Inc(l)
    <3> SUFFICES ASSUME NEW l \in Fine(torn) PROVE l \in Seq(Int) /\ Inc(l)
      OBVIOUS
    <3>1. l \in Seq(1..MaxPieces) /\ Inc(l)
      BY DEF Fine
    <3>2. 1..MaxPieces \subseteq Int
      OBVIOUS
    <3> QED BY <3>1, <3>2, SeqWithin
  <2> HIDE DEF F, Q
  <2>3. seen \in Seq(Q)
    <3>1. F \subseteq Q
      BY <2>2
    <3> QED BY <2>1, <3>1
  <2>4. \A i \in DOMAIN seen : Inc(seen[i])
    <3>1. DOMAIN seen = 1..Len(seen)
      BY <2>1, LenProperties
    <3> QED BY <2>1, <2>2, <3>1, ElementOfSeq
  <2> DEFINE text == Log!FlattenSeq(seen)
  <2>5. text \in Seq(Int) /\ Inc(text)
    BY <2>1, <2>3, <2>4, FlattenInc DEF Q
  <2> HIDE DEF text
  <2>6. ASSUME NEW i \in 1..(Len(text) - 1) PROVE text[i] < text[i + 1]
    <3>1. i \in DOMAIN text /\ i + 1 \in DOMAIN text /\ i < i + 1
      BY <2>5, LenProperties
    <3> QED BY <2>5, <3>1 DEF Inc
  <2> QED BY <2>6 DEF Log!SeenInOrder, text
<1> QED BY <1>1, AlwaysLog, PTL
=============================================================================
