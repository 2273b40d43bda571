----------------------------- MODULE SequenceLemmas -----------------------------
(***************************************************************************)
(* What the proofs about the file system and about the library functions   *)
(* need of naturals, of flattened sequences and of folds.                  *)
(***************************************************************************)
EXTENDS Integers, FiniteSetTheorems, SequencesExt, SequenceTheorems, TLAPS,
        WellFoundedInduction

-----------------------------------------------------------------------------
(***************************************************************************)
(* Naturals                                                                *)
(***************************************************************************)
\* A nonempty set of naturals has a least element.
LEMMA LeastElement ==
  ASSUME NEW T, T \subseteq Nat, T # {}
  PROVE  \E x \in T : \A y \in T : x <= y
<1> DEFINE R == {p \in Nat \X Nat : p[1] < p[2]}
<1>1. IsWellFoundedOn(R, Nat)
  BY NatLessThanWellFounded DEF OpToRel
<1>2. \A x, y \in Nat : y < x => <<y, x>> \in R
  OBVIOUS
<1> HIDE DEF R
<1>3. PICK x \in T : \A y \in T : ~(<<y, x>> \in R)
  BY <1>1, WFMin
<1>4. ASSUME NEW y \in T PROVE x <= y
  <2>1. x \in Nat /\ y \in Nat
    OBVIOUS
  <2>2. ~(y < x)
    BY <1>2, <1>3, <2>1
  <2>3. QED
    BY <2>1, <2>2
<1>5. QED
  BY <1>4

\* Induction along a run
LEMMA AlongRun ==
    ASSUME NEW n \in Nat, NEW S, 0 \in S, \A k \in 1 .. n : k - 1 \in S => k \in S
    PROVE  \A k \in 0 .. n : k \in S
<1> DEFINE Bad == {k \in 0 .. n : k \notin S}
<1>1. Bad = {}
  <2> SUFFICES ASSUME Bad # {} PROVE FALSE
    OBVIOUS
  <2>1. PICK b \in Bad : \A c \in Bad : b <= c
    <3>1. Bad \subseteq Nat
      OBVIOUS
    <3> HIDE DEF Bad
    <3>2. QED
      BY <3>1, LeastElement
  <2>2. b \in 1 .. n /\ b - 1 \in 0 .. n /\ ~(b <= b - 1) /\ b \notin S
    OBVIOUS
  <2>3. b - 1 \in S
    BY <2>1, <2>2
  <2>4. QED
    BY <2>2, <2>3
<1>2. QED
  BY <1>1

\* What a quotient and a remainder are.
LEMMA DivMod ==
    ASSUME NEW a \in Nat, NEW d \in Nat \ {0}
    PROVE  /\ a \div d \in Nat /\ a % d \in 0 .. d - 1
           /\ a = d * (a \div d) + (a % d)
<1>1. a \div d \in Nat
  BY Z3
<1>2. a % d \in 0 .. d - 1
  BY Z3
<1>3. a = d * (a \div d) + (a % d)
  BY Z3
<1>4. QED
  BY <1>1, <1>2, <1>3

\* Products of a natural grow with the other factor, by a whole d at a time.
LEMMA ProductGap ==
    ASSUME NEW d \in Nat, NEW j \in Nat, NEW k \in Nat, j < k
    PROVE  d * j + d <= d * k
<1>1. d * (j + 1) <= d * k
  BY Z3
<1>2. d * (j + 1) = d * j + d
  BY Z3
<1>3. QED
  BY <1>1, <1>2

\* Quotient and remainder are unique.
LEMMA DivUnique ==
    ASSUME NEW d \in Nat \ {0}, NEW q \in Nat, NEW r \in 0 .. d - 1
    PROVE  (d * q + r) \div d = q /\ (d * q + r) % d = r
<1> DEFINE a == d * q + r
           p == a \div d
           s == a % d
<1>1. a \in Nat
  BY Z3
<1>2. p \in Nat /\ s \in 0 .. d - 1 /\ a = d * p + s
  BY <1>1, DivMod
<1>3. d * q \in Nat /\ d * p \in Nat
  BY <1>2
<1>4. d * q + r = d * p + s
  BY <1>2
<1> HIDE DEF a, p, s
<1>5. ~(p < q)
  <2>1. p < q => d * p + d <= d * q
    BY <1>2, ProductGap
  <2>2. QED
    BY <1>2, <1>3, <1>4, <2>1
<1>6. ~(q < p)
  <2>1. q < p => d * q + d <= d * p
    BY <1>2, ProductGap
  <2>2. QED
    BY <1>2, <1>3, <1>4, <2>1
<1>7. p = q /\ s = r
  BY <1>2, <1>3, <1>4, <1>5, <1>6
<1>8. QED
  BY <1>7 DEF a, p, s

-----------------------------------------------------------------------------
(***************************************************************************)
(* Sequences                                                               *)
(***************************************************************************)
\* Sequences of one, two and three elements
LEMMA Joined ==
    ASSUME NEW S, NEW a \in S, NEW b \in S, NEW c \in S
    PROVE  <<a>> \o <<b>> = <<a, b>> /\ <<a, b>> \o <<c>> = <<a, b, c>>
<1>1. /\ <<a>> \in Seq(S) /\ <<b>> \in Seq(S) /\ <<c>> \in Seq(S)
      /\ <<a, b>> \in Seq(S) /\ <<a, b, c>> \in Seq(S)
  OBVIOUS
<1>2. <<a>> \o <<b>> = <<a, b>>
  <2>1. PICK u, v : u = <<a>> \o <<b>> /\ v = <<a, b>>
    OBVIOUS
  <2>2. u \in Seq(S) /\ Len(u) = 2 /\ u[1] = a /\ u[2] = b
    BY <1>1, <2>1, ConcatProperties
  <2>3. v \in Seq(S) /\ Len(v) = 2 /\ v[1] = a /\ v[2] = b
    BY <1>1, <2>1
  <2>4. \A i \in 1 .. 2 : u[i] = v[i]
    <3>1. \A i \in 1 .. 2 : i = 1 \/ i = 2
      OBVIOUS
    <3>2. QED
      BY <2>2, <2>3, <3>1
  <2>5. u = v
    BY <2>2, <2>3, <2>4, SeqEqual
  <2>6. QED
    BY <2>1, <2>5
<1>3. <<a, b>> \o <<c>> = <<a, b, c>>
  <2>1. PICK u, v : u = <<a, b>> \o <<c>> /\ v = <<a, b, c>>
    OBVIOUS
  <2>2. u \in Seq(S) /\ Len(u) = 3 /\ u[1] = a /\ u[2] = b /\ u[3] = c
    BY <1>1, <2>1, ConcatProperties
  <2>3. v \in Seq(S) /\ Len(v) = 3 /\ v[1] = a /\ v[2] = b /\ v[3] = c
    BY <1>1, <2>1
  <2>4. \A i \in 1 .. 3 : u[i] = v[i]
    <3>1. \A i \in 1 .. 3 : i = 1 \/ i = 2 \/ i = 3
      OBVIOUS
    <3>2. QED
      BY <2>2, <2>3, <3>1
  <2>5. u = v
    BY <2>2, <2>3, <2>4, SeqEqual
  <2>6. QED
    BY <2>1, <2>5
<1>4. QED
  BY <1>2, <1>3

\* What a read appends is what the program receives.
LEMMA AppendedPart ==
    ASSUME NEW S, NEW s \in Seq(S), NEW t \in Seq(S)
    PROVE  SubSeq(s \o t, Len(s) + 1, Len(s \o t)) = t
<1> DEFINE u == s \o t
           v == SubSeq(u, Len(s) + 1, Len(u))
<1>1. /\ u \in Seq(S) /\ Len(u) = Len(s) + Len(t) /\ Len(s) \in Nat /\ Len(t) \in Nat
      /\ \A i \in 1 .. Len(t) : u[Len(s) + i] = t[i]
  <2>1. Len(s) \in Nat /\ Len(t) \in Nat
    OBVIOUS
  <2>2. /\ u \in Seq(S) /\ Len(u) = Len(s) + Len(t)
        /\ \A i \in 1 .. Len(s) + Len(t) : u[i] = IF i <= Len(s) THEN s[i] ELSE t[i - Len(s)]
    BY ConcatProperties
  <2> HIDE DEF u
  <2>3. ASSUME NEW i \in 1 .. Len(t)
        PROVE  u[Len(s) + i] = t[i]
    <3>1. /\ Len(s) + i \in 1 .. Len(s) + Len(t) /\ ~(Len(s) + i <= Len(s))
          /\ (Len(s) + i) - Len(s) = i
      BY <2>1
    <3>2. QED
      BY <2>2, <3>1
  <2>4. QED
    BY <2>1, <2>2, <2>3
<1>2. CASE Len(t) = 0
  <2>1. t = << >>
    BY <1>2, EmptySeq
  <2>2. Len(u) < Len(s) + 1 /\ Len(u) \in Int /\ Len(s) + 1 \in Int
    BY <1>1, <1>2
  <2> HIDE DEF u
  <2>3. SubSeq(u, Len(s) + 1, Len(u)) = << >>
    BY <2>2, SubSeqEmpty
  <2>4. QED
    BY <2>1, <2>3 DEF u
<1>3. CASE Len(t) # 0
  <2> HIDE DEF u
  <2>1. Len(s) + 1 \in Int /\ Len(u) \in Int /\ Len(s) + 1 <= Len(u)
        /\ Len(u) - (Len(s) + 1) + 1 = Len(t)
    BY <1>1, <1>3
  <2>2. \A i \in Len(s) + 1 .. Len(u) : u[i] \in S
    BY <1>1
  <2>3. /\ v \in Seq(S) /\ Len(v) = Len(t)
        /\ \A i \in 1 .. Len(t) : v[i] = u[Len(s) + 1 + i - 1]
    BY <2>1, <2>2, SubSeqProperties
  <2>4. \A i \in 1 .. Len(t) : v[i] = t[i]
    <3>1. \A i \in 1 .. Len(t) : Len(s) + 1 + i - 1 = Len(s) + i
      BY <1>1
    <3>2. QED
      BY <1>1, <2>3, <3>1
  <2> HIDE DEF v
  <2>5. v = t
    BY <2>3, <2>4, SeqEqual
  <2>6. QED
    BY <2>5 DEF u, v
<1>4. QED
  BY <1>2, <1>3

-----------------------------------------------------------------------------
(***************************************************************************)
(* Sequences of sequences, flattened                                       *)
(***************************************************************************)
\* A function h that satisfies the recursion of FlattenSeq is its result.
LEMMA Flattened ==
    ASSUME NEW s, NEW n \in Nat \ {0}, Len(s) = n, NEW h,
           \A i \in 1 .. n : h[i] = IF i = 1 THEN s[i] ELSE h[i - 1] \o s[i]
    PROVE  FlattenSeq(s) = h[n]
<1> DEFINE Eq(g) == g = [i \in 1 .. Len(s) |-> IF i = 1 THEN s[i] ELSE g[i - 1] \o s[i]]
           g == CHOOSE g : Eq(g)
<1>1. FlattenSeq(s) = g[n]
  BY DEF FlattenSeq
<1>2. Eq(g)
  <2> DEFINE f == [i \in 1 .. n |-> h[i]]
  <2>1. Eq(f)
    OBVIOUS
  <2> HIDE DEF Eq, f
  <2>2. QED
    BY <2>1
<1>3. g = [i \in 1 .. n |-> IF i = 1 THEN s[i] ELSE g[i - 1] \o s[i]]
  BY <1>2
<1> HIDE DEF g
<1> DEFINE T == {i \in 1 .. n : g[i] # h[i]}
<1>4. T = {}
  <2>1. SUFFICES ASSUME T # {} PROVE FALSE
    OBVIOUS
  <2>2. T \subseteq Nat
    OBVIOUS
  <2> HIDE DEF T
  <2>3. PICK i \in T : \A j \in T : i <= j
    BY <2>1, <2>2, LeastElement
  <2>4. i \in 1 .. n /\ g[i] # h[i]
    BY DEF T
  <2>5. i # 1
    BY <1>3, <2>4
  <2>6. i - 1 \in 1 .. n /\ ~(i <= i - 1)
    BY <2>4, <2>5
  <2>7. i - 1 \notin T
    BY <2>3, <2>6
  <2>8. g[i - 1] = h[i - 1]
    BY <2>6, <2>7 DEF T
  <2>9. g[i] = g[i - 1] \o s[i] /\ h[i] = h[i - 1] \o s[i]
    BY <1>3, <2>4, <2>5
  <2>10. QED
    BY <2>4, <2>8, <2>9
<1>5. n \in 1 .. n
  OBVIOUS
<1>6. g[n] = h[n]
  BY <1>4, <1>5
<1>7. QED
  BY <1>1, <1>6 DEF g

\* The first k elements of s, flattened
Flat(s, k) == FlattenSeq([i \in 1 .. k |-> s[i]])

\* A recursion of FlattenSeq
FlatBy(h, s, k) == \A i \in 1 .. k : h[i] = IF i = 1 THEN s[i] ELSE h[i - 1] \o s[i]

\* No element
LEMMA FlatEmpty == ASSUME NEW s PROVE Flat(s, 0) = << >>
<1>1. [i \in 1 .. 0 |-> s[i]] = << >>
  OBVIOUS
<1>2. QED
  BY <1>1 DEF Flat, FlattenSeq

\* Whatever satisfies the recursion is the flattened sequence.
LEMMA FlatIs ==
    ASSUME NEW s, NEW k \in Nat \ {0}, NEW h, FlatBy(h, s, k)
    PROVE  Flat(s, k) = h[k]
<1> DEFINE t == [i \in 1 .. k |-> s[i]]
<1>1. Len(t) = k
  OBVIOUS
<1>2. \A i \in 1 .. k : h[i] = IF i = 1 THEN t[i] ELSE h[i - 1] \o t[i]
  BY DEF FlatBy
<1> HIDE DEF t
<1>3. FlattenSeq(t) = h[k]
  BY <1>1, <1>2, Flattened
<1>4. QED
  BY <1>3 DEF Flat, t

\* There is a function that does.
LEMMA FlatExists ==
    ASSUME NEW M, NEW s, NEW n \in Nat, \A i \in 1 .. n : s[i] \in Seq(M)
    PROVE  \E h \in [1 .. n -> Seq(M)] : FlatBy(h, s, n)
<1> DEFINE Bad == {k \in 0 .. n : ~ \E h \in [1 .. k -> Seq(M)] : FlatBy(h, s, k)}
<1>1. Bad \subseteq Nat
  OBVIOUS
<1>2. 0 \notin Bad
  <2> DEFINE h == [i \in 1 .. 0 |-> << >>]
  <2>1. h \in [1 .. 0 -> Seq(M)] /\ FlatBy(h, s, 0)
    BY DEF FlatBy
  <2>2. QED
    BY <2>1
<1>3. ASSUME NEW k \in 0 .. n, k + 1 \in 0 .. n, k \notin Bad
      PROVE  k + 1 \notin Bad
  <2>1. PICK h \in [1 .. k -> Seq(M)] : FlatBy(h, s, k)
    BY <1>3
  <2> DEFINE last1 == IF k = 0 THEN s[1] ELSE h[k] \o s[k + 1]
             g == [i \in 1 .. k + 1 |-> IF i = k + 1 THEN last1 ELSE h[i]]
  <2>2. last1 \in Seq(M)
    <3>1. CASE k = 0
      <4>1. 1 \in 1 .. n
        BY <1>3, <3>1
      <4>2. QED
        BY <3>1, <4>1
    <3>2. CASE k # 0
      <4>1. h[k] \in Seq(M) /\ s[k + 1] \in Seq(M)
        BY <1>3, <3>2
      <4>2. h[k] \o s[k + 1] \in Seq(M)
        BY <4>1, ConcatProperties
      <4>3. QED
        BY <3>2, <4>2
    <3>3. QED
      BY <3>1, <3>2
  <2> HIDE DEF last1
  <2>3. g \in [1 .. k + 1 -> Seq(M)]
    BY <2>2
  <2>4. ASSUME NEW i \in 1 .. k + 1
        PROVE  g[i] = IF i = 1 THEN s[i] ELSE g[i - 1] \o s[i]
    <3>1. CASE i = k + 1
      <4>1. g[i] = last1
        BY <3>1
      <4>2. CASE k = 0
        BY <3>1, <4>1, <4>2 DEF last1
      <4>3. CASE k # 0
        <5>1. i # 1 /\ i - 1 = k /\ k \in 1 .. k + 1 /\ k # k + 1
          BY <3>1, <4>3
        <5>2. g[i - 1] = h[k]
          BY <5>1
        <5>3. QED
          BY <3>1, <4>1, <4>3, <5>1, <5>2 DEF last1
      <4>4. QED
        BY <4>2, <4>3
    <3>2. CASE i # k + 1
      <4>1. i \in 1 .. k /\ g[i] = h[i]
        BY <3>2
      <4>2. h[i] = IF i = 1 THEN s[i] ELSE h[i - 1] \o s[i]
        BY <2>1, <4>1 DEF FlatBy
      <4>3. i # 1 => i - 1 \in 1 .. k + 1 /\ i - 1 # k + 1 /\ g[i - 1] = h[i - 1]
        BY <4>1
      <4>4. QED
        BY <4>1, <4>2, <4>3
    <3>3. QED
      BY <3>1, <3>2
  <2> HIDE DEF g
  <2>5. FlatBy(g, s, k + 1)
    BY <2>4 DEF FlatBy
  <2>6. QED
    BY <2>3, <2>5
<1>4. Bad = {}
  <2> SUFFICES ASSUME Bad # {} PROVE FALSE
    OBVIOUS
  <2>1. PICK b \in Bad : \A c \in Bad : b <= c
    BY <1>1, LeastElement, Zenon
  <2>2. b \in 0 .. n /\ b # 0
    BY <1>2
  <2>3. b - 1 \in 0 .. n /\ (b - 1) + 1 = b /\ ~(b <= b - 1)
    BY <2>2
  <2>4. b - 1 \notin Bad
    BY <2>1, <2>3, Zenon
  <2> HIDE DEF Bad
  <2>5. QED
    BY <1>3, <2>2, <2>3, <2>4
<1>5. n \notin Bad
  <2> HIDE DEF Bad
  <2>1. QED
    BY <1>4
<1>6. n \in 0 .. n
  OBVIOUS
<1>7. QED
  BY <1>5, <1>6

\* One element more
LEMMA FlatStep ==
    ASSUME NEW M, NEW s, NEW k \in Nat, \A i \in 1 .. k + 1 : s[i] \in Seq(M)
    PROVE  /\ Flat(s, k) \in Seq(M)
           /\ Flat(s, k + 1) = Flat(s, k) \o s[k + 1]
<1>1. PICK h \in [1 .. k + 1 -> Seq(M)] : FlatBy(h, s, k + 1)
  <2>1. k + 1 \in Nat
    OBVIOUS
  <2>2. QED
    BY <2>1, FlatExists
<1>2. k + 1 \in Nat \ {0} /\ k + 1 \in 1 .. k + 1
  OBVIOUS
<1>3. Flat(s, k + 1) = h[k + 1]
  BY <1>1, <1>2, FlatIs
<1>4. CASE k = 0
  <2>1. h[1] = s[1] /\ s[1] \in Seq(M)
    BY <1>1, <1>2, <1>4 DEF FlatBy
  <2>2. Flat(s, 0) = << >>
    BY FlatEmpty
  <2>3. << >> \o s[1] = s[1]
    BY <2>1, ConcatEmptySeq
  <2>4. << >> \in Seq(M)
    OBVIOUS
  <2>5. k + 1 = 1
    BY <1>4
  <2>6. Flat(s, 1) = s[1]
    BY <1>3, <2>1, <2>5
  <2>7. QED
    BY <1>4, <2>2, <2>3, <2>4, <2>5, <2>6
<1>5. CASE k # 0
  <2>1. FlatBy(h, s, k) /\ k \in Nat \ {0}
    <3>1. \A i \in 1 .. k : i \in 1 .. k + 1
      OBVIOUS
    <3>2. QED
      BY <1>1, <1>5, <3>1 DEF FlatBy
  <2>2. Flat(s, k) = h[k]
    BY <2>1, FlatIs
  <2>3. k + 1 # 1 /\ (k + 1) - 1 = k /\ k \in 1 .. k + 1
    BY <1>5
  <2>4. h[k + 1] = h[k] \o s[k + 1]
    BY <1>1, <1>2, <2>3 DEF FlatBy
  <2>5. QED
    BY <1>1, <1>3, <2>2, <2>3, <2>4
<1>6. QED
  BY <1>4, <1>5

\* The flattened elements are a sequence of the same things.
LEMMA FlatSeq ==
    ASSUME NEW M, NEW s, NEW k \in Nat, \A i \in 1 .. k : s[i] \in Seq(M)
    PROVE  Flat(s, k) \in Seq(M)
<1>1. CASE k = 0
  <2>1. << >> \in Seq(M)
    OBVIOUS
  <2>2. QED
    BY <1>1, <2>1, FlatEmpty
<1>2. CASE k # 0
  <2>1. PICK j \in Nat : j + 1 = k
    BY <1>2
  <2>2. \A i \in 1 .. j + 1 : s[i] \in Seq(M)
    BY <2>1
  <2>3. Flat(s, j) \in Seq(M) /\ Flat(s, j + 1) = Flat(s, j) \o s[j + 1]
    BY <2>2, FlatStep
  <2>4. s[j + 1] \in Seq(M)
    BY <2>1
  <2>5. QED
    BY <2>1, <2>3, <2>4, ConcatProperties
<1>3. QED
  BY <1>1, <1>2

\* Empty elements add nothing.
LEMMA FlatSame ==
    ASSUME NEW M, NEW s, NEW p \in Nat, NEW q \in Nat, p <= q,
           \A i \in 1 .. q : s[i] \in Seq(M),
           \A i \in p + 1 .. q : s[i] = << >>
    PROVE  Flat(s, q) = Flat(s, p)
<1> DEFINE Bad == {k \in p .. q : Flat(s, k) # Flat(s, p)}
<1>1. Bad = {}
  <2> SUFFICES ASSUME Bad # {} PROVE FALSE
    OBVIOUS
  <2>1. PICK b \in Bad : \A c \in Bad : b <= c
    <3>1. Bad \subseteq Nat
      OBVIOUS
    <3> HIDE DEF Bad
    <3>2. QED
      BY <3>1, LeastElement
  <2>2. b \in p .. q /\ Flat(s, b) # Flat(s, p) /\ b # p
    OBVIOUS
  <2>3. PICK k \in Nat : k = b - 1 /\ k \in p .. q /\ k + 1 = b /\ ~(b <= k)
                         /\ b \in p + 1 .. q
    BY <2>2
  <2>4. Flat(s, k) = Flat(s, p)
    BY <2>1, <2>3
  <2>5. \A i \in 1 .. k + 1 : s[i] \in Seq(M)
    BY <2>3
  <2>6. Flat(s, k) \in Seq(M) /\ Flat(s, k + 1) = Flat(s, k) \o s[k + 1]
    BY <2>5, FlatStep
  <2>7. s[k + 1] = << >>
    BY <2>3
  <2>8. Flat(s, k) \o << >> = Flat(s, k)
    BY <2>6, ConcatEmptySeq
  <2>9. QED
    BY <2>2, <2>3, <2>4, <2>6, <2>7, <2>8
<1>2. q \in p .. q
  OBVIOUS
<1>3. QED
  BY <1>1, <1>2

-----------------------------------------------------------------------------
(***************************************************************************)
(* Folds: a call of FoldLeft runs through the values g[0], g[1], ...       *)
(***************************************************************************)
\* h is the recursion of MapThenFoldSet on the indices 1 .. n, with step F.
FoldsBy(h, F, base, n) ==
    h = [t \in SUBSET (1 .. n) |->
            IF t = {} THEN base ELSE F[<<h[t \ {Max(t)}], Max(t)>>]]

\* The greatest element of a nonempty set of numbers up to n
LEMMA MaxOf ==
    ASSUME NEW n \in Nat, NEW t \in SUBSET (1 .. n), t # {}
    PROVE  Max(t) \in t /\ \A x \in t : x <= Max(t)
<1> DEFINE U == {n - x : x \in t}
<1>1. U \subseteq Nat /\ U # {}
  <2>1. \A x \in t : x \in 1 .. n
    OBVIOUS
  <2>2. \A x \in 1 .. n : n - x \in Nat
    OBVIOUS
  <2>3. QED
    BY <2>1, <2>2
<1> HIDE DEF U
<1>2. PICK u \in U : \A w \in U : u <= w
  BY <1>1, LeastElement
<1>3. PICK x \in t : u = n - x
  BY <1>2 DEF U
<1>4. ASSUME NEW y \in t PROVE y <= x
  <2>1. n - y \in U
    BY DEF U
  <2>2. u <= n - y
    BY <1>2, <2>1
  <2>3. QED
    BY <1>3, <2>2
<1>5. \E y \in t : \A z \in t : z <= y
  BY <1>4
<1>6. QED
  BY <1>5 DEF Max

LEMMA FoldExists ==
    ASSUME NEW M, NEW base \in M, NEW n \in Nat, NEW F \in [M \X (1 .. n) -> M]
    PROVE  \E h \in [SUBSET (1 .. n) -> M] : FoldsBy(h, F, base, n)
<1> DEFINE Bad == {k \in 0 .. n : ~ \E h \in [SUBSET (1 .. k) -> M] : FoldsBy(h, F, base, k)}
<1>1. Bad \subseteq Nat
  OBVIOUS
<1>2. 0 \notin Bad
  <2>1. 1 .. 0 = {} /\ SUBSET (1 .. 0) = {{}}
    BY SMT
  <2> DEFINE h == [t \in SUBSET (1 .. 0) |-> base]
  <2>2. h \in [SUBSET (1 .. 0) -> M] /\ FoldsBy(h, F, base, 0)
    BY <2>1 DEF FoldsBy
  <2>3. QED
    BY <2>2
<1>3. ASSUME NEW k \in 0 .. n, k + 1 \in 0 .. n, k \notin Bad
      PROVE  k + 1 \notin Bad
  <2>1. PICK h \in [SUBSET (1 .. k) -> M] : FoldsBy(h, F, base, k)
    BY <1>3
  <2> DEFINE g == [t \in SUBSET (1 .. k + 1) |->
                      IF k + 1 \in t THEN F[<<h[t \ {k + 1}], k + 1>>] ELSE h[t]]
  <2>2. ASSUME NEW t \in SUBSET (1 .. k + 1)
        PROVE  /\ t \ {k + 1} \in SUBSET (1 .. k)
               /\ k + 1 \notin t => t \in SUBSET (1 .. k)
               /\ k + 1 \in t => Max(t) = k + 1
    <3>1. k \in Nat /\ k + 1 \in Nat
      OBVIOUS
    <3>2. k + 1 \in t => Max(t) \in t /\ k + 1 <= Max(t)
      BY <3>1, MaxOf
    <3>3. \A x \in t : x \in 1 .. k + 1
      OBVIOUS
    <3>4. k + 1 \in t => Max(t) = k + 1
      <4>1. \A x \in 1 .. k + 1 : k + 1 <= x => x = k + 1
        BY <3>1
      <4>2. QED
        BY <3>2, <3>3, <4>1
    <3>5. \A x \in 1 .. k + 1 : x # k + 1 => x \in 1 .. k
      BY <3>1
    <3>6. QED
      BY <3>3, <3>4, <3>5
  <2>3. k + 1 \in 1 .. n
    BY <1>3
  <2>4. g \in [SUBSET (1 .. k + 1) -> M]
    <3>1. ASSUME NEW t \in SUBSET (1 .. k + 1)
          PROVE  (IF k + 1 \in t THEN F[<<h[t \ {k + 1}], k + 1>>] ELSE h[t]) \in M
      <4>1. CASE k + 1 \in t
        <5>1. h[t \ {k + 1}] \in M
          BY <2>2
        <5>2. QED
          BY <2>3, <4>1, <5>1
      <4>2. CASE k + 1 \notin t
        BY <2>2, <4>2
      <4>3. QED
        BY <4>1, <4>2
    <3>2. QED
      BY <3>1
  <2>5. ASSUME NEW t \in SUBSET (1 .. k + 1)
        PROVE  g[t] = IF t = {} THEN base ELSE F[<<g[t \ {Max(t)}], Max(t)>>]
    <3>1. CASE k + 1 \in t
      <4>1. Max(t) = k + 1 /\ t # {} /\ t \ {k + 1} \in SUBSET (1 .. k)
        BY <2>2, <3>1
      <4>2. t \ {k + 1} \in SUBSET (1 .. k + 1) /\ k + 1 \notin t \ {k + 1}
        OBVIOUS
      <4>3. g[t \ {k + 1}] = h[t \ {k + 1}]
        BY <4>2
      <4>4. QED
        BY <3>1, <4>1, <4>3
    <3>2. CASE k + 1 \notin t
      <4>1. t \in SUBSET (1 .. k) /\ k \in Nat
        BY <2>2, <3>2
      <4>2. h[t] = IF t = {} THEN base ELSE F[<<h[t \ {Max(t)}], Max(t)>>]
        BY <2>1, <4>1 DEF FoldsBy
      <4>3. t \ {Max(t)} \in SUBSET (1 .. k + 1) /\ k + 1 \notin t \ {Max(t)}
        BY <3>2
      <4>4. g[t] = h[t] /\ g[t \ {Max(t)}] = h[t \ {Max(t)}]
        BY <3>2, <4>3
      <4>5. QED
        BY <4>2, <4>4
    <3>3. QED
      BY <3>1, <3>2
  <2> HIDE DEF g
  <2>6. DOMAIN g = SUBSET (1 .. k + 1)
    BY <2>4
  <2>7. g = [t \in SUBSET (1 .. k + 1) |-> g[t]]
    BY <2>4
  <2>8. FoldsBy(g, F, base, k + 1)
    BY <2>5, <2>7 DEF FoldsBy
  <2>9. QED
    BY <2>4, <2>8
<1>4. Bad = {}
  <2> SUFFICES ASSUME Bad # {} PROVE FALSE
    OBVIOUS
  <2>1. PICK b \in Bad : \A c \in Bad : b <= c
    BY <1>1, LeastElement, Zenon
  <2>2. b \in 0 .. n /\ b # 0
    BY <1>2
  <2>3. b - 1 \in 0 .. n /\ (b - 1) + 1 = b /\ ~(b <= b - 1)
    BY <2>2
  <2>4. b - 1 \notin Bad
    BY <2>1, <2>3, Zenon
  <2> HIDE DEF Bad
  <2>5. QED
    BY <1>3, <2>2, <2>3, <2>4
<1>5. n \notin Bad
  <2> HIDE DEF Bad
  <2>1. QED
    BY <1>4
<1>6. n \in 0 .. n
  OBVIOUS
<1>7. QED
  BY <1>5, <1>6

\* The indices of a fold, one after the other
LEMMA MaxUpTo ==
    ASSUME NEW n \in Nat, NEW k \in 1 .. n
    PROVE  /\ 1 .. k \in SUBSET (1 .. n) /\ 1 .. k # {} /\ Max(1 .. k) = k
           /\ (1 .. k) \ {Max(1 .. k)} = 1 .. k - 1
<1>1. 1 .. k \in SUBSET (1 .. n) /\ 1 .. k # {} /\ k \in 1 .. k /\ k \in Nat
  OBVIOUS
<1>2. Max(1 .. k) \in 1 .. k /\ k <= Max(1 .. k)
  BY <1>1, MaxOf
<1>3. Max(1 .. k) = k
  BY <1>1, <1>2
<1>4. (1 .. k) \ {k} = 1 .. k - 1
  BY <1>1
<1>5. QED
  BY <1>1, <1>3, <1>4

\* H is a fold with step F, as far as its values are in M.
Folding(H, F, M, base, n) ==
    /\ n \in Nat /\ base \in M /\ F \in [M \X (1 .. n) -> M]
    /\ H[{}] = base
    /\ \A t \in SUBSET (1 .. n) :
          t # {} /\ H[t \ {Max(t)}] \in M => H[t] = F[<<H[t \ {Max(t)}], Max(t)>>]

\* The values it goes through
RunOf(g, F, M, base, n) ==
    /\ g[0] = base
    /\ \A k \in 0 .. n : g[k] \in M
    /\ \A k \in 1 .. n : g[k] = F[<<g[k - 1], k>>]

LEMMA FoldRun ==
    ASSUME NEW M, NEW base, NEW n, NEW F, NEW H, Folding(H, F, M, base, n)
    PROVE  \E g : RunOf(g, F, M, base, n) /\ g[n] = H[1 .. n]
<1> n \in Nat /\ base \in M /\ F \in [M \X (1 .. n) -> M]
  BY DEF Folding
<1> DEFINE g == [k \in 0 .. n |-> H[1 .. k]]
<1>1. g[0] = base
  <2>1. 1 .. 0 = {} /\ 0 \in 0 .. n
    BY SMT
  <2>2. QED
    BY <2>1 DEF Folding
<1>2. ASSUME NEW k \in 1 .. n, g[k - 1] \in M PROVE g[k] = F[<<g[k - 1], k>>]
  <2>1. /\ 1 .. k \in SUBSET (1 .. n) /\ 1 .. k # {} /\ Max(1 .. k) = k
        /\ (1 .. k) \ {Max(1 .. k)} = 1 .. k - 1
    BY MaxUpTo
  <2>2. k \in 0 .. n /\ k - 1 \in 0 .. n
    OBVIOUS
  <2>3. g[k] = H[1 .. k] /\ g[k - 1] = H[1 .. k - 1]
    BY <2>2
  <2>4. QED
    BY <1>2, <2>1, <2>3 DEF Folding
<1> DEFINE S == {k \in 0 .. n : g[k] \in M}
<1>3. \A k \in 0 .. n : k \in S
  <2> HIDE DEF g
  <2>1. 0 \in S
    BY <1>1
  <2>2. ASSUME NEW k \in 1 .. n, k - 1 \in S PROVE k \in S
    <3>1. g[k] = F[<<g[k - 1], k>>] /\ g[k - 1] \in M /\ k \in 0 .. n
      BY <1>2, <2>2
    <3>2. QED
      BY <3>1
  <2> HIDE DEF S
  <2>3. QED
    BY <2>1, <2>2, AlongRun
<1>4. g[n] = H[1 .. n]
  OBVIOUS
<1> HIDE DEF g
<1>5. \A k \in 0 .. n : g[k] \in M
  BY <1>3
<1>6. \A k \in 1 .. n : g[k] = F[<<g[k - 1], k>>]
  BY <1>2, <1>5
<1>7. QED
  BY <1>1, <1>4, <1>5, <1>6 DEF RunOf
=============================================================================
