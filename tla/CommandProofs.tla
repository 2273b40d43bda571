----------------------------- MODULE CommandProofs -----------------------------
(***************************************************************************)
(* Proofs about Commands, for any number of slots, any command lines and   *)
(* any executables: the buffers keep their types, getargs returns the      *)
(* second word of the caller's own line, and the file that runs is the one *)
(* the line names.  And about Lib: the memory functions and the strings,   *)
(* for memories and buffers of any size, and printf, for formats of any    *)
(* length.                                                                 *)
(***************************************************************************)
EXTENDS MC_Commands, SequenceLemmas

-----------------------------------------------------------------------------
(***************************************************************************)
(* Lines and their words                                                   *)
(***************************************************************************)

\* What a line is made of.
LEMMA LineShape ==
    ASSUME NEW c \in Lines
    PROVE  /\ c \in Seq(Letters \cup {SPACE})
           /\ Len(c) \in Nat /\ Len(c) <= CMD_LENGTH - 2
           /\ CMD_LENGTH \in Int
           /\ \A i \in 1 .. Len(c) : c[i] # NUL /\ (c[i] # SPACE => c[i] \in Letters)
<1>1. c \in Seq(Letters \cup {SPACE}) /\ Len(c) \in 1 .. CMD_LENGTH - 2
  BY CommandsAssumption
<1>2. SPACE # NUL /\ NUL \notin Letters
  BY CommandsAssumption DEF SPACE, NUL
<1>3. \A i \in 1 .. Len(c) : c[i] \in Letters \cup {SPACE}
  BY <1>1
<1>4. CMD_LENGTH \in Int
  BY CommandsAssumption
<1>5. QED
  BY <1>1, <1>2, <1>3, <1>4

\* The next space is the first one behind a position, or the end of the line.
LEMMA NextSpaceIs ==
    ASSUME NEW c \in Lines, NEW i \in 0 .. Len(c)
    PROVE  /\ NextSpace(c, i) \in i + 1 .. Len(c) + 1
           /\ NextSpace(c, i) <= Len(c) => c[NextSpace(c, i)] = SPACE
           /\ \A k \in i + 1 .. NextSpace(c, i) - 1 : c[k] \in Letters
<1> DEFINE S == SpacesOf(c)
           T == {j \in S : j > i}
<1>1. Len(c) \in Nat
  BY LineShape
<1>2. S \subseteq Nat /\ T \subseteq Nat /\ Len(c) + 1 \in T
  BY <1>1 DEF SpacesOf
<1>3. PICK x \in T : \A y \in T : x <= y
  <2> HIDE DEF T
  <2>1. QED
    BY <1>2, LeastElement
<1>4. NextSpace(c, i) = CHOOSE j \in S : j > i /\ \A k \in S : k > i => j <= k
  BY DEF NextSpace
<1> DEFINE n == NextSpace(c, i)
<1>5. n \in S /\ n > i /\ \A k \in S : k > i => n <= k
  <2>1. x \in S /\ x > i /\ \A k \in S : k > i => x <= k
    BY <1>3
  <2> HIDE DEF S
  <2>2. QED
    BY <1>4, <2>1
<1> HIDE DEF n
<1>6. n \in i + 1 .. Len(c) + 1
  BY <1>1, <1>2, <1>5
<1>7. n <= Len(c) => c[n] = SPACE
  BY <1>1, <1>5, <1>6 DEF SpacesOf
<1>8. ASSUME NEW k \in i + 1 .. n - 1
      PROVE  c[k] \in Letters
  <2>1. k \in 1 .. Len(c) /\ k > i /\ ~(n <= k)
    BY <1>1, <1>6
  <2>2. k \notin S
    BY <1>5, <2>1
  <2>3. c[k] # SPACE
    BY <2>1, <2>2 DEF SpacesOf
  <2>4. QED
    BY <2>1, <2>3, LineShape
<1>9. QED
  BY <1>6, <1>7, <1>8 DEF n

\* The first element of a set from a position on.
LEMMA FirstInIs ==
    ASSUME NEW S, S \subseteq Int, NEW from \in Int, NEW x \in S, x >= from,
           \A j \in S : j >= from => x <= j
    PROVE  FirstIn(S, from) = x
<1> DEFINE P(i) == i >= from /\ \A j \in S : j >= from => i <= j
<1>1. P(x)
  OBVIOUS
<1>2. \A i \in S : P(i) => i = x
  OBVIOUS
<1>3. FirstIn(S, from) = CHOOSE i \in S : P(i)
  BY DEF FirstIn
<1> HIDE DEF P
<1>4. QED
  BY <1>1, <1>2, <1>3

-----------------------------------------------------------------------------
(***************************************************************************)
(* getargs                                                                 *)
(***************************************************************************)
\* A cleared buffer into which a line was copied
Buffer(c) == [i \in 0 .. CMD_LENGTH - 1 |-> ByteAt(c, NUL, i)]
Marks(b)  == {i \in DOMAIN b : b[i] \in {SPACE, NUL}}

LEMMA BufferIs ==
    ASSUME NEW c \in Lines
    PROVE  /\ DOMAIN Buffer(c) = 0 .. CMD_LENGTH - 1
           /\ \A i \in 0 .. Len(c) - 1 : Buffer(c)[i] = c[i + 1] /\ Buffer(c)[i] # NUL
           /\ \A i \in Len(c) .. CMD_LENGTH - 1 : Buffer(c)[i] = NUL
           /\ Buffer(c) \in [0 .. CMD_LENGTH - 1 -> Bytes]
<1>1. Len(c) \in Nat /\ Len(c) <= CMD_LENGTH - 2 /\ CMD_LENGTH \in Int
  BY LineShape
<1>2. \A i \in 0 .. Len(c) - 1 : Buffer(c)[i] = c[i + 1]
  BY <1>1 DEF Buffer, ByteAt
<1>3. \A i \in Len(c) .. CMD_LENGTH - 1 : Buffer(c)[i] = NUL
  BY <1>1 DEF Buffer, ByteAt
<1>4. \A i \in 0 .. Len(c) - 1 : c[i + 1] # NUL /\ c[i + 1] \in Letters \cup {SPACE}
  <2>1. \A i \in 0 .. Len(c) - 1 : i + 1 \in 1 .. Len(c)
    BY <1>1
  <2>2. QED
    BY <2>1, LineShape
<1>5. \A i \in 0 .. CMD_LENGTH - 1 : Buffer(c)[i] \in Bytes
  <2>1. \A i \in 0 .. CMD_LENGTH - 1 : i \in 0 .. Len(c) - 1 \/ i \in Len(c) .. CMD_LENGTH - 1
    BY <1>1
  <2>2. QED
    BY <1>2, <1>3, <1>4, <2>1 DEF Bytes
<1>6. QED
  BY <1>2, <1>3, <1>4, <1>5 DEF Buffer

\* The mark behind position i of the buffer is the space behind it in the line.
LEMMA MarkIsSpace ==
    ASSUME NEW c \in Lines, NEW i \in 0 .. Len(c)
    PROVE  FirstIn(Marks(Buffer(c)), i) = NextSpace(c, i) - 1
<1> DEFINE b == Buffer(c)
           x == NextSpace(c, i) - 1
<1>1. Len(c) \in Nat /\ Len(c) <= CMD_LENGTH - 2 /\ CMD_LENGTH \in Int
  BY LineShape
<1>2. NextSpace(c, i) \in i + 1 .. Len(c) + 1
  BY NextSpaceIs
<1>3. x \in i .. Len(c) /\ x + 1 = NextSpace(c, i)
  BY <1>1, <1>2
<1>4. x < Len(c) => c[x + 1] = SPACE
  BY <1>1, <1>2, <1>3, NextSpaceIs
<1>5. \A k \in i + 1 .. x : c[k] \in Letters
  BY NextSpaceIs
<1> HIDE DEF x, b
<1>6. x \in Marks(b)
  <2>1. x \in 0 .. CMD_LENGTH - 1
    BY <1>1, <1>3
  <2>2. CASE x = Len(c)
    <3>1. b[x] = NUL
      BY <2>1, <2>2, BufferIs DEF b
    <3>2. QED
      BY <2>1, <3>1, BufferIs DEF b, Marks
  <2>3. CASE x < Len(c)
    <3>1. x \in 0 .. Len(c) - 1
      BY <1>1, <2>1, <2>3
    <3>2. b[x] = SPACE
      BY <1>4, <2>3, <3>1, BufferIs DEF b
    <3>3. QED
      BY <2>1, <3>2, BufferIs DEF b, Marks
  <2>4. QED
    BY <1>1, <1>3, <2>2, <2>3
<1>7. ASSUME NEW j \in Marks(b), j >= i
      PROVE  x <= j
  <2>1. j \in 0 .. CMD_LENGTH - 1 /\ b[j] \in {SPACE, NUL}
    BY BufferIs DEF Marks, b
  <2>2. SUFFICES ASSUME j < x PROVE FALSE
    BY <1>1, <1>3, <2>1
  <2>3. j \in 0 .. Len(c) - 1 /\ j + 1 \in i + 1 .. x
    BY <1>1, <1>3, <1>7, <2>1, <2>2
  <2>4. b[j] = c[j + 1] /\ c[j + 1] \in Letters
    BY <1>5, <2>3, BufferIs DEF b
  <2>5. QED
    BY <2>1, <2>4, CommandsAssumption
<1>8. Marks(b) \subseteq Int
  BY <1>1, BufferIs DEF Marks, b
<1>9. FirstIn(Marks(b), i) = x
  BY <1>1, <1>3, <1>6, <1>7, <1>8, FirstInIs
<1>10. QED
  BY <1>9 DEF x, b

\* What getargs takes from the buffer is the second word of the line.
LEMMA ArgText ==
    ASSUME NEW c \in Lines
    PROVE  LET b == Buffer(c)
               start == NameEnd(b) + 1
               text == [k \in 1 .. ArgEnd(b) - start |-> b[start + k - 1]]
           IN  text = SecondWord(c) /\ text \in Seq(Letters)
<1> DEFINE b == Buffer(c)
           s == NextSpace(c, 0)
           n == NextSpace(c, s)
           start == NameEnd(b) + 1
           text == [k \in 1 .. ArgEnd(b) - start |-> b[start + k - 1]]
<1>1. Len(c) \in Nat /\ Len(c) <= CMD_LENGTH - 2 /\ CMD_LENGTH \in Int
  BY LineShape
<1>2. s \in 1 .. Len(c) + 1
  BY <1>1, NextSpaceIs
<1>3. start = s
  <2>1. NameEnd(b) = FirstIn(Marks(b), 0)
    BY DEF NameEnd, Marks
  <2>2. FirstIn(Marks(b), 0) = s - 1
    BY <1>1, MarkIsSpace
  <2> HIDE DEF s
  <2>3. QED
    BY <1>2, <2>1, <2>2
<1>4. ArgEnd(b) = FirstIn(Marks(b), start)
  BY DEF ArgEnd, Marks
<1>5. ASSUME s > Len(c)
      PROVE  text = SecondWord(c) /\ text \in Seq(Letters)
  <2>1. s = Len(c) + 1
    BY <1>1, <1>2, <1>5
  <2>2. SecondWord(c) = << >>
    BY <1>5 DEF SecondWord
  <2>3. FirstIn(Marks(b), s) = s
    <3>1. s \in Marks(b)
      <4>1. s \in Len(c) .. CMD_LENGTH - 1 /\ s \in 0 .. CMD_LENGTH - 1
        <5> HIDE DEF s
        <5>1. QED
          BY <1>1, <2>1
      <4>2. b[s] = NUL
        BY <4>1, BufferIs
      <4>3. QED
        BY <4>1, <4>2, BufferIs DEF Marks
    <3>2. Marks(b) \subseteq Int
      BY <1>1, BufferIs DEF Marks
    <3> HIDE DEF s, b
    <3>3. QED
      BY <1>2, <3>1, <3>2, FirstInIs
  <2>4. ArgEnd(b) - start = 0
    <3> HIDE DEF s, b, start
    <3>1. QED
      BY <1>2, <1>3, <1>4, <2>3
  <2>5. text = << >>
    <3>1. 1 .. ArgEnd(b) - start = {}
      BY <2>4
    <3>2. QED
      BY <3>1
  <2> HIDE DEF text
  <2>6. QED
    BY <2>2, <2>5
<1>6. ASSUME s <= Len(c)
      PROVE  text = SecondWord(c) /\ text \in Seq(Letters)
  <2>1. s \in 0 .. Len(c)
    BY <1>1, <1>2, <1>6
  <2>2. n \in s + 1 .. Len(c) + 1 /\ \A k \in s + 1 .. n - 1 : c[k] \in Letters
    BY <2>1, NextSpaceIs
  <2>3. ArgEnd(b) = n - 1
    BY <1>3, <1>4, <2>1, MarkIsSpace
  <2>4. SecondWord(c) = SubSeq(c, s + 1, n - 1)
    <3>1. ~(s > Len(c))
      BY <1>1, <1>2, <1>6
    <3>2. QED
      BY <3>1 DEF SecondWord
  <2> DEFINE l == n - 1 - s
  <2>5. l \in Nat /\ ArgEnd(b) - start = l /\ s \in Int /\ n \in Int
    <3>1. n \in Int /\ s \in Int
      <4> HIDE DEF n, s
      <4>1. QED
        BY <1>1, <1>2, <2>2
    <3> HIDE DEF n, s, b, start
    <3>2. n - 1 - s \in Nat
      BY <2>2, <3>1
    <3>3. QED
      BY <1>3, <2>3, <3>1, <3>2
  <2>6. ASSUME NEW k \in 1 .. l
        PROVE  b[start + k - 1] = c[s + k] /\ c[s + k] \in Letters
    <3>1. s + k - 1 \in 0 .. Len(c) - 1 /\ s + k \in s + 1 .. n - 1
          /\ s + k - 1 + 1 = s + k
      <4> HIDE DEF s, n
      <4>1. QED
        BY <1>1, <1>2, <2>2, <2>5 DEF l
    <3>2. b[s + k - 1] = c[s + k]
      BY <3>1, BufferIs
    <3>3. QED
      BY <1>3, <2>2, <3>1, <3>2
  <2>7. /\ SubSeq(c, s + 1, n - 1) \in Seq(Letters)
        /\ Len(SubSeq(c, s + 1, n - 1)) = l
        /\ \A k \in 1 .. l : SubSeq(c, s + 1, n - 1)[k] = c[s + k]
    <3> HIDE DEF s, n
    <3>1. s + 1 \in Int /\ n - 1 \in Int /\ \A k \in s + 1 .. n - 1 : c[k] \in Letters
      BY <2>2, <2>5
    <3> DEFINE m == s + 1
               u == n - 1
    <3>2. /\ SubSeq(c, m, u) \in Seq(Letters)
          /\ Len(SubSeq(c, m, u)) = IF m <= u THEN u - m + 1 ELSE 0
          /\ \A k \in 1 .. u - m + 1 : SubSeq(c, m, u)[k] = c[m + k - 1]
      <4>1. m \in Int /\ u \in Int /\ \A k \in m .. u : c[k] \in Letters
        BY <3>1
      <4> HIDE DEF m, u
      <4>2. QED
        BY <4>1, SubSeqProperties
    <3>3. u - m + 1 = l /\ (~(m <= u) => l = 0)
      BY <2>5
    <3>4. Len(SubSeq(c, m, u)) = l
      <4> HIDE DEF m, u, l
      <4>1. QED
        BY <3>2, <3>3
    <3>5. \A k \in 1 .. l : m + k - 1 = s + k
      BY <2>5
    <3>6. QED
      BY <3>2, <3>3, <3>4, <3>5
  <2> HIDE DEF l, s, n, start, b
  <2>8. text = [k \in 1 .. l |-> b[start + k - 1]]
    BY <2>5
  <2>9. text \in Seq(Letters) /\ Len(text) = l /\ \A k \in 1 .. l : text[k] = c[s + k]
    <3> HIDE DEF text
    <3>1. \A k \in 1 .. l : text[k] = c[s + k] /\ text[k] \in Letters
      BY <2>6, <2>8
    <3>2. text = [k \in 1 .. l |-> text[k]]
      BY <2>8
    <3>3. QED
      BY <2>5, <3>1, <3>2
  <2> HIDE DEF text
  <2>10. text = SubSeq(c, s + 1, n - 1)
    BY <2>7, <2>9, SeqEqual
  <2>11. QED
    BY <2>4, <2>9, <2>10 DEF text, start, b, s, n
<1>7. s > Len(c) \/ s <= Len(c)
  <2> HIDE DEF s
  <2>1. QED
    BY <1>1, <1>2
<1>8. text = SecondWord(c) /\ text \in Seq(Letters)
  BY <1>5, <1>6, <1>7
<1>9. QED
  BY <1>8

-----------------------------------------------------------------------------
(***************************************************************************)
(* execute                                                                 *)
(***************************************************************************)
\* The name a line asks for: its characters up to the first space, as many as
\* a name may have.
LEMMA NamedIs ==
    ASSUME NEW c \in Lines
    PROVE  LET e == NextSpace(c, 0) - 1
               l == IF e > FILENAME_LEN THEN FILENAME_LEN ELSE e
           IN  /\ Named(c) \in Seq(Letters) /\ Len(Named(c)) = l
               /\ \A k \in 1 .. l : Named(c)[k] = c[k]
<1> DEFINE e == NextSpace(c, 0) - 1
           l == IF e > FILENAME_LEN THEN FILENAME_LEN ELSE e
           w == FirstWord(c)
<1>1. Len(c) \in Nat /\ FILENAME_LEN \in Nat
  BY LineShape, CommandsAssumption
<1>2. e \in 0 .. Len(c) /\ \A k \in 1 .. e : c[k] \in Letters
  BY <1>1, NextSpaceIs
<1>3. w = SubSeq(c, 1, e)
  BY DEF FirstWord
<1> HIDE DEF e
<1>4. w \in Seq(Letters) /\ Len(w) = e /\ \A k \in 1 .. e : w[k] = c[k]
  <2>1. 1 \in Int /\ e \in Int /\ \A k \in 1 .. e : c[k] \in Letters
    BY <1>1, <1>2
  <2>2. /\ SubSeq(c, 1, e) \in Seq(Letters)
        /\ Len(SubSeq(c, 1, e)) = IF 1 <= e THEN e - 1 + 1 ELSE 0
        /\ \A k \in 1 .. e - 1 + 1 : SubSeq(c, 1, e)[k] = c[1 + k - 1]
    BY <2>1, SubSeqProperties
  <2>3. e - 1 + 1 = e /\ (~(1 <= e) => e = 0) /\ \A k \in 1 .. e : 1 + k - 1 = k
    BY <1>1, <1>2
  <2> HIDE DEF w
  <2>4. QED
    BY <1>3, <2>2, <2>3
<1> HIDE DEF w
<1>5. CASE e > FILENAME_LEN
  <2> DEFINE f == FILENAME_LEN
  <2>1. Named(c) = SubSeq(w, 1, f)
    BY <1>4, <1>5 DEF Named, w
  <2>2. 1 \in Int /\ f \in Int /\ \A k \in 1 .. f : w[k] \in Letters
    <3>1. \A k \in 1 .. f : k \in 1 .. e
      BY <1>1, <1>2, <1>5
    <3>2. QED
      BY <1>1, <1>2, <1>4, <3>1
  <2>3. /\ SubSeq(w, 1, f) \in Seq(Letters)
        /\ Len(SubSeq(w, 1, f)) = IF 1 <= f THEN f - 1 + 1 ELSE 0
        /\ \A k \in 1 .. f - 1 + 1 : SubSeq(w, 1, f)[k] = w[1 + k - 1]
    BY <2>2, SubSeqProperties
  <2>4. f - 1 + 1 = f /\ 1 <= f /\ \A k \in 1 .. f : 1 + k - 1 = k
    BY CommandsAssumption
  <2>5. \A k \in 1 .. f : k \in 1 .. e
    BY <1>1, <1>2, <1>5
  <2>6. l = f
    BY <1>5
  <2> HIDE DEF f, l
  <2>7. /\ Named(c) \in Seq(Letters) /\ Len(Named(c)) = l
        /\ \A k \in 1 .. l : Named(c)[k] = c[k]
    BY <1>4, <2>1, <2>3, <2>4, <2>5, <2>6
  <2>8. QED
    BY <2>7 DEF l, e
<1>6. CASE ~(e > FILENAME_LEN)
  <2>1. Named(c) = w /\ l = e
    BY <1>4, <1>6 DEF Named, w
  <2> HIDE DEF l
  <2>2. /\ Named(c) \in Seq(Letters) /\ Len(Named(c)) = l
        /\ \A k \in 1 .. l : Named(c)[k] = c[k]
    BY <1>4, <2>1
  <2>3. QED
    BY <2>2 DEF l, e
<1>7. QED
  BY <1>5, <1>6

\* What parse_arg extracts is that name, followed by a NUL when there is room.
LEMMA ParsedIs ==
    ASSUME NEW c \in Lines, NEW g
    PROVE  LET a == parse_arg(c, g)
               m == Named(c)
           IN  /\ \A i \in 0 .. Len(m) - 1 : a[i] = m[i + 1]
               /\ Len(m) < FILENAME_LEN => a[Len(m)] = NUL
               /\ Len(m) \in 0 .. FILENAME_LEN /\ m \in Seq(Letters)
<1> DEFINE e == NextSpace(c, 0) - 1
           l == IF e > FILENAME_LEN THEN FILENAME_LEN ELSE e
           a == parse_arg(c, g)
           m == Named(c)
<1>1. Len(c) \in Nat /\ FILENAME_LEN \in Nat
  BY LineShape, CommandsAssumption
<1>2. /\ e \in 0 .. Len(c) /\ \A k \in 1 .. e : c[k] \in Letters
      /\ e < Len(c) => c[e + 1] = SPACE
  <2>1. /\ NextSpace(c, 0) \in 1 .. Len(c) + 1
        /\ NextSpace(c, 0) <= Len(c) => c[NextSpace(c, 0)] = SPACE
        /\ \A k \in 1 .. NextSpace(c, 0) - 1 : c[k] \in Letters
    BY <1>1, NextSpaceIs
  <2> DEFINE s == NextSpace(c, 0)
  <2> HIDE DEF s
  <2>2. /\ s - 1 \in 0 .. Len(c) /\ \A k \in 1 .. s - 1 : c[k] \in Letters
        /\ s - 1 < Len(c) => c[s - 1 + 1] = SPACE
    <3>1. s \in 1 .. Len(c) + 1 /\ s - 1 + 1 = s
      BY <1>1, <2>1 DEF s
    <3>2. QED
      BY <1>1, <2>1, <3>1 DEF s
  <2>3. QED
    BY <2>2 DEF s
<1>3. m \in Seq(Letters) /\ Len(m) = l /\ \A k \in 1 .. l : m[k] = c[k]
  BY NamedIs
<1> HIDE DEF e, m
<1>4. l \in 0 .. FILENAME_LEN /\ l <= e
  BY <1>1, <1>2
<1>5. SPACE \notin Letters
  BY CommandsAssumption
<1>6. \A i \in 0 .. FILENAME_LEN - 1 :
          a[i] = IF \E j \in 0 .. i : ByteAt(c, g, j) = SPACE THEN NUL
                 ELSE ByteAt(c, g, i)
  BY DEF parse_arg
<1>7. ASSUME NEW i \in 0 .. l - 1
      PROVE  a[i] = m[i + 1]
  <2>1. \A j \in 0 .. i : j < Len(c) /\ j + 1 \in 1 .. e
    <3> HIDE DEF l
    <3>1. QED
      BY <1>1, <1>2, <1>4
  <2>2. \A j \in 0 .. i : ByteAt(c, g, j) = c[j + 1] /\ c[j + 1] \in Letters
    BY <1>2, <2>1 DEF ByteAt
  <2>3. ~ \E j \in 0 .. i : ByteAt(c, g, j) = SPACE
    BY <1>5, <2>2
  <2>4. i \in 0 .. FILENAME_LEN - 1 /\ i \in 0 .. i /\ i + 1 \in 1 .. l
    <3> HIDE DEF l
    <3>1. QED
      BY <1>1, <1>4
  <2> HIDE DEF a, l
  <2>5. a[i] = c[i + 1]
    BY <1>6, <2>2, <2>3, <2>4
  <2>6. QED
    BY <1>3, <2>4, <2>5
<1>8. ASSUME l < FILENAME_LEN
      PROVE  a[l] = NUL
  <2>1. l = e
    BY <1>1, <1>2, <1>8
  <2>2. l \in 0 .. FILENAME_LEN - 1 /\ l \in 0 .. l
    <3> HIDE DEF l
    <3>1. QED
      BY <1>1, <1>4, <1>8
  <2> HIDE DEF l, a
  <2>3. CASE e < Len(c)
    <3>1. ByteAt(c, g, l) = SPACE
      BY <1>2, <2>1, <2>3 DEF ByteAt
    <3>2. QED
      BY <1>6, <2>2, <3>1
  <2>4. CASE e = Len(c)
    <3>1. ByteAt(c, g, l) = NUL
      BY <1>1, <2>1, <2>4 DEF ByteAt
    <3>2. QED
      BY <1>6, <2>2, <3>1
  <2>5. QED
    BY <1>1, <1>2, <2>3, <2>4
<1> HIDE DEF l, a
<1>9. /\ \A i \in 0 .. Len(m) - 1 : a[i] = m[i + 1]
      /\ Len(m) < FILENAME_LEN => a[Len(m)] = NUL
      /\ Len(m) \in 0 .. FILENAME_LEN /\ m \in Seq(Letters)
  BY <1>3, <1>4, <1>7, <1>8
<1>10. QED
  BY <1>9 DEF a, m

\* A command finds an executable if and only if it names it.
LEMMA FoundIsNamed ==
    ASSUME NEW c \in Lines, NEW g, NEW n \in Executables
    PROVE  n \in Found(c, g) <=> n = Named(c)
<1> DEFINE a == parse_arg(c, g)
           b == Dentry(n)
           m == Named(c)
<1>1. /\ \A i \in 0 .. Len(m) - 1 : a[i] = m[i + 1]
      /\ Len(m) < FILENAME_LEN => a[Len(m)] = NUL
      /\ Len(m) \in 0 .. FILENAME_LEN /\ m \in Seq(Letters)
  BY ParsedIs
<1>2. /\ n \in Seq(Letters) /\ Len(n) \in 1 .. FILENAME_LEN /\ FILENAME_LEN \in Nat
      /\ NUL \notin Letters
  BY CommandsAssumption
<1>3. /\ \A i \in 0 .. FILENAME_LEN - 1 : i < Len(n) => b[i] = n[i + 1]
      /\ \A i \in 0 .. FILENAME_LEN - 1 : i >= Len(n) => b[i] = NUL
  BY <1>2 DEF Dentry, ByteAt
<1>4. n \in Found(c, g) <=> SameName(a, b)
  BY DEF Found
<1>5. \A i \in 0 .. Len(m) - 1 : m[i + 1] \in Letters
  <2>1. \A i \in 0 .. Len(m) - 1 : i + 1 \in 1 .. Len(m)
    BY <1>1
  <2>2. QED
    BY <1>1, <2>1
<1>6. \A i \in 0 .. Len(n) - 1 : n[i + 1] \in Letters
  <2>1. \A i \in 0 .. Len(n) - 1 : i + 1 \in 1 .. Len(n)
    BY <1>2
  <2>2. QED
    BY <1>2, <2>1
<1> HIDE DEF a, b, m
<1>7. ASSUME SameName(a, b)
      PROVE  n = m
  <2>1. \A i \in 0 .. FILENAME_LEN - 1 : (\A j \in 0 .. i - 1 : a[j] # NUL) => a[i] = b[i]
    BY <1>7 DEF SameName
  <2>2. \A i \in 0 .. Len(m) : \A j \in 0 .. i - 1 : a[j] # NUL
    <3>1. \A i \in 0 .. Len(m) : \A j \in 0 .. i - 1 : j \in 0 .. Len(m) - 1
      BY <1>1
    <3>2. QED
      BY <1>1, <1>2, <1>5, <3>1
  <2>3. \A i \in 0 .. Len(m) - 1 : b[i] = m[i + 1]
    <3>1. \A i \in 0 .. Len(m) - 1 : i \in 0 .. FILENAME_LEN - 1 /\ i \in 0 .. Len(m)
      BY <1>1, <1>2
    <3>2. QED
      BY <1>1, <2>1, <2>2, <3>1
  <2>4. Len(n) >= Len(m)
    <3>1. SUFFICES ASSUME Len(n) < Len(m) PROVE FALSE
      BY <1>1, <1>2
    <3>2. Len(n) \in 0 .. Len(m) - 1 /\ Len(n) \in 0 .. FILENAME_LEN - 1
      BY <1>1, <1>2, <3>1
    <3>3. b[Len(n)] = NUL
      BY <1>2, <1>3, <3>2
    <3>4. QED
      BY <1>2, <1>5, <2>3, <3>2, <3>3
  <2>5. Len(n) <= Len(m)
    <3>1. SUFFICES ASSUME Len(n) > Len(m) PROVE FALSE
      BY <1>1, <1>2
    <3>2. Len(m) \in 0 .. Len(n) - 1 /\ Len(m) \in 0 .. FILENAME_LEN - 1
          /\ Len(m) < FILENAME_LEN /\ Len(m) \in 0 .. Len(m)
      BY <1>1, <1>2, <3>1
    <3>3. b[Len(m)] = NUL
      BY <1>1, <2>1, <2>2, <3>2
    <3>4. b[Len(m)] = n[Len(m) + 1] /\ n[Len(m) + 1] \in Letters
      BY <1>3, <1>6, <3>1, <3>2
    <3>5. QED
      BY <1>2, <3>3, <3>4
  <2>6. Len(n) = Len(m)
    BY <1>1, <1>2, <2>4, <2>5
  <2>7. \A k \in 1 .. Len(n) : n[k] = m[k]
    <3>1. SUFFICES ASSUME NEW k \in 1 .. Len(n) PROVE n[k] = m[k]
      OBVIOUS
    <3>2. k - 1 \in 0 .. Len(m) - 1 /\ k - 1 \in 0 .. FILENAME_LEN - 1
          /\ k - 1 < Len(n) /\ k - 1 + 1 = k
      BY <1>1, <1>2, <2>6
    <3>3. b[k - 1] = m[k] /\ b[k - 1] = n[k]
      BY <1>3, <2>3, <3>2
    <3>4. QED
      BY <3>3
  <2>8. QED
    BY <1>1, <1>2, <2>6, <2>7, SeqEqual
<1>8. ASSUME n = m
      PROVE  SameName(a, b)
  <2>1. SUFFICES ASSUME NEW i \in 0 .. FILENAME_LEN - 1, \A j \in 0 .. i - 1 : a[j] # NUL
                 PROVE  a[i] = b[i]
    BY DEF SameName
  <2>2. i <= Len(m)
    <3>1. SUFFICES ASSUME i > Len(m) PROVE FALSE
      BY <1>1, <1>2
    <3>2. Len(m) \in 0 .. i - 1 /\ Len(m) < FILENAME_LEN
      BY <1>1, <1>2, <3>1
    <3>3. QED
      BY <1>1, <2>1, <3>2
  <2>3. CASE i = Len(m)
    <3>1. a[i] = NUL
      BY <1>1, <1>2, <2>3
    <3>2. i >= Len(n)
      BY <1>1, <1>8, <2>3
    <3>3. QED
      BY <1>3, <3>1, <3>2
  <2>4. CASE i < Len(m)
    <3>1. i \in 0 .. Len(m) - 1
      BY <1>1, <1>2, <2>4
    <3>2. QED
      BY <1>1, <1>3, <1>8, <2>4, <3>1
  <2>5. QED
    BY <1>1, <1>2, <2>2, <2>3, <2>4
<1>9. QED
  BY <1>4, <1>7, <1>8 DEF m

-----------------------------------------------------------------------------
(***************************************************************************)
(* The inductive invariant                                                 *)
(***************************************************************************)
\* A slot in use holds its own command line, and zeros behind it; a free one
\* holds zeros, so that nothing of one process is left for the next.
SlotInv(p) ==
    /\ p \in live => /\ started[p] \in Lines
                     /\ cmd[p] = Buffer(started[p])
                     /\ file[p] \in Executables /\ file[p] = Named(started[p])
    /\ p \notin live => /\ cmd[p] = Zeros
                        /\ started[p] = << >> /\ file[p] = << >>

\* The argument belongs to the process that asked for it last.
ArgInv ==
    \/ arg = [pid |-> 0, text |-> << >>]
    \/ /\ arg.pid \in live
       /\ arg.text = SecondWord(started[arg.pid]) /\ arg.text \in Seq(Letters)

CommandsInv ==
    /\ live \subseteq Pids
    /\ DOMAIN cmd = Pids /\ DOMAIN file = Pids /\ DOMAIN started = Pids
    /\ \A p \in Pids : SlotInv(p)
    /\ ArgInv
    /\ cmd = [p \in Pids |-> cmd[p]] /\ file = [p \in Pids |-> file[p]]
    /\ started = [p \in Pids |-> started[p]]

LEMMA CommandsStart == Init => CommandsInv
<1> SUFFICES ASSUME Init PROVE CommandsInv
  OBVIOUS
<1>1. \A p \in Pids : SlotInv(p)
  BY DEF Init, SlotInv
<1>2. ArgInv
  BY DEF Init, ArgInv
<1>3. QED
  BY <1>1, <1>2 DEF Init, CommandsInv

\* A free slot is found when there is one.
LEMMA FindPid ==
    ASSUME live \subseteq Pids, Pids # live
    PROVE  find_pid \in Pids \ live
<1> DEFINE T == Pids \ live
<1>1. T \subseteq Nat /\ T # {}
  <2>1. \E p \in Pids : p \notin live
    BY Zenon
  <2>2. Pids \subseteq Nat
    BY CommandsAssumption DEF Pids
  <2>3. QED
    BY <2>1, <2>2
<1> HIDE DEF T
<1>2. \E x \in T : \A y \in T : x <= y
  BY <1>1, LeastElement
<1>3. find_pid = CHOOSE p \in T : \A q \in T : p <= q
  BY DEF find_pid, T
<1>4. find_pid \in T
  BY <1>2, <1>3
<1>5. QED
  BY <1>4 DEF T

LEMMA ExecuteStep ==
    ASSUME CommandsInv, NEW c \in Lines, NEW g, sys_execute(c, g)
    PROVE  CommandsInv'
<1> DEFINE f == find_pid
<1>1. Pids # live /\ arg' = arg
  BY DEF sys_execute
<1>2. f \in Pids \ live
  BY <1>1, FindPid DEF CommandsInv
<1> HIDE DEF f
<1>3. PICK n \in Found(c, g) :
          /\ live' = live \cup {f}
          /\ cmd'  = [cmd EXCEPT ![f] = strcpy(@, c)]
          /\ file' = [file EXCEPT ![f] = n]
          /\ started' = [started EXCEPT ![f] = c]
  BY DEF sys_execute, f
<1>4. n \in Executables /\ n = Named(c)
  <2>1. n \in Executables
    BY DEF Found
  <2>2. QED
    BY <2>1, FoundIsNamed
<1>5. cmd[f] = Zeros
  BY <1>2 DEF CommandsInv, SlotInv
<1>6. strcpy(cmd[f], c) = Buffer(c)
  <2>1. DOMAIN cmd[f] = 0 .. CMD_LENGTH - 1
        /\ \A i \in 0 .. CMD_LENGTH - 1 : cmd[f][i] = NUL
    BY <1>5 DEF Zeros
  <2>2. \A i \in 0 .. CMD_LENGTH - 1 : ByteAt(c, cmd[f][i], i) = ByteAt(c, NUL, i)
    BY <2>1
  <2>3. QED
    BY <2>1, <2>2 DEF strcpy, Buffer
<1>7. /\ cmd'[f] = Buffer(c) /\ file'[f] = n /\ started'[f] = c
      /\ \A p \in Pids : p # f => /\ cmd'[p] = cmd[p] /\ file'[p] = file[p]
                                  /\ started'[p] = started[p]
  <2>1. f \in DOMAIN cmd /\ f \in DOMAIN file /\ f \in DOMAIN started
    BY <1>2 DEF CommandsInv
  <2>2. QED
    BY <1>3, <1>6, <2>1 DEF CommandsInv
<1>8. \A p \in Pids : SlotInv(p)'
  <2>1. SUFFICES ASSUME NEW p \in Pids PROVE SlotInv(p)'
    OBVIOUS
  <2>2. CASE p = f
    BY <1>3, <1>4, <1>7, <2>2 DEF SlotInv
  <2>3. CASE p # f
    <3>1. p \in live' <=> p \in live
      BY <1>3, <2>3
    <3>2. Zeros' = Zeros
      BY DEF Zeros
    <3>3. SlotInv(p)
      BY DEF CommandsInv
    <3>4. QED
      BY <1>7, <2>3, <3>1, <3>2, <3>3 DEF SlotInv
  <2>4. QED
    BY <2>2, <2>3
<1>9. ArgInv'
  <2>1. ArgInv
    BY DEF CommandsInv
  <2>2. ASSUME arg.pid \in live PROVE started'[arg.pid] = started[arg.pid]
    <3>1. arg.pid \in Pids /\ arg.pid # f
      BY <1>2, <2>2 DEF CommandsInv
    <3>2. QED
      BY <1>7, <3>1
  <2>3. QED
    BY <1>1, <1>3, <2>1, <2>2 DEF ArgInv
<1>10. live' \subseteq Pids
  BY <1>2, <1>3 DEF CommandsInv
<1>11. /\ DOMAIN cmd' = Pids /\ DOMAIN file' = Pids /\ DOMAIN started' = Pids
       /\ cmd' = [p \in Pids |-> cmd'[p]] /\ file' = [p \in Pids |-> file'[p]]
       /\ started' = [p \in Pids |-> started'[p]]
  BY <1>3 DEF CommandsInv
<1>12. QED
  BY <1>8, <1>9, <1>10, <1>11 DEF CommandsInv

LEMMA HaltStep ==
    ASSUME CommandsInv, NEW h \in Pids, sys_halt(h)
    PROVE  CommandsInv'
<1>1. /\ live' = live \ {h}
      /\ cmd' = [cmd EXCEPT ![h] = Zeros] /\ file' = [file EXCEPT ![h] = << >>]
      /\ started' = [started EXCEPT ![h] = << >>]
      /\ arg' = [pid |-> 0, text |-> << >>]
  BY DEF sys_halt, Cleared
<1>2. /\ cmd'[h] = Zeros /\ file'[h] = << >> /\ started'[h] = << >>
      /\ \A p \in Pids : p # h => /\ cmd'[p] = cmd[p] /\ file'[p] = file[p]
                                  /\ started'[p] = started[p]
  BY <1>1 DEF CommandsInv
<1>3. \A p \in Pids : SlotInv(p)'
  <2>1. SUFFICES ASSUME NEW p \in Pids PROVE SlotInv(p)'
    OBVIOUS
  <2>2. Zeros' = Zeros
    BY DEF Zeros
  <2>3. CASE p = h
    BY <1>1, <1>2, <2>2, <2>3 DEF SlotInv
  <2>4. CASE p # h
    <3>1. (p \in live' <=> p \in live) /\ SlotInv(p)
      BY <1>1, <2>4 DEF CommandsInv
    <3>2. QED
      BY <1>2, <2>2, <2>4, <3>1 DEF SlotInv
  <2>5. QED
    BY <2>3, <2>4
<1>4. ArgInv'
  BY <1>1 DEF ArgInv
<1>5. live' \subseteq Pids
  BY <1>1 DEF CommandsInv
<1>6. /\ DOMAIN cmd' = Pids /\ DOMAIN file' = Pids /\ DOMAIN started' = Pids
      /\ cmd' = [p \in Pids |-> cmd'[p]] /\ file' = [p \in Pids |-> file'[p]]
      /\ started' = [p \in Pids |-> started'[p]]
  BY <1>1 DEF CommandsInv
<1>7. QED
  BY <1>3, <1>4, <1>5, <1>6 DEF CommandsInv

LEMMA GetargsStep ==
    ASSUME CommandsInv, NEW p \in Pids, sys_getargs(p)
    PROVE  CommandsInv'
<1> DEFINE c == started[p]
           start == NameEnd(cmd[p]) + 1
           text == [k \in 1 .. ArgEnd(cmd[p]) - start |-> cmd[p][start + k - 1]]
<1>1. p \in live /\ arg' = [pid |-> p, text |-> text]
      /\ UNCHANGED <<live, cmd, file, started>>
  BY DEF sys_getargs
<1>2. c \in Lines /\ cmd[p] = Buffer(c)
  BY <1>1 DEF CommandsInv, SlotInv
<1>3. text = SecondWord(c) /\ text \in Seq(Letters)
  BY <1>2, ArgText
<1> HIDE DEF text
<1>4. ArgInv'
  BY <1>1, <1>3 DEF ArgInv
<1>5. \A q \in Pids : SlotInv(q)'
  <2>1. Zeros' = Zeros
    BY DEF Zeros
  <2>2. QED
    BY <1>1, <2>1 DEF CommandsInv, SlotInv
<1>6. QED
  BY <1>1, <1>4, <1>5 DEF CommandsInv

\* The inductive invariant.
THEOREM CommandsInvariant == Spec => []CommandsInv
<1>1. CommandsInv /\ [Next]_vars => CommandsInv'
  <2> SUFFICES ASSUME CommandsInv, [Next]_vars PROVE CommandsInv'
    OBVIOUS
  <2>1. CASE UNCHANGED vars
    <3>1. Zeros' = Zeros
      BY DEF Zeros
    <3>2. \A q \in Pids : SlotInv(q)'
      BY <2>1, <3>1 DEF CommandsInv, SlotInv, vars
    <3>3. ArgInv'
      BY <2>1 DEF CommandsInv, ArgInv, vars
    <3>4. QED
      BY <2>1, <3>2, <3>3 DEF CommandsInv, vars
  <2>2. QED
    BY <2>1, ExecuteStep, HaltStep, GetargsStep DEF Next
<1>2. QED
  BY <1>1, CommandsStart, PTL DEF Spec

-----------------------------------------------------------------------------
(***************************************************************************)
(* Results                                                                 *)
(***************************************************************************)
\* Types; in particular a command is always closed by a NUL within its buffer.
THEOREM CommandsTypeCorrect == Spec => []CommandsTypeOK
<1>1. CommandsInv => CommandsTypeOK
  <2> SUFFICES ASSUME CommandsInv PROVE CommandsTypeOK
    OBVIOUS
  <2>1. \A p \in Pids : SlotInv(p)
    BY DEF CommandsInv
  <2>2. Zeros \in [0 .. CMD_LENGTH - 1 -> Bytes]
    BY DEF Zeros, Bytes
  <2>3. \A p \in Pids : cmd[p] \in [0 .. CMD_LENGTH - 1 -> Bytes]
    BY <2>1, <2>2, BufferIs DEF SlotInv
  <2>4. \A p \in live : cmd[p][CMD_LENGTH - 1] = NUL
    <3>1. SUFFICES ASSUME NEW p \in live PROVE cmd[p][CMD_LENGTH - 1] = NUL
      OBVIOUS
    <3>2. started[p] \in Lines /\ cmd[p] = Buffer(started[p])
      BY <2>1 DEF CommandsInv, SlotInv
    <3>3. CMD_LENGTH - 1 \in Len(started[p]) .. CMD_LENGTH - 1
      BY <3>2, LineShape
    <3>4. QED
      BY <3>2, <3>3, BufferIs
  <2>5. \A p \in Pids : /\ file[p] \in Executables \cup {<< >>}
                        /\ started[p] \in Lines \cup {<< >>}
    BY <2>1 DEF SlotInv
  <2>6. arg.pid \in Pids \cup {0} /\ arg.text \in Seq(Letters)
    <3>1. << >> \in Seq(Letters)
      OBVIOUS
    <3>2. CASE arg = [pid |-> 0, text |-> << >>]
      BY <3>1, <3>2
    <3>3. CASE arg.pid \in live /\ arg.text \in Seq(Letters)
      BY <3>3 DEF CommandsInv
    <3>4. QED
      BY <3>2, <3>3 DEF CommandsInv, ArgInv
  <2>7. QED
    BY <2>3, <2>4, <2>5, <2>6 DEF CommandsInv, CommandsTypeOK
<1>2. QED
  BY <1>1, CommandsInvariant, PTL

\* getargs gives a process the second word of its own command line, whatever
\* process used its slot and its buffer before, for all lines that fit cmd.
THEOREM ArgumentTheorem == Spec => []ArgumentIsOwn
<1>1. CommandsInv => ArgumentIsOwn
  BY DEF CommandsInv, ArgInv, ArgumentIsOwn
<1>2. QED
  BY <1>1, CommandsInvariant, PTL

\* The file that runs is the one the command line names, whatever lies in memory
\* behind the line, and an executable that is named is found.
THEOREM NamedFileTheorem == Spec => []RunsNamedFile
<1>1. CommandsInv => RunsNamedFile
  <2> SUFFICES ASSUME CommandsInv PROVE RunsNamedFile
    OBVIOUS
  <2>1. \A p \in live : file[p] = Named(started[p])
    BY DEF CommandsInv, SlotInv
  <2>2. \A c \in Lines, g \in Bytes : Named(c) \in Executables => Found(c, g) # {}
    <3>1. SUFFICES ASSUME NEW c \in Lines, NEW g \in Bytes, Named(c) \in Executables
                   PROVE  Named(c) \in Found(c, g)
      OBVIOUS
    <3>2. QED
      BY <3>1, FoundIsNamed
  <2>3. QED
    BY <2>1, <2>2 DEF RunsNamedFile
<1>2. QED
  BY <1>1, CommandsInvariant, PTL

-----------------------------------------------------------------------------
(***************************************************************************)
(* memset, memcpy, memmove                                                 *)
(***************************************************************************)
\* The memories of the calls
Addresses  == 0 .. MemSize - 1
ByteValues == 0 .. MemSize + 255
Memories   == [Addresses -> ByteValues]

\* The pieces of a copy lie where there is memory to copy from.
InMemory(q, src) ==
    /\ Len(q) \in Nat /\ DOMAIN q = 1 .. Len(q)
    /\ \A i \in 1 .. Len(q) : /\ q[i][1] \in Nat /\ q[i][2] \in Nat
                             /\ src + q[i][1] + q[i][2] <= MemSize

LEMMA MoveStays ==
    ASSUME NEW m \in Memories, NEW d \in Nat, NEW s \in Nat, NEW k \in Nat,
           s + k <= MemSize
    PROVE  Move(m, d, s, k) \in Memories
<1>1. MemSize \in Nat
  BY LibAssumption
<1>2. ASSUME NEW a \in Addresses
      PROVE  (IF a \in d .. d + k - 1 THEN m[s + a - d] ELSE m[a]) \in ByteValues
  <2>1. CASE a \in d .. d + k - 1
    <3>1. s + a - d \in Addresses
      BY <1>1, <2>1 DEF Addresses
    <3>2. QED
      BY <2>1, <3>1 DEF Memories
  <2>2. CASE a \notin d .. d + k - 1
    BY <2>2 DEF Memories
  <2>3. QED
    BY <2>1, <2>2
<1>3. DOMAIN m = Addresses
  BY DEF Memories
<1>4. QED
  BY <1>2, <1>3 DEF Move, Memories

\* A copy is a run of moves.
Moves(g, m, dest, src, q) ==
    /\ g[0] = m
    /\ \A k \in 0 .. Len(q) : g[k] \in Memories
    /\ \A k \in 1 .. Len(q) :
          g[k] = Move(g[k - 1], dest + q[k][1], src + q[k][1], q[k][2])

LEMMA MovesOf ==
    ASSUME NEW m \in Memories, NEW dest \in Nat, NEW src \in Nat, NEW q, InMemory(q, src)
    PROVE  \E g : Moves(g, m, dest, src, q) /\ Copy(m, dest, src, q) = g[Len(q)]
<1> DEFINE n == Len(q)
           Step(mem, i) == Move(mem, dest + q[i][1], src + q[i][1], q[i][2])
           F == [p \in Memories \X (1 .. n) |-> Step(p[1], p[2])]
           R(h) == h = [t \in SUBSET (1 .. n) |->
                          IF t = {} THEN m ELSE Step(h[t \ {Max(t)}], Max(t))]
           H == CHOOSE h : R(h)
<1>1. Copy(m, dest, src, q) = H[1 .. n]
  <2>1. DOMAIN q = 1 .. n
    BY DEF InMemory
  <2>2. QED
    BY <2>1 DEF Copy, FoldLeft, MapThenFoldSet
<1>2. n \in Nat
  BY DEF InMemory
<1>3. ASSUME NEW mem \in Memories, NEW i \in 1 .. n
      PROVE  Step(mem, i) \in Memories
  <2>1. /\ dest + q[i][1] \in Nat /\ src + q[i][1] \in Nat /\ q[i][2] \in Nat
        /\ (src + q[i][1]) + q[i][2] <= MemSize
    BY DEF InMemory
  <2>2. QED
    BY <2>1, MoveStays
<1> HIDE DEF n, Step
<1>4. F \in [Memories \X (1 .. n) -> Memories]
  <2>1. \A p \in Memories \X (1 .. n) : Step(p[1], p[2]) \in Memories
    BY <1>3
  <2>2. QED
    BY <2>1
<1>5. \E h : R(h)
  <2>1. PICK h \in [SUBSET (1 .. n) -> Memories] : FoldsBy(h, F, m, n)
    <3> HIDE DEF F
    <3>1. QED
      BY <1>2, <1>4, FoldExists
  <2>2. ASSUME NEW t \in SUBSET (1 .. n), t # {}
        PROVE  F[<<h[t \ {Max(t)}], Max(t)>>] = Step(h[t \ {Max(t)}], Max(t))
    <3>1. Max(t) \in 1 .. n
      BY <1>2, <2>2, MaxOf
    <3>2. t \ {Max(t)} \in SUBSET (1 .. n)
      OBVIOUS
    <3>3. h[t \ {Max(t)}] \in Memories
      BY <2>1, <3>2
    <3>4. QED
      BY <3>1, <3>3
  <2>3. [t \in SUBSET (1 .. n) |-> IF t = {} THEN m
             ELSE F[<<h[t \ {Max(t)}], Max(t)>>]]
        = [t \in SUBSET (1 .. n) |-> IF t = {} THEN m
             ELSE Step(h[t \ {Max(t)}], Max(t))]
    <3> HIDE DEF F
    <3>1. QED
      BY <2>2
  <2>4. R(h)
    <3> HIDE DEF F
    <3>1. QED
      BY <2>1, <2>3 DEF FoldsBy
  <2>5. QED
    BY <2>4
<1>6. R(H)
  <2> HIDE DEF R
  <2>1. QED
    BY <1>5
<1> HIDE DEF H
<1>7. PICK g : RunOf(g, F, Memories, m, n) /\ g[n] = H[1 .. n]
  <2>1. {} \in SUBSET (1 .. n)
    OBVIOUS
  <2>2. H[{}] = m
    BY <1>6, <2>1
  <2>3. ASSUME NEW t \in SUBSET (1 .. n), t # {}, H[t \ {Max(t)}] \in Memories
        PROVE  H[t] = F[<<H[t \ {Max(t)}], Max(t)>>]
    <3>1. Max(t) \in 1 .. n
      BY <1>2, <2>3, MaxOf
    <3>2. H[t] = Step(H[t \ {Max(t)}], Max(t))
      BY <1>6, <2>3
    <3>3. QED
      BY <2>3, <3>1, <3>2
  <2> HIDE DEF F, R
  <2>4. Folding(H, F, Memories, m, n)
    BY <1>2, <1>4, <2>2, <2>3 DEF Folding
  <2>5. QED
    BY <2>4, FoldRun, SMT
<1>8. \A k \in 1 .. n : k - 1 \in 0 .. n
  BY <1>2
<1>9. \A k \in 1 .. n : g[k] = Step(g[k - 1], k)
  BY <1>7, <1>8 DEF RunOf
<1>10. Moves(g, m, dest, src, q)
  BY <1>7, <1>9 DEF RunOf, Moves, n, Step
<1>11. QED
  BY <1>1, <1>7, <1>10 DEF n

\* memset is a run of fills.
Fills(g, m, p, v, q) ==
    /\ g[0] = m
    /\ \A k \in 0 .. Len(q) : g[k] \in Memories
    /\ \A k \in 1 .. Len(q) : g[k] = Fill(g[k - 1], p + q[k][1], q[k][2], v)

LEMMA FillsOf ==
    ASSUME NEW m \in Memories, NEW s, NEW c, c % 256 \in ByteValues, NEW size,
           Len(Pieces(s, size)) \in Nat,
           DOMAIN Pieces(s, size) = 1 .. Len(Pieces(s, size))
    PROVE  \E g : /\ Fills(g, m, s, c % 256, Pieces(s, size))
                  /\ memset(m, s, c, size) = g[Len(Pieces(s, size))]
<1> DEFINE q == Pieces(s, size)
           n == Len(q)
           Step(mem, i) == Fill(mem, s + q[i][1], q[i][2], c % 256)
           F == [p \in Memories \X (1 .. n) |-> Step(p[1], p[2])]
           R(h) == h = [t \in SUBSET (1 .. n) |->
                          IF t = {} THEN m ELSE Step(h[t \ {Max(t)}], Max(t))]
           H == CHOOSE h : R(h)
<1>1. memset(m, s, c, size) = H[1 .. n]
  BY DEF memset, FoldLeft, MapThenFoldSet
<1>2. n \in Nat
  OBVIOUS
<1> HIDE DEF q
<1>3. ASSUME NEW mem \in Memories, NEW i \in 1 .. n
      PROVE  Step(mem, i) \in Memories
  <2>1. DOMAIN mem = Addresses /\ \A a \in Addresses : mem[a] \in ByteValues
    BY DEF Memories
  <2>2. \A a \in Addresses :
            (IF a \in s + q[i][1] .. s + q[i][1] + q[i][2] - 1 THEN c % 256 ELSE mem[a])
                \in ByteValues
    BY <2>1
  <2>3. QED
    BY <2>1, <2>2 DEF Fill, Memories
<1> HIDE DEF n, Step
<1>4. F \in [Memories \X (1 .. n) -> Memories]
  <2>1. \A p \in Memories \X (1 .. n) : Step(p[1], p[2]) \in Memories
    BY <1>3
  <2>2. QED
    BY <2>1
<1>5. \E h : R(h)
  <2>1. PICK h \in [SUBSET (1 .. n) -> Memories] : FoldsBy(h, F, m, n)
    <3> HIDE DEF F
    <3>1. QED
      BY <1>2, <1>4, FoldExists
  <2>2. ASSUME NEW t \in SUBSET (1 .. n), t # {}
        PROVE  F[<<h[t \ {Max(t)}], Max(t)>>] = Step(h[t \ {Max(t)}], Max(t))
    <3>1. Max(t) \in 1 .. n
      BY <1>2, <2>2, MaxOf
    <3>2. t \ {Max(t)} \in SUBSET (1 .. n)
      OBVIOUS
    <3>3. h[t \ {Max(t)}] \in Memories
      BY <2>1, <3>2
    <3>4. QED
      BY <3>1, <3>3
  <2>3. [t \in SUBSET (1 .. n) |-> IF t = {} THEN m
             ELSE F[<<h[t \ {Max(t)}], Max(t)>>]]
        = [t \in SUBSET (1 .. n) |-> IF t = {} THEN m
             ELSE Step(h[t \ {Max(t)}], Max(t))]
    <3> HIDE DEF F
    <3>1. QED
      BY <2>2
  <2>4. R(h)
    <3> HIDE DEF F
    <3>1. QED
      BY <2>1, <2>3 DEF FoldsBy
  <2>5. QED
    BY <2>4
<1>6. R(H)
  <2> HIDE DEF R
  <2>1. QED
    BY <1>5
<1> HIDE DEF H
<1>7. PICK g : RunOf(g, F, Memories, m, n) /\ g[n] = H[1 .. n]
  <2>1. {} \in SUBSET (1 .. n)
    OBVIOUS
  <2>2. H[{}] = m
    BY <1>6, <2>1
  <2>3. ASSUME NEW t \in SUBSET (1 .. n), t # {}, H[t \ {Max(t)}] \in Memories
        PROVE  H[t] = F[<<H[t \ {Max(t)}], Max(t)>>]
    <3>1. Max(t) \in 1 .. n
      BY <1>2, <2>3, MaxOf
    <3>2. H[t] = Step(H[t \ {Max(t)}], Max(t))
      BY <1>6, <2>3
    <3>3. QED
      BY <2>3, <3>1, <3>2
  <2> HIDE DEF F, R
  <2>4. Folding(H, F, Memories, m, n)
    BY <1>2, <1>4, <2>2, <2>3 DEF Folding
  <2>5. QED
    BY <2>4, FoldRun, SMT
<1>8. \A k \in 1 .. n : k - 1 \in 0 .. n
  BY <1>2
<1>9. \A k \in 1 .. n : g[k] = Step(g[k - 1], k)
  BY <1>7, <1>8 DEF RunOf
<1>10. Fills(g, m, s, c % 256, q)
  BY <1>7, <1>9 DEF RunOf, Fills, n, Step
<1>11. QED
  BY <1>1, <1>7, <1>10 DEF n, q

\* The pieces cover 0 .. n - 1 in order, each beginning where the last one ends.
Covered(q, k) == IF k = 0 THEN 0 ELSE q[k][1] + q[k][2]
InOrder(q, n) ==
    /\ Len(q) \in Nat /\ DOMAIN q = 1 .. Len(q)
    /\ \A k \in 1 .. Len(q) : /\ q[k][1] = Covered(q, k - 1)
                             /\ q[k][1] \in Nat /\ q[k][2] \in Nat
                             /\ q[k][1] + q[k][2] <= n
    /\ Covered(q, Len(q)) = n

LEMMA PiecesInOrder ==
    ASSUME NEW p \in Nat, NEW n \in Nat
    PROVE  InOrder(Pieces(p, n), n)
<1> DEFINE q == Pieces(p, n)
<1>1. PICK h \in Nat : h = Unaligned(p, n) /\ h <= n
  BY DEF Unaligned
<1>2. PICK w, t \in Nat : w = (n - h) \div 4 /\ t = (n - h) % 4 /\ n = h + 4 * w + t
  <2>1. ASSUME NEW d \in Nat
        PROVE  d \div 4 \in Nat /\ d % 4 \in Nat /\ d = 4 * (d \div 4) + (d % 4)
    BY Z3
  <2>2. n - h \in Nat
    BY <1>1
  <2>3. PICK d \in Nat : d = n - h
    BY <2>2
  <2>4. n = h + d
    BY <1>1, <2>3
  <2>5. PICK w, t \in Nat : w = d \div 4 /\ t = d % 4 /\ d = 4 * w + t
    BY <2>1
  <2>6. n = h + 4 * w + t
    BY <1>1, <2>4, <2>5
  <2>7. QED
    BY <2>3, <2>5, <2>6
<1> DEFINE s1 == [i \in 1 .. h |-> <<i - 1, 1>>]
           s2 == [i \in 1 .. w |-> <<h + 4 * (i - 1), 4>>]
           s3 == [i \in 1 .. t |-> <<h + 4 * w + i - 1, 1>>]
           S == Nat \X Nat
<1>3. q = s1 \o s2 \o s3
  BY <1>1, <1>2 DEF Pieces, Tail4
<1>4. s1 \in Seq(S) /\ Len(s1) = h
  <2>1. \A i \in 1 .. h : <<i - 1, 1>> \in S
    BY <1>1
  <2>2. QED
    BY <1>1, <2>1
<1>5. s2 \in Seq(S) /\ Len(s2) = w
  <2>1. \A i \in 1 .. w : <<h + 4 * (i - 1), 4>> \in S
    BY <1>1, <1>2
  <2>2. QED
    BY <1>2, <2>1
<1>6. s3 \in Seq(S) /\ Len(s3) = t
  <2>1. \A i \in 1 .. t : <<h + 4 * w + i - 1, 1>> \in S
    BY <1>1, <1>2
  <2>2. QED
    BY <1>2, <2>1
<1>7. /\ s1 \o s2 \in Seq(S) /\ Len(s1 \o s2) = h + w
      /\ \A i \in 1 .. h + w : (s1 \o s2)[i] = IF i <= h THEN s1[i] ELSE s2[i - h]
  <2> HIDE DEF s1, s2, S
  <2>1. QED
    BY <1>4, <1>5, ConcatProperties
<1>8. /\ q \in Seq(S) /\ Len(q) = h + w + t
      /\ \A i \in 1 .. h + w + t :
            q[i] = IF i <= h + w THEN (s1 \o s2)[i] ELSE s3[i - (h + w)]
  <2> DEFINE s12 == s1 \o s2
  <2>1. q = s12 \o s3
    BY <1>3
  <2> HIDE DEF s1, s2, s3, S, s12, q
  <2>2. s12 \in Seq(S) /\ Len(s12) = h + w
    BY <1>7 DEF s12
  <2>3. /\ q \in Seq(S) /\ Len(q) = h + w + t
        /\ \A i \in 1 .. h + w + t :
              q[i] = IF i <= h + w THEN s12[i] ELSE s3[i - (h + w)]
    BY <1>6, <2>1, <2>2, ConcatProperties
  <2>4. QED
    BY <2>3 DEF s12
<1> DEFINE l == h + w + t
<1>9. ASSUME NEW i \in 1 .. l
      PROVE  /\ i <= h => q[i] = <<i - 1, 1>>
             /\ h < i /\ i <= h + w => q[i] = <<h + 4 * (i - h - 1), 4>>
             /\ h + w < i => q[i] = <<h + 4 * w + (i - (h + w)) - 1, 1>>
  <2>1. CASE i <= h
    <3>1. i \in 1 .. h /\ i \in 1 .. h + w /\ i <= h + w /\ ~(h < i) /\ ~(h + w < i)
      BY <1>1, <1>2, <2>1
    <3>2. q[i] = s1[i]
      BY <1>7, <1>8, <2>1, <3>1
    <3>3. QED
      BY <3>1, <3>2
  <2>2. CASE h < i /\ i <= h + w
    <3>1. i - h \in 1 .. w /\ i \in 1 .. h + w /\ ~(i <= h) /\ ~(h + w < i)
      BY <1>1, <1>2, <2>2
    <3>2. q[i] = s2[i - h]
      BY <1>7, <1>8, <2>2, <3>1
    <3>3. s2[i - h] = <<h + 4 * ((i - h) - 1), 4>>
      BY <3>1
    <3>4. QED
      BY <3>1, <3>2, <3>3
  <2>3. CASE h + w < i
    <3>1. i - (h + w) \in 1 .. t /\ ~(i <= h) /\ ~(i <= h + w)
      BY <1>1, <1>2, <2>3
    <3>2. q[i] = s3[i - (h + w)]
      BY <1>8, <3>1
    <3>3. QED
      BY <3>1, <3>2
  <2>4. QED
    BY <1>1, <1>2, <2>1, <2>2, <2>3
<1> HIDE DEF q, s1, s2, s3
<1>10. ASSUME NEW k \in 0 .. l
       PROVE  Covered(q, k) = IF k <= h THEN k
                              ELSE IF k <= h + w THEN h + 4 * (k - h)
                              ELSE h + 4 * w + (k - (h + w))
  <2>1. CASE k = 0
    BY <1>1, <2>1 DEF Covered
  <2>2. CASE k # 0 /\ k <= h
    <3>1. q[k] = <<k - 1, 1>>
      BY <1>9, <2>2
    <3>2. Covered(q, k) = (k - 1) + 1
      BY <2>2, <3>1 DEF Covered
    <3>3. QED
      BY <1>1, <2>2, <3>2
  <2>3. CASE h < k /\ k <= h + w
    <3>1. q[k] = <<h + 4 * (k - h - 1), 4>> /\ k # 0
      BY <1>1, <1>9, <2>3
    <3>2. Covered(q, k) = h + 4 * (k - h - 1) + 4
      BY <3>1 DEF Covered
    <3>3. h + 4 * (k - h - 1) + 4 = h + 4 * (k - h) /\ ~(k <= h)
      BY <1>1, <1>2, <2>3
    <3>4. QED
      BY <2>3, <3>2, <3>3
  <2>4. CASE h + w < k
    <3>1. q[k] = <<h + 4 * w + (k - (h + w)) - 1, 1>> /\ k # 0
      BY <1>1, <1>2, <1>9, <2>4
    <3>2. Covered(q, k) = h + 4 * w + (k - (h + w)) - 1 + 1
      BY <3>1 DEF Covered
    <3>3. /\ ~(k <= h) /\ ~(k <= h + w)
          /\ h + 4 * w + (k - (h + w)) - 1 + 1 = h + 4 * w + (k - (h + w))
      BY <1>1, <1>2, <2>4
    <3>4. QED
      BY <3>2, <3>3
  <2>5. QED
    BY <1>1, <1>2, <2>1, <2>2, <2>3, <2>4
<1>11. ASSUME NEW k \in 1 .. l
       PROVE  /\ q[k][1] = Covered(q, k - 1) /\ q[k][1] \in Nat /\ q[k][2] \in Nat
              /\ q[k][1] + q[k][2] <= n
  <2>1. k - 1 \in 0 .. l
    BY <1>1, <1>2
  <2>2. CASE k <= h
    <3>1. q[k] = <<k - 1, 1>>
      BY <1>9, <2>2
    <3>2. Covered(q, k - 1) = k - 1
      BY <1>1, <1>10, <2>1, <2>2
    <3>3. k - 1 \in Nat /\ (k - 1) + 1 <= n
      BY <1>1, <1>2, <2>2
    <3>4. QED
      BY <3>1, <3>2, <3>3
  <2>3. CASE h < k /\ k <= h + w
    <3>1. q[k] = <<h + 4 * (k - h - 1), 4>>
      BY <1>9, <2>3
    <3>2. Covered(q, k - 1) = h + 4 * (k - h - 1)
      <4>1. CASE k - 1 <= h
        BY <1>1, <1>2, <1>10, <2>1, <2>3, <4>1
      <4>2. CASE ~(k - 1 <= h)
        <5>1. k - 1 <= h + w /\ (k - 1) - h = k - h - 1
          BY <1>1, <1>2, <2>3
        <5>2. QED
          BY <1>10, <2>1, <4>2, <5>1
      <4>3. QED
        BY <4>1, <4>2
    <3>3. h + 4 * (k - h - 1) \in Nat /\ h + 4 * (k - h - 1) + 4 <= n
      BY <1>1, <1>2, <2>3
    <3>4. QED
      BY <3>1, <3>2, <3>3
  <2>4. CASE h + w < k
    <3>1. q[k] = <<h + 4 * w + (k - (h + w)) - 1, 1>>
      BY <1>9, <2>4
    <3>2. Covered(q, k - 1) = h + 4 * w + (k - (h + w)) - 1
      <4>1. CASE k - 1 <= h
        <5>1. /\ w = 0 /\ k - 1 = h
              /\ h + 4 * w + (k - (h + w)) - 1 = k - 1
          <6>1. k \in Int /\ h \in Int /\ w \in Int /\ w >= 0
            BY <1>1, <1>2
          <6>2. w = 0 /\ k - 1 = h
            BY <2>4, <4>1, <6>1
          <6>3. QED
            BY <1>1, <6>1, <6>2
        <5>2. QED
          BY <1>10, <2>1, <4>1, <5>1
      <4>2. CASE ~(k - 1 <= h) /\ k - 1 <= h + w
        BY <1>1, <1>2, <1>10, <2>1, <2>4, <4>2
      <4>3. CASE ~(k - 1 <= h) /\ ~(k - 1 <= h + w)
        BY <1>1, <1>2, <1>10, <2>1, <2>4, <4>3
      <4>4. QED
        BY <4>1, <4>2, <4>3
    <3>3. /\ h + 4 * w + (k - (h + w)) - 1 \in Nat
          /\ h + 4 * w + (k - (h + w)) - 1 + 1 <= n
      BY <1>1, <1>2, <2>4
    <3>4. QED
      BY <3>1, <3>2, <3>3
  <2>5. QED
    BY <1>1, <1>2, <2>2, <2>3, <2>4
<1>12. Covered(q, l) = n
  <2>1. l \in 0 .. l
    BY <1>1, <1>2
  <2>2. CASE l <= h
    <3>1. l = n
      BY <1>1, <1>2, <2>2
    <3>2. QED
      BY <1>10, <2>1, <2>2, <3>1
  <2>3. CASE ~(l <= h) /\ l <= h + w
    <3>1. h + 4 * (l - h) = n
      BY <1>1, <1>2, <2>3
    <3>2. QED
      BY <1>10, <2>1, <2>3, <3>1
  <2>4. CASE ~(l <= h) /\ ~(l <= h + w)
    <3>1. h + 4 * w + (l - (h + w)) = n
      BY <1>1, <1>2
    <3>2. QED
      BY <1>10, <2>1, <2>4, <3>1
  <2>5. QED
    BY <2>2, <2>3, <2>4
<1>13. Len(q) = l /\ l \in Nat /\ DOMAIN q = 1 .. l
  <2>1. DOMAIN q = 1 .. Len(q)
    <3> HIDE DEF S
    <3>1. QED
      BY <1>8
  <2>2. Len(q) = l
    <3> HIDE DEF S
    <3>1. QED
      BY <1>8
  <2>3. l \in Nat
    BY <1>1, <1>2
  <2>4. QED
    BY <2>1, <2>2, <2>3
<1> HIDE DEF l
<1>14. InOrder(q, n)
  BY <1>11, <1>12, <1>13 DEF InOrder
<1>15. QED
  BY <1>14 DEF q

\* The bytes from lo to hi have been copied, from what the source held in m.
Copied(mem, m, dest, src, lo, hi) ==
    \A a \in Addresses :
        mem[a] = IF dest + lo <= a /\ a < dest + hi THEN m[src + a - dest] ELSE m[a]

\* One move more: none of its bytes comes from where the copy has been.
LEMMA MoveExtends ==
    ASSUME NEW mem \in Memories, NEW m, NEW dest \in Nat, NEW src \in Nat,
           NEW lo \in Nat, NEW hi \in Nat, NEW o \in Nat, NEW s \in Nat,
           NEW l \in Nat, NEW h \in Nat,
           lo <= hi, Copied(mem, m, dest, src, lo, hi), src + o + s <= MemSize,
           \/ /\ hi = o /\ l = lo /\ h = o + s
              /\ dest <= src \/ src + h <= dest
           \/ o + s = lo /\ l = o /\ h = hi /\ src < dest
    PROVE  Copied(Move(mem, dest + o, src + o, s), m, dest, src, l, h)
<1>1. MemSize \in Nat
  BY LibAssumption
<1>2. DOMAIN mem = Addresses
  BY DEF Memories
<1>3. ASSUME NEW a \in Addresses
      PROVE  Move(mem, dest + o, src + o, s)[a]
             = IF dest + l <= a /\ a < dest + h THEN m[src + a - dest] ELSE m[a]
  <2>1. a \in Nat
    BY DEF Addresses
  <2>2. Move(mem, dest + o, src + o, s)[a]
        = IF a \in dest + o .. dest + o + s - 1
          THEN mem[(src + o) + a - (dest + o)] ELSE mem[a]
    BY <1>2 DEF Move
  <2>3. CASE a \in dest + o .. dest + o + s - 1
    <3>1. PICK b \in Int : b = src + a - dest
      BY <2>1
    <3>2. (src + o) + a - (dest + o) = b
      BY <2>1, <3>1
    <3>3. b \in Addresses
      BY <1>1, <2>1, <2>3, <3>1 DEF Addresses
    <3>4. ~(dest + lo <= b /\ b < dest + hi)
      BY <2>1, <2>3, <3>1
    <3>5. mem[b] = m[b]
      BY <3>3, <3>4 DEF Copied
    <3>6. dest + l <= a /\ a < dest + h
      BY <2>1, <2>3
    <3>7. QED
      BY <2>2, <2>3, <3>1, <3>2, <3>5, <3>6
  <2>4. CASE a \notin dest + o .. dest + o + s - 1
    <3>1. (dest + l <= a /\ a < dest + h) <=> (dest + lo <= a /\ a < dest + hi)
      BY <2>1, <2>4
    <3>2. mem[a] = IF dest + lo <= a /\ a < dest + hi THEN m[src + a - dest] ELSE m[a]
      BY DEF Copied
    <3>3. QED
      BY <2>2, <2>4, <3>1, <3>2
  <2>5. QED
    BY <2>3, <2>4
<1>4. QED
  BY <1>3 DEF Copied

\* From the first byte to the last
LEMMA CopyForward ==
    ASSUME NEW m \in Memories, NEW dest \in Nat, NEW src \in Nat, NEW n \in Nat, NEW q,
           InOrder(q, n), src + n <= MemSize, dest <= src \/ src + n <= dest
    PROVE  Copied(Copy(m, dest, src, q), m, dest, src, 0, n)
<1>1. MemSize \in Nat
  BY LibAssumption
<1>2. InMemory(q, src)
  <2>1. ASSUME NEW i \in 1 .. Len(q) PROVE src + q[i][1] + q[i][2] <= MemSize
    <3>1. q[i][1] \in Nat /\ q[i][2] \in Nat /\ q[i][1] + q[i][2] <= n
      BY DEF InOrder
    <3>2. QED
      BY <1>1, <3>1
  <2>2. QED
    BY <2>1 DEF InOrder, InMemory
<1>3. PICK g : Moves(g, m, dest, src, q) /\ Copy(m, dest, src, q) = g[Len(q)]
  BY <1>2, MovesOf
<1> DEFINE S == {k \in 0 .. Len(q) : Copied(g[k], m, dest, src, 0, Covered(q, k))}
<1>4. Len(q) \in Nat /\ 0 \in 0 .. Len(q) /\ Len(q) \in 0 .. Len(q)
  BY DEF InOrder
<1>5. 0 \in S
  <2>1. g[0] = m /\ Covered(q, 0) = 0
    BY <1>3 DEF Moves, Covered
  <2>2. \A a \in Addresses : ~(dest + 0 <= a /\ a < dest + 0)
    BY DEF Addresses
  <2>3. Copied(m, m, dest, src, 0, 0)
    BY <2>2 DEF Copied
  <2>4. QED
    BY <1>4, <2>1, <2>3
<1>6. ASSUME NEW k \in 1 .. Len(q), k - 1 \in S PROVE k \in S
  <2>1. k \in 0 .. Len(q) /\ k - 1 \in 0 .. Len(q) /\ k # 0
    BY <1>4
  <2>2. PICK o, s \in Nat : q[k][1] = o /\ q[k][2] = s /\ o + s <= n
                            /\ o = Covered(q, k - 1)
    BY DEF InOrder
  <2>3. Covered(q, k) = o + s
    BY <2>1, <2>2 DEF Covered
  <2>4. g[k] = Move(g[k - 1], dest + o, src + o, s) /\ g[k - 1] \in Memories
    BY <1>3, <2>1, <2>2 DEF Moves
  <2>5. Copied(g[k - 1], m, dest, src, 0, o)
    BY <1>6, <2>2
  <2>6. /\ src + o + s <= MemSize /\ 0 <= o /\ o + s \in Nat /\ 0 \in Nat
        /\ dest <= src \/ src + (o + s) <= dest
    <3>1. src + o + s <= src + n /\ o + s \in Nat /\ 0 <= o
      BY <2>2
    <3>2. src + o + s <= MemSize
      BY <1>1, <2>2, <3>1
    <3>3. dest <= src \/ src + (o + s) <= dest
      <4>1. CASE dest <= src
        BY <4>1
      <4>2. CASE src + n <= dest
        BY <2>2, <3>1, <4>2
      <4>3. QED
        BY <4>1, <4>2
    <3>4. QED
      BY <3>1, <3>2, <3>3
  <2>7. Copied(Move(g[k - 1], dest + o, src + o, s), m, dest, src, 0, o + s)
    BY <2>4, <2>5, <2>6, MoveExtends
  <2>8. QED
    BY <2>1, <2>3, <2>4, <2>7
<1> HIDE DEF S
<1>7. Len(q) \in S
  <2>1. \A k \in 0 .. Len(q) : k \in S
    BY <1>4, <1>5, <1>6, AlongRun
  <2>2. QED
    BY <1>4, <2>1
<1>8. QED
  BY <1>3, <1>7 DEF S, InOrder

\* From the last byte to the first
LEMMA CopyBackward ==
    ASSUME NEW m \in Memories, NEW dest \in Nat, NEW src \in Nat, NEW n \in Nat,
           src + n <= MemSize, src < dest
    PROVE  Copied(Copy(m, dest, src, [i \in 1 .. n |-> <<n - i, 1>>]), m, dest, src, 0, n)
<1> DEFINE q == [i \in 1 .. n |-> <<n - i, 1>>]
<1>1. MemSize \in Nat
  BY LibAssumption
<1>2. DOMAIN q = 1 .. n /\ Len(q) = n
  <2>1. q \in Seq(Int \X Int)
    OBVIOUS
  <2>2. QED
    BY <2>1
<1>3. \A i \in 1 .. n : q[i][1] = n - i /\ q[i][2] = 1
  OBVIOUS
<1> HIDE DEF q
<1>4. InMemory(q, src)
  BY <1>1, <1>2, <1>3 DEF InMemory
<1>5. PICK g : Moves(g, m, dest, src, q) /\ Copy(m, dest, src, q) = g[Len(q)]
  BY <1>4, MovesOf
<1> DEFINE S == {k \in 0 .. n : Copied(g[k], m, dest, src, n - k, n)}
<1>6. 0 \in S
  <2>1. g[0] = m /\ n - 0 = n /\ 0 \in 0 .. n
    BY <1>5 DEF Moves
  <2>2. \A a \in Addresses : ~(dest + n <= a /\ a < dest + n)
    BY DEF Addresses
  <2>3. Copied(m, m, dest, src, n, n)
    BY <2>2 DEF Copied
  <2>4. QED
    BY <2>1, <2>3
<1>7. ASSUME NEW k \in 1 .. n, k - 1 \in S PROVE k \in S
  <2>1. k \in 0 .. n /\ k - 1 \in 0 .. n /\ k \in 1 .. Len(q)
    BY <1>2
  <2>2. PICK o \in Nat : o = n - k
    OBVIOUS
  <2>3. g[k] = Move(g[k - 1], dest + o, src + o, 1) /\ g[k - 1] \in Memories
    BY <1>2, <1>3, <1>5, <2>1, <2>2 DEF Moves
  <2>4. PICK lo \in Nat : lo = n - (k - 1) /\ lo <= n /\ o + 1 = lo
    BY <2>2
  <2>5. Copied(g[k - 1], m, dest, src, lo, n)
    BY <1>7, <2>4
  <2>6. src + o + 1 <= MemSize /\ 1 \in Nat
    BY <1>1, <2>2
  <2>7. Copied(Move(g[k - 1], dest + o, src + o, 1), m, dest, src, o, n)
    BY <2>3, <2>4, <2>5, <2>6, MoveExtends
  <2>8. QED
    BY <2>1, <2>2, <2>3, <2>7
<1> HIDE DEF S
<1>8. n \in S
  <2>1. \A k \in 0 .. n : k \in S
    BY <1>6, <1>7, AlongRun
  <2>2. QED
    BY <2>1
<1>9. Copied(g[n], m, dest, src, 0, n)
  <2>1. n - n = 0
    OBVIOUS
  <2>2. QED
    BY <1>8, <2>1 DEF S
<1>10. QED
  BY <1>2, <1>5, <1>9 DEF q

\* The bytes of memset up to hi have been set.
Filled(mem, m, p, v, hi) ==
    \A a \in Addresses : mem[a] = IF p <= a /\ a < p + hi THEN v ELSE m[a]

LEMMA FillForward ==
    ASSUME NEW m \in Memories, NEW p \in Nat, NEW c, c % 256 \in ByteValues, NEW n \in Nat
    PROVE  Filled(memset(m, p, c, n), m, p, c % 256, n)
<1> DEFINE q == Pieces(p, n)
<1>1. InOrder(q, n)
  BY PiecesInOrder
<1>2. Len(q) \in Nat /\ DOMAIN q = 1 .. Len(q)
  BY <1>1 DEF InOrder
<1>3. PICK g : Fills(g, m, p, c % 256, q) /\ memset(m, p, c, n) = g[Len(q)]
  BY <1>2, FillsOf
<1> HIDE DEF q
<1> DEFINE S == {k \in 0 .. Len(q) : Filled(g[k], m, p, c % 256, Covered(q, k))}
<1>4. Len(q) \in Nat /\ 0 \in 0 .. Len(q) /\ Len(q) \in 0 .. Len(q)
  BY <1>2
<1>5. 0 \in S
  <2>1. g[0] = m /\ Covered(q, 0) = 0
    BY <1>3 DEF Fills, Covered
  <2>2. \A a \in Addresses : ~(p <= a /\ a < p + 0)
    BY DEF Addresses
  <2>3. Filled(m, m, p, c % 256, 0)
    BY <2>2 DEF Filled
  <2>4. QED
    BY <1>4, <2>1, <2>3
<1>6. ASSUME NEW k \in 1 .. Len(q), k - 1 \in S PROVE k \in S
  <2>1. k \in 0 .. Len(q) /\ k - 1 \in 0 .. Len(q) /\ k # 0
    BY <1>4
  <2>2. PICK o, s \in Nat : q[k][1] = o /\ q[k][2] = s /\ o = Covered(q, k - 1)
    BY <1>1 DEF InOrder
  <2>3. Covered(q, k) = o + s
    BY <2>1, <2>2 DEF Covered
  <2>4. g[k] = Fill(g[k - 1], p + o, s, c % 256) /\ g[k - 1] \in Memories
    BY <1>3, <2>1, <2>2 DEF Fills
  <2>5. Filled(g[k - 1], m, p, c % 256, o)
    BY <1>6, <2>2
  <2>6. ASSUME NEW a \in Addresses
        PROVE  g[k][a] = IF p <= a /\ a < p + (o + s) THEN c % 256 ELSE m[a]
    <3>1. DOMAIN g[k - 1] = Addresses /\ a \in Nat
      BY <2>4 DEF Memories, Addresses
    <3>2. g[k][a] = IF a \in p + o .. p + o + s - 1 THEN c % 256 ELSE g[k - 1][a]
      BY <2>4, <3>1 DEF Fill
    <3>3. g[k - 1][a] = IF p <= a /\ a < p + o THEN c % 256 ELSE m[a]
      BY <2>5 DEF Filled
    <3>4. (a \in p + o .. p + o + s - 1 \/ (p <= a /\ a < p + o))
          <=> (p <= a /\ a < p + (o + s))
      BY <3>1
    <3>5. QED
      BY <3>2, <3>3, <3>4
  <2>7. QED
    BY <2>1, <2>3, <2>6 DEF Filled
<1> HIDE DEF S
<1>7. Len(q) \in S
  <2>1. \A k \in 0 .. Len(q) : k \in S
    BY <1>4, <1>5, <1>6, AlongRun
  <2>2. QED
    BY <1>4, <2>1
<1>8. QED
  BY <1>1, <1>3, <1>7 DEF S, InOrder

LEMMA MemoryKnown == Memory \in Memories /\ DOMAIN Memory = Addresses
<1>1. MemSize \in Nat
  BY LibAssumption
<1>2. \A a \in Addresses : a + 1 \in ByteValues
  BY <1>1 DEF Addresses, ByteValues
<1>3. QED
  BY <1>2 DEF Memory, Memories, Addresses

LEMMA RangesKnown ==
    ASSUME NEW r \in Ranges
    PROVE  r[1] \in Nat /\ r[2] \in Nat /\ r[1] + r[2] <= MemSize
  BY LibAssumption DEF Ranges

\* Of memset
LEMMA FillMoves ==
    ASSUME NEW mem, NEW p \in Nat, NEW n \in Nat, NEW v, Filled(mem, Memory, p, v, n)
    PROVE  \A a \in DOMAIN Memory : mem[a] = IF a \in p .. p + n - 1 THEN v ELSE Memory[a]
<1>1. ASSUME NEW a \in Addresses
      PROVE  (p <= a /\ a < p + n) <=> a \in p .. p + n - 1
  BY DEF Addresses
<1>2. QED
  BY <1>1, MemoryKnown DEF Filled

\* Of either copy
LEMMA CopyMoves ==
    ASSUME NEW mem, NEW dest \in Nat, NEW src \in Nat, NEW n \in Nat,
           Copied(mem, Memory, dest, src, 0, n)
    PROVE  \A a \in DOMAIN Memory :
              mem[a] = IF a \in dest .. dest + n - 1 THEN Memory[src + a - dest] ELSE Memory[a]
<1>1. ASSUME NEW a \in Addresses
      PROVE  (dest + 0 <= a /\ a < dest + n) <=> a \in dest .. dest + n - 1
  BY DEF Addresses
<1>2. QED
  BY <1>1, MemoryKnown DEF Copied

LEMMA DirectionCopies ==
    ASSUME NEW dest \in Nat, NEW src \in Nat, NEW n \in Nat, src + n <= MemSize
    PROVE  Copied(memmove(Memory, dest, src, n), Memory, dest, src, 0, n)
<1>1. CASE src >= dest
  <2> DEFINE q == [i \in 1 .. n |-> <<i - 1, 1>>]
  <2>1. DOMAIN q = 1 .. n /\ Len(q) = n
    <3>1. q \in Seq(Int \X Int)
      OBVIOUS
    <3>2. QED
      BY <3>1
  <2>2. \A i \in 1 .. n : q[i][1] = i - 1 /\ q[i][2] = 1
    OBVIOUS
  <2>3. memmove(Memory, dest, src, n) = Copy(Memory, dest, src, q)
    BY <1>1 DEF memmove, Direction
  <2> HIDE DEF q
  <2>4. \A k \in 0 .. n : Covered(q, k) = k
    <3>1. ASSUME NEW k \in 1 .. n PROVE Covered(q, k) = k
      <4>1. Covered(q, k) = (k - 1) + 1
        BY <2>2 DEF Covered
      <4>2. QED
        BY <4>1
    <3>2. Covered(q, 0) = 0
      BY DEF Covered
    <3>3. \A k \in 0 .. n : k = 0 \/ k \in 1 .. n
      OBVIOUS
    <3>4. QED
      BY <3>1, <3>2, <3>3
  <2>5. InOrder(q, n)
    <3>1. ASSUME NEW k \in 1 .. n
          PROVE  /\ k - 1 \in Nat /\ 1 \in Nat /\ k - 1 + 1 <= n
                 /\ k - 1 = Covered(q, k - 1)
      BY <2>4
    <3>2. Covered(q, n) = n
      BY <2>4
    <3>3. QED
      BY <2>1, <2>2, <3>1, <3>2 DEF InOrder
  <2>6. QED
    BY <1>1, <2>3, <2>5, CopyForward, MemoryKnown
<1>2. CASE ~(src >= dest)
  <2>1. memmove(Memory, dest, src, n)
        = Copy(Memory, dest, src, [i \in 1 .. n |-> <<n - i, 1>>])
    BY <1>2 DEF memmove, Direction
  <2>2. src < dest
    BY <1>2
  <2>3. QED
    BY <2>1, <2>2, CopyBackward, MemoryKnown
<1>3. QED
  BY <1>1, <1>2

\* Each call of a memory function moves what it should.
LEMMA CallMoves ==
    ASSUME LibCall
    PROVE  BytesMoved'
<1>1. CASE CallMemset
  <2>1. PICK r \in Ranges, c \in {0, 255, 256 + 7} :
            call' = [fn |-> "memset", s |-> r[1], n |-> r[2], c |-> c,
                     mem |-> memset(Memory, r[1], c, r[2])]
    BY <1>1 DEF CallMemset
  <2>2. \A a \in DOMAIN Memory :
            memset(Memory, r[1], c, r[2])[a]
            = IF a \in r[1] .. r[1] + r[2] - 1 THEN c % 256 ELSE Memory[a]
    <3>1. r[1] \in Nat /\ r[2] \in Nat
      BY RangesKnown
    <3>2. c % 256 \in ByteValues
      <4>1. 0 % 256 = 0 /\ 255 % 256 = 255 /\ (256 + 7) % 256 = 7
        OBVIOUS
      <4>2. MemSize \in Nat
        BY LibAssumption
      <4>3. 0 \in ByteValues /\ 255 \in ByteValues /\ 7 \in ByteValues
        BY <4>2 DEF ByteValues
      <4>4. QED
        BY <4>1, <4>3
    <3>3. PICK v : v = c % 256
      OBVIOUS
    <3>4. Filled(memset(Memory, r[1], c, r[2]), Memory, r[1], v, r[2])
      BY <3>1, <3>2, <3>3, FillForward, MemoryKnown
    <3>5. QED
      BY <3>1, <3>3, <3>4, FillMoves
  <2>3. /\ call'.fn = "memset" /\ call'.s = r[1] /\ call'.n = r[2] /\ call'.c = c
        /\ call'.mem = memset(Memory, r[1], c, r[2])
    BY <2>1
  <2>4. QED
    BY <2>2, <2>3 DEF BytesMoved
<1>2. ASSUME NEW r \in Ranges, NEW src \in 0 .. MemSize, NEW mem,
             NEW f \in {"memcpy", "memmove"},
             Copied(mem, Memory, r[1], src, 0, r[2]),
             call' = [fn |-> f, dest |-> r[1], src |-> src, n |-> r[2], mem |-> mem]
      PROVE  BytesMoved'
  <2>1. src \in Nat
    BY LibAssumption
  <2>2. \A a \in DOMAIN Memory :
            mem[a] = IF a \in r[1] .. r[1] + r[2] - 1 THEN Memory[src + a - r[1]] ELSE Memory[a]
    BY <1>2, <2>1, CopyMoves, RangesKnown
  <2>3. /\ call'.fn = f /\ call'.dest = r[1] /\ call'.src = src /\ call'.n = r[2]
        /\ call'.mem = mem
    BY <1>2
  <2>4. f # "memset"
    OBVIOUS
  <2>5. QED
    BY <2>2, <2>3, <2>4 DEF BytesMoved
<1>3. CASE CallMemcpy
  <2>1. PICK r \in Ranges, src \in 0 .. MemSize :
            /\ src + r[2] <= MemSize /\ (r[1] <= src \/ src + r[2] <= r[1])
            /\ call' = [fn |-> "memcpy", dest |-> r[1], src |-> src, n |-> r[2],
                        mem |-> memcpy(Memory, r[1], src, r[2])]
    BY <1>3 DEF CallMemcpy
  <2>2. r[1] \in Nat /\ r[2] \in Nat /\ src \in Nat
    BY RangesKnown, LibAssumption
  <2>3. Copied(memcpy(Memory, r[1], src, r[2]), Memory, r[1], src, 0, r[2])
    BY <2>1, <2>2, CopyForward, MemoryKnown, PiecesInOrder DEF memcpy
  <2>4. QED
    BY <1>2, <2>1, <2>3
<1>4. CASE CallMemmove
  <2>1. PICK r \in Ranges, src \in 0 .. MemSize :
            /\ src + r[2] <= MemSize
            /\ call' = [fn |-> "memmove", dest |-> r[1], src |-> src, n |-> r[2],
                        mem |-> memmove(Memory, r[1], src, r[2])]
    BY <1>4 DEF CallMemmove
  <2>2. r[1] \in Nat /\ r[2] \in Nat /\ src \in Nat
    BY RangesKnown, LibAssumption
  <2>3. Copied(memmove(Memory, r[1], src, r[2]), Memory, r[1], src, 0, r[2])
    BY <2>1, <2>2, DirectionCopies
  <2>4. QED
    BY <1>2, <2>1, <2>3
<1>5. CASE CallStrcpy \/ CallStrncpy \/ CallPrintf \/ CallNumbers
  <2>1. call'.fn \in {"strcpy", "strncpy", "printf", "numbers"}
    BY <1>5 DEF CallStrcpy, CallStrncpy, CallPrintf, CallNumbers
  <2>2. QED
    BY <2>1 DEF BytesMoved
<1>6. QED
  BY <1>1, <1>3, <1>4, <1>5 DEF LibCall

\* Every call of memset, memcpy and memmove moves the bytes it is asked to move
\* and no other, for any size of the memory, wherever the 4-byte boundaries fall
\* and however the ranges overlap, as far as memcpy is called with ranges that do
\* not overlap or with dest below src (lib.c:525-565, 608-678).
THEOREM BytesTheorem == MCSpec => []BytesMoved
<1>1. MCInit => BytesMoved
  BY DEF MCInit, LibInit, NoCall, BytesMoved
<1>2. BytesMoved /\ [MCNext]_<<vars, call>> => BytesMoved'
  <2> SUFFICES ASSUME BytesMoved, [MCNext]_<<vars, call>> PROVE BytesMoved'
    OBVIOUS
  <2>1. CASE UNCHANGED call
    BY <2>1 DEF BytesMoved
  <2>2. CASE LibCall
    BY <2>2, CallMoves
  <2>3. QED
    BY <2>1, <2>2 DEF MCNext
<1>3. QED
  BY <1>1, <1>2, PTL DEF MCSpec

-----------------------------------------------------------------------------
(***************************************************************************)
(* Strings                                                                 *)
(***************************************************************************)
LEMMA BuffersKnown ==
    ASSUME NEW m \in Buffers
    PROVE  /\ DOMAIN m = 0 .. 2 * StrSize - 1 /\ StrSize \in Nat \ {0}
           /\ \A a \in 0 .. 2 * StrSize - 1 : m[a] \in {0, 1, 2}
  BY LibAssumption DEF Buffers, NULCHAR

\* The length of the string in the first buffer
LEMMA StrlenOf ==
    ASSUME NEW m \in Buffers, Terminated(m)
    PROVE  /\ strlen(m, 0) \in 0 .. StrSize - 1 /\ m[strlen(m, 0)] = 0
           /\ \A i \in 0 .. strlen(m, 0) - 1 : m[i] # 0
<1>1. /\ DOMAIN m = 0 .. 2 * StrSize - 1 /\ StrSize \in Nat \ {0}
      /\ \A a \in 0 .. 2 * StrSize - 1 : m[a] \in {0, 1, 2}
  BY BuffersKnown
<1> DEFINE T == {a \in 0 .. 2 * StrSize - 1 : m[a] = 0}
           P(k) == k >= 0 /\ m[0 + k] = NULCHAR /\ \A i \in 0 .. k - 1 : m[0 + i] # NULCHAR
           D == {a - 0 : a \in DOMAIN m}
<1>2. D = 0 .. 2 * StrSize - 1
  <2>1. \A a \in 0 .. 2 * StrSize - 1 : a - 0 = a
    BY <1>1
  <2>2. QED
    BY <1>1, <2>1
<1>3. StrSize - 1 \in T
  <2>1. StrSize - 1 \in 0 .. 2 * StrSize - 1
    BY <1>1
  <2>2. QED
    BY <2>1 DEF Terminated, NULCHAR
<1>4. PICK x \in T : \A y \in T : x <= y
  <2>1. T \subseteq Nat
    BY <1>1
  <2> HIDE DEF T
  <2>2. QED
    BY <1>3, <2>1, LeastElement
<1>5. x \in D /\ P(x)
  <2>1. x \in D /\ x \in Nat /\ 0 + x = x /\ m[x] = 0
    <3>1. x \in 0 .. 2 * StrSize - 1 /\ m[x] = 0
      BY <1>4
    <3>2. x \in D
      BY <1>2, <3>1
    <3>3. x \in Nat /\ 0 + x = x
      BY <1>1, <3>1
    <3>4. QED
      BY <3>1, <3>2, <3>3
  <2>2. ASSUME NEW i \in 0 .. x - 1 PROVE m[0 + i] # NULCHAR
    <3>1. i \in 0 .. 2 * StrSize - 1 /\ ~(x <= i) /\ 0 + i = i
      BY <1>1, <2>1
    <3>2. i \notin T
      BY <1>4, <3>1
    <3>3. QED
      BY <3>1, <3>2 DEF NULCHAR
  <2>3. QED
    BY <2>1, <2>2 DEF NULCHAR
<1>6. PICK k : k = strlen(m, 0) /\ k \in D /\ P(k)
  <2> HIDE DEF P, D
  <2>1. \E k \in D : P(k)
    BY <1>5
  <2>2. (CHOOSE k \in D : P(k)) \in D /\ P(CHOOSE k \in D : P(k))
    BY <2>1
  <2>3. strlen(m, 0) = CHOOSE k \in D : P(k)
    BY DEF strlen, P, D
  <2>4. QED
    BY <2>2, <2>3
<1>7. k \in 0 .. 2 * StrSize - 1 /\ k \in Nat /\ m[k] = 0 /\ \A i \in 0 .. k - 1 : m[i] # 0
  <2>1. k \in 0 .. 2 * StrSize - 1
    BY <1>2, <1>6
  <2>2. 0 + k = k /\ \A i \in 0 .. k - 1 : 0 + i = i
    BY <1>1, <2>1
  <2>3. QED
    BY <1>1, <1>6, <2>1, <2>2 DEF NULCHAR
<1>8. k <= StrSize - 1
  <2>1. SUFFICES ASSUME ~(k <= StrSize - 1) PROVE FALSE
    OBVIOUS
  <2>2. StrSize - 1 \in 0 .. k - 1
    BY <1>1, <1>7, <2>1
  <2>3. QED
    BY <1>3, <1>7, <2>2
<1>9. QED
  BY <1>1, <1>6, <1>7, <1>8

\* strncmp is 0 for strings that are the same and for no others.
LEMMA StrncmpZero ==
    ASSUME NEW m \in Buffers, NEW n \in 0 .. StrSize
    PROVE  strncmp(m, 0, StrSize, n) = 0 <=> SameUpTo(m, 0, StrSize, n)
<1> DEFINE ends == {i \in 0 .. n - 1 : m[0 + i] # m[StrSize + i] \/ m[0 + i] = NULCHAR}
           least == CHOOSE i \in ends : \A j \in ends : i <= j
<1>1. /\ DOMAIN m = 0 .. 2 * StrSize - 1 /\ StrSize \in Nat \ {0}
      /\ \A a \in 0 .. 2 * StrSize - 1 : m[a] \in {0, 1, 2}
  BY BuffersKnown
<1>2. strncmp(m, 0, StrSize, n)
      = IF ends = {} THEN 0 ELSE m[0 + least] - m[StrSize + least]
  BY DEF strncmp
<1>3. CASE ends = {}
  <2>1. \A i \in 0 .. n - 1 : m[0 + i] = m[StrSize + i]
    BY <1>3
  <2>2. SameUpTo(m, 0, StrSize, n)
    BY <2>1 DEF SameUpTo
  <2>3. QED
    BY <1>2, <1>3, <2>2
<1>4. CASE ends # {}
  <2>1. ends \subseteq Nat
    BY <1>1
  <2>2. PICK i : i = least /\ i \in ends /\ \A j \in ends : i <= j
    <3> HIDE DEF ends
    <3>1. \E k \in ends : \A j \in ends : k <= j
      BY <1>4, <2>1, LeastElement
    <3>2. QED
      BY <3>1
  <2>3. /\ i \in 0 .. n - 1 /\ i \in Nat
        /\ m[0 + i] \in {0, 1, 2} /\ m[StrSize + i] \in {0, 1, 2}
        /\ m[0 + i] # m[StrSize + i] \/ m[0 + i] = 0
    <3>1. i \in 0 .. n - 1 /\ (m[0 + i] # m[StrSize + i] \/ m[0 + i] = 0)
      BY <2>2 DEF NULCHAR
    <3>2. 0 + i \in 0 .. 2 * StrSize - 1 /\ StrSize + i \in 0 .. 2 * StrSize - 1
      BY <1>1, <3>1
    <3>3. QED
      BY <1>1, <3>1, <3>2
  <2>4. \A j \in 0 .. i - 1 : m[0 + j] = m[StrSize + j] /\ m[0 + j] # 0
    <3>1. ASSUME NEW j \in 0 .. i - 1 PROVE j \notin ends /\ j \in 0 .. n - 1
      <4>1. ~(i <= j) /\ j \in 0 .. n - 1
        BY <2>3
      <4> HIDE DEF ends
      <4>2. QED
        BY <2>2, <4>1
    <3>2. QED
      BY <3>1 DEF NULCHAR
  <2> HIDE DEF ends, least
  <2>5. strncmp(m, 0, StrSize, n) = m[0 + i] - m[StrSize + i]
    BY <1>2, <1>4, <2>2
  <2>6. strncmp(m, 0, StrSize, n) = 0 <=> m[0 + i] = m[StrSize + i]
    BY <2>3, <2>5
  <2>7. ASSUME m[0 + i] = m[StrSize + i] PROVE SameUpTo(m, 0, StrSize, n)
    <3>1. ASSUME NEW x \in 0 .. n - 1, \A j \in 0 .. x - 1 : m[0 + j] # NULCHAR
          PROVE  m[0 + x] = m[StrSize + x]
      <4>1. x <= i
        <5>1. SUFFICES ASSUME ~(x <= i) PROVE FALSE
          OBVIOUS
        <5>2. i \in 0 .. x - 1
          BY <1>1, <2>3, <5>1
        <5>3. QED
          BY <2>3, <2>7, <3>1, <5>2 DEF NULCHAR
      <4>2. x = i \/ x \in 0 .. i - 1
        BY <2>3, <4>1
      <4>3. QED
        BY <2>4, <2>7, <4>2
    <3>2. QED
      BY <3>1 DEF SameUpTo
  <2>8. ASSUME SameUpTo(m, 0, StrSize, n) PROVE m[0 + i] = m[StrSize + i]
    BY <2>3, <2>4, <2>8 DEF SameUpTo, NULCHAR
  <2>9. QED
    BY <2>6, <2>7, <2>8
<1>5. QED
  BY <1>3, <1>4

\* What either copy makes of the buffers: k bytes of the string, then NULs up to
\* byte e of the second buffer
CopyOf(m, mem, k, e) ==
    /\ mem \in Buffers
    /\ \A i \in 0 .. StrSize - 1 : mem[i] = m[i]
    /\ \A i \in 0 .. k - 1 : mem[StrSize + i] = m[i]
    /\ \A i \in k .. e - 1 : mem[StrSize + i] = 0
    /\ \A i \in StrSize + e .. 2 * StrSize - 1 : mem[i] = m[i]

LEMMA BuffersCopied ==
    ASSUME NEW m \in Buffers, NEW mem, NEW k \in 0 .. StrSize, NEW e \in 0 .. StrSize, k <= e,
           mem = [a \in DOMAIN m |->
                    IF a \in StrSize + k .. StrSize + e - 1 THEN 0
                    ELSE IF a \in StrSize .. StrSize + k - 1 THEN m[0 + a - StrSize] ELSE m[a]]
    PROVE  CopyOf(m, mem, k, e)
<1>1. /\ DOMAIN m = 0 .. 2 * StrSize - 1 /\ StrSize \in Nat \ {0}
      /\ \A a \in 0 .. 2 * StrSize - 1 : m[a] \in {0, 1, 2}
  BY BuffersKnown
<1>2. ASSUME NEW a \in 0 .. 2 * StrSize - 1
      PROVE  /\ a < StrSize => mem[a] = m[a]
             /\ StrSize <= a /\ a < StrSize + k => mem[a] = m[0 + a - StrSize]
             /\ StrSize + k <= a /\ a < StrSize + e => mem[a] = 0
             /\ StrSize + e <= a => mem[a] = m[a]
  <2>1. mem[a] = IF a \in StrSize + k .. StrSize + e - 1 THEN 0
                 ELSE IF a \in StrSize .. StrSize + k - 1 THEN m[0 + a - StrSize] ELSE m[a]
    BY <1>1
  <2>2. a \in Nat /\ k \in Nat /\ e \in Nat
    BY <1>1
  <2>3. /\ a \in StrSize + k .. StrSize + e - 1 <=> (StrSize + k <= a /\ a < StrSize + e)
        /\ a \in StrSize .. StrSize + k - 1 <=> (StrSize <= a /\ a < StrSize + k)
    BY <1>1, <2>2
  <2>4. QED
    BY <1>1, <2>1, <2>2, <2>3
<1>3. ASSUME NEW a \in 0 .. 2 * StrSize - 1 PROVE mem[a] \in {NULCHAR, 1, 2}
  <2>1. StrSize <= a /\ a < StrSize + k => 0 + a - StrSize \in 0 .. 2 * StrSize - 1
    BY <1>1
  <2>2. \/ a < StrSize \/ (StrSize <= a /\ a < StrSize + k)
        \/ (StrSize + k <= a /\ a < StrSize + e) \/ StrSize + e <= a
    BY <1>1
  <2>3. QED
    BY <1>1, <1>2, <2>1, <2>2 DEF NULCHAR
<1>4. mem \in Buffers
  <2>1. DOMAIN mem = 0 .. 2 * StrSize - 1
    BY <1>1
  <2>2. mem = [a \in 0 .. 2 * StrSize - 1 |-> mem[a]]
    BY <1>1
  <2>3. QED
    BY <1>3, <2>2 DEF Buffers
<1>5. ASSUME NEW i \in 0 .. StrSize - 1 PROVE mem[i] = m[i]
  <2>1. i \in 0 .. 2 * StrSize - 1 /\ i < StrSize
    BY <1>1
  <2>2. QED
    BY <1>2, <2>1
<1>6. ASSUME NEW i \in 0 .. k - 1 PROVE mem[StrSize + i] = m[i]
  <2>1. PICK a \in 0 .. 2 * StrSize - 1 :
            a = StrSize + i /\ StrSize <= a /\ a < StrSize + k /\ 0 + a - StrSize = i
    BY <1>1
  <2>2. QED
    BY <1>2, <2>1
<1>7. ASSUME NEW i \in k .. e - 1 PROVE mem[StrSize + i] = 0
  <2>1. PICK a \in 0 .. 2 * StrSize - 1 :
            a = StrSize + i /\ StrSize + k <= a /\ a < StrSize + e
    BY <1>1
  <2>2. QED
    BY <1>2, <2>1
<1>8. ASSUME NEW i \in StrSize + e .. 2 * StrSize - 1 PROVE mem[i] = m[i]
  <2>1. i \in 0 .. 2 * StrSize - 1 /\ StrSize + e <= i
    BY <1>1
  <2>2. QED
    BY <1>2, <2>1
<1>9. QED
  BY <1>4, <1>5, <1>6, <1>7, <1>8 DEF CopyOf

\* As far as the string and its end have been copied, the buffers are the same.
LEMMA CopiesAreSame ==
    ASSUME NEW m \in Buffers, Terminated(m), NEW mem, NEW n \in 0 .. StrSize,
           NEW k \in 0 .. StrSize, NEW e \in 0 .. StrSize, CopyOf(m, mem, k, e),
           \/ k = strlen(m, 0) /\ k < e
           \/ k = n /\ n <= strlen(m, 0)
    PROVE  SameUpTo(mem, 0, StrSize, n)
<1>1. /\ strlen(m, 0) \in 0 .. StrSize - 1 /\ m[strlen(m, 0)] = 0
      /\ \A i \in 0 .. strlen(m, 0) - 1 : m[i] # 0
  BY StrlenOf
<1>2. StrSize \in Nat \ {0}
  BY LibAssumption
<1> SUFFICES ASSUME NEW i \in 0 .. n - 1, \A j \in 0 .. i - 1 : mem[0 + j] # NULCHAR
             PROVE  mem[0 + i] = mem[StrSize + i]
  BY DEF SameUpTo
<1>3. \A j \in 0 .. StrSize - 1 : mem[0 + j] = m[j]
  <2>1. \A j \in 0 .. StrSize - 1 : 0 + j = j
    BY <1>2
  <2>2. QED
    BY <2>1 DEF CopyOf
<1>4. i \in 0 .. StrSize - 1
  BY <1>2
<1>5. i <= strlen(m, 0)
  <2>1. SUFFICES ASSUME ~(i <= strlen(m, 0)) PROVE FALSE
    OBVIOUS
  <2>2. strlen(m, 0) \in 0 .. i - 1
    BY <1>1, <2>1
  <2>3. mem[0 + strlen(m, 0)] # 0
    BY <2>2 DEF NULCHAR
  <2>4. QED
    BY <1>1, <1>3, <2>3
<1>6. CASE i < k
  <2>1. i \in 0 .. k - 1
    BY <1>6
  <2>2. QED
    BY <1>3, <1>4, <2>1 DEF CopyOf
<1>7. CASE ~(i < k)
  <2>1. k = strlen(m, 0) /\ k < e /\ i = k
    BY <1>1, <1>5, <1>7
  <2>2. i \in k .. e - 1
    BY <2>1
  <2>3. QED
    BY <1>1, <1>3, <1>4, <2>1, <2>2 DEF CopyOf
<1>8. QED
  BY <1>6, <1>7

LEMMA StrcpyCopies ==
    ASSUME NEW m \in Buffers, Terminated(m)
    PROVE  CopyOf(m, strcpy_to(m, StrSize, 0), strlen(m, 0), strlen(m, 0) + 1)
<1>1. strlen(m, 0) \in 0 .. StrSize - 1
  BY StrlenOf
<1>2. StrSize \in Nat \ {0}
  BY LibAssumption
<1>3. PICK k : k = strlen(m, 0) /\ k \in 0 .. StrSize - 1
  BY <1>1
<1>4. k \in 0 .. StrSize /\ k + 1 \in 0 .. StrSize /\ k <= k + 1
  BY <1>2, <1>3
<1>5. StrSize + (k + 1) - 1 = StrSize + k + 1 - 1
  BY <1>2, <1>4
<1>6. strcpy_to(m, StrSize, 0)
      = [a \in DOMAIN m |->
           IF a \in StrSize + k .. StrSize + (k + 1) - 1 THEN 0
           ELSE IF a \in StrSize .. StrSize + k - 1 THEN m[0 + a - StrSize] ELSE m[a]]
  BY <1>3, <1>5 DEF strcpy_to, Fill, Move, NULCHAR
<1>7. CopyOf(m, strcpy_to(m, StrSize, 0), k, k + 1)
  BY <1>4, <1>6, BuffersCopied
<1>8. QED
  BY <1>3, <1>7

LEMMA StrncpyCopies ==
    ASSUME NEW m \in Buffers, Terminated(m), NEW n \in 0 .. StrSize
    PROVE  /\ CopyOf(m, strncpy(m, StrSize, 0, n), CopyLength(m, 0, n), n)
           /\ CopyLength(m, 0, n) \in 0 .. StrSize
           /\ \/ CopyLength(m, 0, n) = strlen(m, 0) /\ strlen(m, 0) < n
              \/ CopyLength(m, 0, n) = n /\ n <= strlen(m, 0)
<1>1. strlen(m, 0) \in 0 .. StrSize - 1
  BY StrlenOf
<1>2. StrSize \in Nat \ {0}
  BY LibAssumption
<1>3. PICK k : k = CopyLength(m, 0, n)
  OBVIOUS
<1>4. /\ k \in 0 .. StrSize /\ k <= n
      /\ \/ k = strlen(m, 0) /\ strlen(m, 0) < n
         \/ k = n /\ n <= strlen(m, 0)
  <2>1. PICK l \in 0 .. StrSize - 1 : l = strlen(m, 0)
    BY <1>1
  <2>2. k = IF l < n THEN l ELSE n
    BY <1>3, <2>1 DEF CopyLength
  <2>3. /\ k \in 0 .. StrSize /\ k <= n
        /\ (k = l /\ l < n) \/ (k = n /\ n <= l)
    <3>1. CASE l < n
      BY <1>2, <2>2, <3>1
    <3>2. CASE ~(l < n)
      BY <1>2, <2>2, <3>2
    <3>3. QED
      BY <3>1, <3>2
  <2>4. QED
    BY <2>1, <2>3
<1>5. strncpy(m, StrSize, 0, n)
      = [a \in DOMAIN m |->
           IF a \in StrSize + k .. StrSize + n - 1 THEN 0
           ELSE IF a \in StrSize .. StrSize + k - 1 THEN m[0 + a - StrSize] ELSE m[a]]
  BY <1>3 DEF strncpy, Padding, Move, NULCHAR
<1>6. CopyOf(m, strncpy(m, StrSize, 0, n), k, n)
  BY <1>4, <1>5, BuffersCopied
<1>7. QED
  BY <1>3, <1>4, <1>6

LEMMA CallCompares ==
    ASSUME LibCall
    PROVE  CopiesCompareEqual'
<1>1. StrSize \in Nat \ {0}
  BY LibAssumption
<1>2. CASE CallStrcpy
  <2>1. PICK m \in Buffers :
            /\ Terminated(m)
            /\ call' = [fn |-> "strcpy", before |-> m, mem |-> strcpy_to(m, StrSize, 0)]
    BY <1>2 DEF CallStrcpy
  <2>2. PICK mem, k : mem = strcpy_to(m, StrSize, 0) /\ k = strlen(m, 0)
    OBVIOUS
  <2>3. CopyOf(m, mem, k, k + 1)
    BY <2>1, <2>2, StrcpyCopies
  <2>4. k \in 0 .. StrSize /\ k + 1 \in 0 .. StrSize /\ StrSize \in 0 .. StrSize /\ k < k + 1
    <3>1. k \in 0 .. StrSize - 1
      BY <2>1, <2>2, StrlenOf
    <3>2. QED
      BY <1>1, <3>1
  <2>5. SameUpTo(mem, 0, StrSize, StrSize)
    BY <2>1, <2>2, <2>3, <2>4, CopiesAreSame
  <2>6. \A i \in 0 .. StrSize - 1 : mem[i] = m[i]
    BY <2>3 DEF CopyOf
  <2>7. call'.fn = "strcpy" /\ call'.mem = mem /\ call'.before = m
    BY <2>1, <2>2
  <2>8. QED
    BY <2>5, <2>6, <2>7 DEF CopiesCompareEqual
<1>3. CASE CallStrncpy
  <2>1. PICK m \in Buffers, n \in 0 .. StrSize :
            /\ Terminated(m)
            /\ call' = [fn |-> "strncpy", before |-> m, n |-> n,
                        mem |-> strncpy(m, StrSize, 0, n),
                        differ |-> strncmp(m, 0, StrSize, n)]
    BY <1>3 DEF CallStrncpy
  <2>2. PICK mem, k : mem = strncpy(m, StrSize, 0, n) /\ k = CopyLength(m, 0, n)
    OBVIOUS
  <2>3. /\ CopyOf(m, mem, k, n) /\ k \in 0 .. StrSize
        /\ \/ k = strlen(m, 0) /\ strlen(m, 0) < n
           \/ k = n /\ n <= strlen(m, 0)
    BY <2>1, <2>2, StrncpyCopies
  <2>4. SameUpTo(mem, 0, StrSize, n) /\ mem \in Buffers
    <3>1. \/ k = strlen(m, 0) /\ k < n
          \/ k = n /\ n <= strlen(m, 0)
      BY <2>3
    <3>2. SameUpTo(mem, 0, StrSize, n)
      BY <2>1, <2>3, <3>1, CopiesAreSame
    <3>3. QED
      BY <2>3, <3>2 DEF CopyOf
  <2>5. strncmp(mem, 0, StrSize, n) = 0
    BY <2>4, StrncmpZero
  <2>6. ASSUME NEW i \in 0 .. n - 1, \E j \in 0 .. i : m[j] = NULCHAR
        PROVE  mem[StrSize + i] = NULCHAR
    <3>1. PICK j \in 0 .. i : m[j] = 0
      BY <2>6 DEF NULCHAR
    <3>2. PICK l \in 0 .. StrSize - 1 : l = strlen(m, 0)
      BY <2>1, StrlenOf
    <3>3. l <= j
      <4>1. \A x \in 0 .. l - 1 : m[x] # 0
        BY <2>1, <3>2, StrlenOf
      <4>2. j < l => j \in 0 .. l - 1
        BY <1>1
      <4>3. QED
        BY <1>1, <3>1, <4>1, <4>2
    <3>4. i \in k .. n - 1
      <4>1. (k = l /\ l < n) \/ (k = n /\ n <= l)
        BY <2>3, <3>2
      <4>2. QED
        BY <1>1, <3>3, <4>1
    <3>5. QED
      BY <2>3, <3>4 DEF CopyOf, NULCHAR
  <2>7. \A i \in (0 .. StrSize - 1) \cup (StrSize + n .. 2 * StrSize - 1) : mem[i] = m[i]
    BY <2>3 DEF CopyOf
  <2>8. strncmp(m, 0, StrSize, n) = 0 <=> SameUpTo(m, 0, StrSize, n)
    BY <2>1, StrncmpZero
  <2>9. /\ call'.fn = "strncpy" /\ call'.mem = mem /\ call'.before = m /\ call'.n = n
        /\ call'.differ = strncmp(m, 0, StrSize, n)
    BY <2>1, <2>2
  <2>10. QED
    BY <2>4, <2>5, <2>6, <2>7, <2>8, <2>9 DEF CopiesCompareEqual
<1>4. CASE CallMemset \/ CallMemcpy \/ CallMemmove \/ CallPrintf \/ CallNumbers
  <2>1. call'.fn \in {"memset", "memcpy", "memmove", "printf", "numbers"}
    BY <1>4 DEF CallMemset, CallMemcpy, CallMemmove, CallPrintf, CallNumbers
  <2>2. QED
    BY <2>1 DEF CopiesCompareEqual
<1>5. QED
  BY <1>2, <1>3, <1>4 DEF LibCall

\* A copy of a string compares equal to it, leaves the source and what is behind
\* the destination as they were, and strncmp is 0 for equal strings only, for
\* buffers of any size and any string in them (lib.c:503-512, 680-705, 734-781).
THEOREM StringsTheorem == MCSpec => []CopiesCompareEqual
<1>1. MCInit => CopiesCompareEqual
  BY DEF MCInit, LibInit, NoCall, CopiesCompareEqual
<1>2. CopiesCompareEqual /\ [MCNext]_<<vars, call>> => CopiesCompareEqual'
  <2> SUFFICES ASSUME CopiesCompareEqual, [MCNext]_<<vars, call>>
               PROVE  CopiesCompareEqual'
    OBVIOUS
  <2>1. CASE UNCHANGED call
    BY <2>1 DEF CopiesCompareEqual
  <2>2. CASE LibCall
    BY <2>2, CallCompares
  <2>3. QED
    BY <2>1, <2>2 DEF MCNext
<1>3. QED
  BY <1>1, <1>2, PTL DEF MCSpec

-----------------------------------------------------------------------------
(***************************************************************************)
(* Numbers                                                                 *)
(***************************************************************************)
Radices == {10, 16}

\* The recursion of Places up to n
PlacesBy(f, n, radix) ==
    f = [v \in 0 .. n |-> IF v = 0 THEN << >>
                          ELSE <<lookup[(v % radix) + 1]>> \o f[v \div radix]]

\* A quotient is smaller, and what it and the remainder stand for.
LEMMA Division ==
    ASSUME NEW v \in Nat, NEW radix \in Radices
    PROVE  /\ v \div radix \in Nat /\ v % radix \in 0 .. 15 /\ v % radix < radix
           /\ v = radix * (v \div radix) + (v % radix)
           /\ v # 0 => v \div radix < v
           /\ v \div radix = 0 => v % radix = v
<1>1. CASE radix = 10
  BY <1>1, Z3
<1>2. CASE radix = 16
  BY <1>2, Z3
<1>3. QED
  BY <1>1, <1>2 DEF Radices

\* There is a function that satisfies the recursion.
LEMMA PlacesExist ==
    ASSUME NEW n \in Nat, NEW radix \in Radices
    PROVE  \E f : PlacesBy(f, n, radix)
<1> DEFINE S == {k \in 0 .. n : \E f : PlacesBy(f, k, radix)}
<1>1. 0 \in S
  <2>1. PlacesBy([v \in 0 .. 0 |-> << >>], 0, radix)
    <3>1. \A v \in 0 .. 0 : v = 0
      OBVIOUS
    <3>2. QED
      BY <3>1 DEF PlacesBy
  <2>2. QED
    BY <2>1
<1>2. ASSUME NEW k \in 1 .. n, k - 1 \in S PROVE k \in S
  <2>1. PICK f : PlacesBy(f, k - 1, radix)
    BY <1>2
  <2> DEFINE top == <<lookup[(k % radix) + 1]>> \o f[k \div radix]
             g   == [v \in 0 .. k |-> IF v = k THEN top ELSE f[v]]
  <2>2. ASSUME NEW v \in 0 .. k
        PROVE  g[v] = IF v = 0 THEN << >> ELSE <<lookup[(v % radix) + 1]>> \o g[v \div radix]
    <3>1. v \in Nat /\ k \in Nat /\ k # 0
      OBVIOUS
    <3>2. v # 0 => v \div radix \in 0 .. k /\ v \div radix # k
      <4>1. v \div radix \in Nat /\ (v # 0 => v \div radix < v)
        BY <3>1, Division
      <4>2. QED
        BY <3>1, <4>1
    <3>3. CASE v = k
      <4>1. g[v] = top /\ g[v \div radix] = f[v \div radix]
        BY <3>1, <3>2, <3>3
      <4>2. QED
        BY <3>1, <3>3, <4>1
    <3>4. CASE v # k
      <4>1. v \in 0 .. k - 1
        BY <3>1, <3>4
      <4>2. g[v] = f[v] /\ (v # 0 => g[v \div radix] = f[v \div radix])
        BY <3>2, <3>4
      <4>3. f[v] = IF v = 0 THEN << >> ELSE <<lookup[(v % radix) + 1]>> \o f[v \div radix]
        BY <2>1, <4>1 DEF PlacesBy
      <4>4. QED
        BY <4>2, <4>3
    <3>5. QED
      BY <3>3, <3>4
  <2>3. g = [v \in 0 .. k |-> g[v]]
    OBVIOUS
  <2> HIDE DEF g
  <2>4. PlacesBy(g, k, radix)
    BY <2>2, <2>3 DEF PlacesBy
  <2>5. QED
    BY <2>4
<1>3. n \in S
  <2> HIDE DEF S
  <2>1. \A k \in 0 .. n : k \in S
    BY <1>1, <1>2, AlongRun
  <2>2. QED
    BY <2>1
<1>4. QED
  BY <1>3

\* The quotients that itoa goes through, from value to 0
Quotients(q, k, value, radix) ==
    /\ k \in Nat /\ q \in [0 .. k -> Nat] /\ q[0] = value /\ q[k] = 0
    /\ \A j \in 1 .. k : q[j - 1] # 0 /\ q[j] = q[j - 1] \div radix

\* itoa writes a digit for each.
LEMMA PlacesAre ==
    ASSUME NEW value \in Nat, NEW radix \in Radices
    PROVE  \E k, q : /\ Quotients(q, k, value, radix)
                     /\ Places(value, radix) = [j \in 1 .. k |-> lookup[(q[j - 1] % radix) + 1]]
<1> DEFINE f == CHOOSE f : PlacesBy(f, value, radix)
<1>1. PlacesBy(f, value, radix) /\ Places(value, radix) = f[value]
  <2>1. PlacesBy(f, value, radix)
    BY PlacesExist
  <2>2. Places(value, radix) = f[value]
    BY DEF Places, PlacesBy
  <2>3. QED
    BY <2>1, <2>2
<1> HIDE DEF f
<1> DEFINE Good(v) == \E k, q : /\ Quotients(q, k, v, radix)
                                /\ f[v] = [j \in 1 .. k |-> lookup[(q[j - 1] % radix) + 1]]
           Bad == {v \in 0 .. value : ~Good(v)}
<1>2. ASSUME NEW v \in 0 .. value, \A w \in 0 .. value : w < v => Good(w)
      PROVE  Good(v)
  <2>0. f[v] = IF v = 0 THEN << >> ELSE <<lookup[(v % radix) + 1]>> \o f[v \div radix]
    BY <1>1 DEF PlacesBy
  <2>1. CASE v = 0
    <3>1. Quotients([j \in 0 .. 0 |-> 0], 0, v, radix)
      BY <2>1 DEF Quotients
    <3>2. \A q : [j \in 1 .. 0 |-> lookup[(q[j - 1] % radix) + 1]] = << >>
      OBVIOUS
    <3>3. QED
      BY <2>0, <2>1, <3>1, <3>2
  <2>2. CASE v # 0
    <3>1. PICK w \in Nat : w = v \div radix /\ w < v
      BY <2>2, Division
    <3>2. w \in 0 .. value
      BY <3>1
    <3>3. Good(w)
      BY <1>2, <3>1, <3>2
    <3>4. PICK k, q : /\ Quotients(q, k, w, radix)
                      /\ f[w] = [j \in 1 .. k |-> lookup[(q[j - 1] % radix) + 1]]
      BY <3>3
    <3>5. k \in Nat /\ q \in [0 .. k -> Nat] /\ q[0] = w /\ q[k] = 0
          /\ \A j \in 1 .. k : q[j - 1] # 0 /\ q[j] = q[j - 1] \div radix
      BY <3>4 DEF Quotients
    <3> DEFINE p == [j \in 0 .. k + 1 |-> IF j = 0 THEN v ELSE q[j - 1]]
    <3>6. p[0] = v /\ \A j \in 1 .. k + 1 : p[j] = q[j - 1] /\ j - 1 \in 0 .. k
      BY <3>5
    <3>7. p \in [0 .. k + 1 -> Nat]
      <4>1. \A j \in 0 .. k + 1 : j = 0 \/ j \in 1 .. k + 1
        BY <3>5
      <4>2. \A j \in 0 .. k + 1 : (IF j = 0 THEN v ELSE q[j - 1]) \in Nat
        BY <3>5, <3>6, <4>1
      <4>3. QED
        BY <4>2
    <3> HIDE DEF p
    <3>8. k + 1 \in 1 .. k + 1 /\ (k + 1) - 1 = k /\ k + 1 \in Nat
      BY <3>5
    <3>9. \A j \in 1 .. k + 1 : p[j - 1] # 0 /\ p[j] = p[j - 1] \div radix
      <4> SUFFICES ASSUME NEW j \in 1 .. k + 1
                   PROVE  p[j - 1] # 0 /\ p[j] = p[j - 1] \div radix
        OBVIOUS
      <4>1. CASE j = 1
        <5>1. p[j - 1] = v /\ p[j] = w
          BY <3>5, <3>6, <4>1
        <5>2. QED
          BY <2>2, <3>1, <5>1
      <4>2. CASE j # 1
        <5>1. j - 1 \in 1 .. k + 1 /\ j - 1 \in 1 .. k
          BY <3>5, <4>2
        <5>2. p[j] = q[j - 1] /\ p[j - 1] = q[(j - 1) - 1]
          BY <3>6, <5>1
        <5>3. QED
          BY <3>5, <5>1, <5>2
      <4>3. QED
        BY <4>1, <4>2
    <3>10. Quotients(p, k + 1, v, radix)
      <4>1. p[k + 1] = 0
        BY <3>5, <3>6, <3>8
      <4>2. QED
        BY <3>6, <3>7, <3>8, <3>9, <4>1 DEF Quotients
    <3>11. f[v] = [j \in 1 .. k + 1 |-> lookup[(p[j - 1] % radix) + 1]]
      <4> DEFINE d == lookup[(v % radix) + 1]
                 s == [j \in 1 .. k |-> lookup[(q[j - 1] % radix) + 1]]
                 t == [j \in 1 .. k + 1 |-> lookup[(p[j - 1] % radix) + 1]]
                 S == {lookup[i] : i \in Int}
      <4>1. f[v] = <<d>> \o s
        BY <2>0, <2>2, <3>1, <3>4
      <4>2. s \in Seq(S) /\ Len(s) = k /\ t \in Seq(S) /\ Len(t) = k + 1 /\ d \in S
        <5>1. \A x \in Nat : (x % radix) + 1 \in Int
          <6>1. \A x \in Nat : x % radix \in 0 .. 15
            BY Division
          <6>2. QED
            BY <6>1
        <5>2. \A j \in 1 .. k : j - 1 \in 0 .. k
          BY <3>5
        <5>3. \A j \in 1 .. k : q[j - 1] \in Nat
          BY <3>5, <5>2
        <5>4. \A j \in 1 .. k + 1 : p[j - 1] \in Nat
          <6>1. \A j \in 1 .. k + 1 : j - 1 \in 0 .. k + 1
            BY <3>5
          <6>2. QED
            BY <3>7, <6>1
        <5>5. \A x \in Nat : lookup[(x % radix) + 1] \in S
          BY <5>1
        <5>6. d \in S
          BY <5>5
        <5> HIDE DEF S
        <5>7. s \in Seq(S) /\ Len(s) = k
          BY <3>5, <5>3, <5>5
        <5>8. t \in Seq(S) /\ Len(t) = k + 1
          BY <3>8, <5>4, <5>5
        <5>9. QED
          BY <5>6, <5>7, <5>8
      <4> HIDE DEF S
      <4>3. t[1] = d
        <5>1. 1 \in 1 .. k + 1 /\ 1 - 1 = 0
          BY <3>5
        <5>2. QED
          BY <3>6, <5>1
      <4>4. \A j \in 1 .. k : t[j + 1] = s[j]
        <5> SUFFICES ASSUME NEW j \in 1 .. k PROVE t[j + 1] = s[j]
          OBVIOUS
        <5>1. j + 1 \in 1 .. k + 1 /\ (j + 1) - 1 = j /\ j \in 1 .. k + 1
          BY <3>5
        <5>2. p[j] = q[j - 1]
          BY <3>6, <5>1
        <5>3. QED
          BY <5>1, <5>2
      <4> HIDE DEF s, t, d
      <4>5. <<d>> \o s = t
        <5>1. <<d>> \in Seq(S) /\ Len(<<d>>) = 1 /\ <<d>>[1] = d
          BY <4>2
        <5>2. PICK u : u = <<d>> \o s
          OBVIOUS
        <5>3. u \in Seq(S) /\ Len(u) = k + 1 /\ u[1] = d
              /\ \A j \in 2 .. k + 1 : u[j] = s[j - 1]
          BY <3>5, <4>2, <5>1, <5>2
        <5>4. \A j \in 1 .. k + 1 : u[j] = t[j]
          <6> SUFFICES ASSUME NEW j \in 1 .. k + 1 PROVE u[j] = t[j]
            OBVIOUS
          <6>1. CASE j = 1
            BY <4>3, <5>3, <6>1
          <6>2. CASE j # 1
            <7>1. j \in 2 .. k + 1 /\ j - 1 \in 1 .. k /\ (j - 1) + 1 = j
              BY <3>5, <6>2
            <7>2. QED
              BY <4>4, <5>3, <7>1
          <6>3. QED
            BY <6>1, <6>2
        <5>5. u \in Seq(S) /\ t \in Seq(S) /\ Len(u) = Len(t)
              /\ \A j \in 1 .. Len(u) : u[j] = t[j]
          BY <4>2, <5>3, <5>4
        <5>6. u = t
          BY <5>5, SeqEqual
        <5>7. QED
          BY <5>2, <5>6
      <4>6. QED
        BY <4>1, <4>5 DEF t
    <3>12. QED
      BY <3>10, <3>11
  <2>3. QED
    BY <2>1, <2>2
<1>3. Bad = {}
  <2> SUFFICES ASSUME Bad # {} PROVE FALSE
    OBVIOUS
  <2>1. PICK b \in Bad : \A c \in Bad : b <= c
    <3>1. Bad \subseteq Nat
      OBVIOUS
    <3> HIDE DEF Bad
    <3>2. QED
      BY <3>1, LeastElement
  <2>2. b \in 0 .. value /\ ~Good(b)
    OBVIOUS
  <2> HIDE DEF Good
  <2>3. \A w \in 0 .. value : w < b => Good(w)
    <3> SUFFICES ASSUME NEW w \in 0 .. value, w < b, ~Good(w) PROVE FALSE
      OBVIOUS
    <3>1. w \in Bad /\ ~(b <= w)
      BY <2>2
    <3>2. QED
      BY <2>1, <3>1
  <2>4. QED
    BY <1>2, <2>2, <2>3
<1>4. Good(value)
  <2>1. value \in 0 .. value
    OBVIOUS
  <2> HIDE DEF Good
  <2>2. ~Good(value) => value \in Bad
    BY <2>1
  <2> HIDE DEF Bad
  <2>3. QED
    BY <1>3, <2>2
<1>5. QED
  BY <1>1, <1>4

\* The digit that a character of lookup is
DigitOf(d) == CHOOSE k \in 0 .. 15 : lookup[k + 1] = d

\* No two digits are the same character.
LEMMA DigitIs == \A a \in 0 .. 15 : DigitOf(lookup[a + 1]) = a
<1>1. \A a, b \in 0 .. 15 : lookup[a + 1] = lookup[b + 1] => a = b
  BY DEF lookup
<1> HIDE DEF lookup
<1>2. QED
  BY <1>1 DEF DigitOf

\* What the first i digits of s stand for
DigitRun(s, q, radix) ==
    /\ Len(s) \in Nat /\ DOMAIN s = 1 .. Len(s)
    /\ q \in [0 .. Len(s) -> Nat] /\ q[0] = 0
    /\ \A i \in 1 .. Len(s) :
          \E a \in 0 .. 15 : s[i] = lookup[a + 1] /\ q[i] = radix * q[i - 1] + a

\* Digits are worth what the run over them ends with.
LEMMA ValueIs ==
    ASSUME NEW s, NEW q, NEW radix \in Radices, DigitRun(s, q, radix)
    PROVE  ValueOf(s, radix) = q[Len(s)]
<1> DEFINE n == Len(s)
           Step(v, i) == radix * v + (CHOOSE k \in 0 .. 15 : lookup[k + 1] = s[i])
           F == [p \in Nat \X (1 .. n) |-> Step(p[1], p[2])]
           R(h) == h = [t \in SUBSET (1 .. n) |->
                          IF t = {} THEN 0 ELSE Step(h[t \ {Max(t)}], Max(t))]
           H == CHOOSE h : R(h)
<1>1. ValueOf(s, radix) = H[1 .. n]
  <2>1. DOMAIN s = 1 .. n
    BY DEF DigitRun
  <2>2. QED
    BY <2>1 DEF ValueOf, FoldLeft, MapThenFoldSet
<1>2. n \in Nat
  BY DEF DigitRun
<1>3. ASSUME NEW v \in Nat, NEW i \in 1 .. n
      PROVE  \E a \in 0 .. 15 : s[i] = lookup[a + 1] /\ Step(v, i) = radix * v + a
                                /\ q[i] = radix * q[i - 1] + a /\ Step(v, i) \in Nat
  <2>1. PICK a \in 0 .. 15 : s[i] = lookup[a + 1] /\ q[i] = radix * q[i - 1] + a
    BY DEF DigitRun
  <2>2. DigitOf(s[i]) = a
    BY <2>1, DigitIs
  <2>3. Step(v, i) = radix * v + DigitOf(s[i])
    BY DEF DigitOf
  <2> HIDE DEF Step
  <2>4. radix * v + a \in Nat
    <3>1. radix \in Nat
      BY DEF Radices
    <3>2. QED
      BY <3>1
  <2>5. Step(v, i) = radix * v + a
    BY <2>2, <2>3
  <2>6. Step(v, i) \in Nat
    BY <2>4, <2>5
  <2>7. QED
    BY <2>1, <2>5, <2>6
<1> HIDE DEF n, Step
<1>4. F \in [Nat \X (1 .. n) -> Nat]
  <2>1. \A p \in Nat \X (1 .. n) : Step(p[1], p[2]) \in Nat
    BY <1>3
  <2>2. QED
    BY <2>1
<1>5. \E h : R(h)
  <2>1. PICK h \in [SUBSET (1 .. n) -> Nat] : FoldsBy(h, F, 0, n)
    <3> HIDE DEF F
    <3>1. QED
      BY <1>2, <1>4, FoldExists
  <2>2. ASSUME NEW t \in SUBSET (1 .. n), t # {}
        PROVE  F[<<h[t \ {Max(t)}], Max(t)>>] = Step(h[t \ {Max(t)}], Max(t))
    <3>1. Max(t) \in 1 .. n
      BY <1>2, <2>2, MaxOf
    <3>2. t \ {Max(t)} \in SUBSET (1 .. n)
      OBVIOUS
    <3>3. h[t \ {Max(t)}] \in Nat
      BY <2>1, <3>2
    <3>4. QED
      BY <3>1, <3>3
  <2>3. [t \in SUBSET (1 .. n) |-> IF t = {} THEN 0
             ELSE F[<<h[t \ {Max(t)}], Max(t)>>]]
        = [t \in SUBSET (1 .. n) |-> IF t = {} THEN 0
             ELSE Step(h[t \ {Max(t)}], Max(t))]
    <3> HIDE DEF F
    <3>1. QED
      BY <2>2
  <2>4. R(h)
    <3> HIDE DEF F
    <3>1. QED
      BY <2>1, <2>3 DEF FoldsBy
  <2>5. QED
    BY <2>4
<1>6. R(H)
  <2> HIDE DEF R
  <2>1. QED
    BY <1>5
<1> HIDE DEF H
<1>7. PICK g : RunOf(g, F, Nat, 0, n) /\ g[n] = H[1 .. n]
  <2>1. {} \in SUBSET (1 .. n)
    OBVIOUS
  <2>2. H[{}] = 0
    BY <1>6, <2>1
  <2>3. ASSUME NEW t \in SUBSET (1 .. n), t # {}, H[t \ {Max(t)}] \in Nat
        PROVE  H[t] = F[<<H[t \ {Max(t)}], Max(t)>>]
    <3>1. Max(t) \in 1 .. n
      BY <1>2, <2>3, MaxOf
    <3>2. H[t] = Step(H[t \ {Max(t)}], Max(t))
      BY <1>6, <2>3
    <3>3. QED
      BY <2>3, <3>1, <3>2
  <2> HIDE DEF F, R
  <2>4. Folding(H, F, Nat, 0, n)
    BY <1>2, <1>4, <2>2, <2>3 DEF Folding
  <2>5. QED
    BY <2>4, FoldRun, SMT
<1>8. \A k \in 1 .. n : k - 1 \in 0 .. n
  BY <1>2
<1>9. \A k \in 1 .. n : g[k] = Step(g[k - 1], k) /\ g[k - 1] \in Nat
  BY <1>7, <1>8 DEF RunOf
<1>10. g[0] = 0
  BY <1>7 DEF RunOf
<1> HIDE DEF F
<1>11. \A k \in 0 .. n : k \in {j \in 0 .. n : g[j] = q[j]}
  <2> DEFINE S == {j \in 0 .. n : g[j] = q[j]}
  <2>1. 0 \in S
    <3>1. q[0] = 0 /\ 0 \in 0 .. n
      BY <1>2 DEF DigitRun
    <3>2. QED
      BY <1>10, <3>1
  <2>2. ASSUME NEW k \in 1 .. n, k - 1 \in S PROVE k \in S
    <3>1. g[k - 1] = q[k - 1] /\ g[k - 1] \in Nat /\ g[k] = Step(g[k - 1], k)
      BY <1>9, <2>2
    <3>2. g[k] = radix * g[k - 1] + (q[k] - radix * q[k - 1]) /\ k \in 0 .. n
          /\ \E a \in 0 .. 15 : g[k] = radix * g[k - 1] + a /\ q[k] = radix * q[k - 1] + a
      <4>1. PICK a \in 0 .. 15 : /\ Step(g[k - 1], k) = radix * g[k - 1] + a
                                 /\ q[k] = radix * q[k - 1] + a
        BY <1>3, <3>1
      <4>2. radix \in Nat
        BY DEF Radices
      <4>3. radix * g[k - 1] \in Nat /\ radix * q[k - 1] = radix * g[k - 1]
        BY <3>1, <4>2
      <4>4. k \in 0 .. n
        BY <1>2
      <4>5. QED
        BY <3>1, <4>1, <4>3, <4>4
    <3>3. g[k] = q[k]
      BY <3>1, <3>2
    <3>4. QED
      BY <3>2, <3>3
  <2> HIDE DEF S
  <2>3. \A k \in 0 .. n : k \in S
    BY <1>2, <2>1, <2>2, AlongRun
  <2>4. QED
    BY <2>3 DEF S
<1>12. n \in 0 .. n
  BY <1>2
<1>13. g[n] = q[n]
  BY <1>11, <1>12
<1>14. QED
  BY <1>1, <1>7, <1>13 DEF n

\* The characters of numbers
Digits == {lookup[a + 1] : a \in 0 .. 15}

\* s is the numeral of v: digits that stand for v, without a needless zero.
Numeral(s, q, v, radix) ==
    /\ s \in Seq(Digits) /\ Canonical(s)
    /\ DigitRun(s, q, radix) /\ q[Len(s)] = v

\* itoa turns the digits of Places round.
LEMMA ItoaDigits ==
    ASSUME NEW value \in Nat \ {0}, NEW radix \in Radices
    PROVE  \E k, q : /\ Quotients(q, k, value, radix)
                     /\ itoa(value, radix) = [i \in 1 .. k |-> lookup[(q[k - i] % radix) + 1]]
<1>1. PICK k, q : /\ Quotients(q, k, value, radix)
                  /\ Places(value, radix) = [j \in 1 .. k |-> lookup[(q[j - 1] % radix) + 1]]
  BY PlacesAre
<1>2. k \in Nat
  BY <1>1 DEF Quotients
<1> DEFINE p == [j \in 1 .. k |-> lookup[(q[j - 1] % radix) + 1]]
<1>3. Len(p) = k
  BY <1>2
<1>4. \A i \in 1 .. k : p[k + 1 - i] = lookup[(q[k - i] % radix) + 1]
  <2> SUFFICES ASSUME NEW i \in 1 .. k
               PROVE  p[k + 1 - i] = lookup[(q[k - i] % radix) + 1]
    OBVIOUS
  <2>1. k + 1 - i \in 1 .. k /\ (k + 1 - i) - 1 = k - i
    BY <1>2
  <2>2. p[k + 1 - i] = lookup[(q[(k + 1 - i) - 1] % radix) + 1]
    BY <2>1
  <2>3. QED
    BY <2>1, <2>2
<1> HIDE DEF p
<1>5. strrev(p) = [i \in 1 .. k |-> lookup[(q[k - i] % radix) + 1]]
  BY <1>3, <1>4 DEF strrev
<1>6. itoa(value, radix) = strrev(p)
  BY <1>1 DEF itoa, p
<1>7. QED
  BY <1>1, <1>5, <1>6

\* itoa prints the numeral of its argument.
LEMMA ItoaIs ==
    ASSUME NEW value \in Nat, NEW radix \in Radices
    PROVE  \E q : Numeral(itoa(value, radix), q, value, radix)
<1>1. CASE value = 0
  <2> DEFINE q == [i \in 0 .. 1 |-> 0]
  <2>1. itoa(value, radix) = <<"0">>
    BY <1>1 DEF itoa
  <2>2. <<"0">>[1] = lookup[0 + 1] /\ "0" = lookup[0 + 1] /\ 0 \in 0 .. 15
    BY DEF lookup
  <2>3. <<"0">> \in Seq(Digits) /\ Canonical(<<"0">>)
    BY <2>2 DEF Digits, Canonical
  <2>4. DigitRun(<<"0">>, q, radix)
    <3>1. Len(<<"0">>) = 1 /\ DOMAIN <<"0">> = 1 .. 1
      OBVIOUS
    <3>2. q[0] = 0 /\ q[1] = 0 /\ q \in [0 .. 1 -> Nat]
      OBVIOUS
    <3>3. q[1] = radix * q[0] + 0
      BY <3>2 DEF Radices
    <3>4. \A i \in 1 .. 1 : i = 1 /\ i - 1 = 0
      OBVIOUS
    <3> HIDE DEF q
    <3>5. QED
      BY <2>2, <3>1, <3>2, <3>3, <3>4 DEF DigitRun
  <2>5. q[Len(<<"0">>)] = value
    BY <1>1
  <2> HIDE DEF q
  <2>6. Numeral(itoa(value, radix), q, value, radix)
    BY <2>1, <2>3, <2>4, <2>5 DEF Numeral
  <2>7. QED
    BY <2>6
<1>2. CASE value # 0
  <2>1. PICK k, q : /\ Quotients(q, k, value, radix)
                    /\ itoa(value, radix) = [i \in 1 .. k |-> lookup[(q[k - i] % radix) + 1]]
    BY <1>2, ItoaDigits
  <2>2. PICK s : s = itoa(value, radix)
    OBVIOUS
  <2>3. /\ k \in Nat /\ q \in [0 .. k -> Nat] /\ q[0] = value /\ q[k] = 0
        /\ \A j \in 1 .. k : q[j - 1] # 0 /\ q[j] = q[j - 1] \div radix
    BY <2>1 DEF Quotients
  <2>4. k >= 1
    BY <1>2, <2>3
  <2> DEFINE r == [i \in 0 .. k |-> q[k - i]]
  <2>5. /\ r \in [0 .. k -> Nat] /\ r[0] = 0 /\ r[k] = value
        /\ \A i \in 1 .. k : r[i] = q[k - i] /\ r[i - 1] = q[k - i + 1]
    <3>1. \A i \in 0 .. k : k - i \in 0 .. k
      BY <2>3
    <3>2. r \in [0 .. k -> Nat]
      BY <2>3, <3>1
    <3>3. 0 \in 0 .. k /\ k \in 0 .. k /\ k - 0 = k /\ k - k = 0
      BY <2>3
    <3>4. \A i \in 1 .. k : i \in 0 .. k /\ i - 1 \in 0 .. k /\ k - (i - 1) = k - i + 1
      BY <2>3
    <3>5. QED
      BY <2>3, <3>2, <3>3, <3>4
  <2> HIDE DEF r
  <2>6. ASSUME NEW i \in 1 .. k
        PROVE  /\ (q[k - i] % radix) \in 0 .. 15
               /\ s[i] = lookup[(q[k - i] % radix) + 1]
               /\ r[i] = radix * r[i - 1] + (q[k - i] % radix)
               /\ r[i - 1] = r[i] \div radix /\ r[i] # 0
    <3>1. k - i + 1 \in 1 .. k /\ (k - i + 1) - 1 = k - i /\ k - i \in 0 .. k
      BY <2>3
    <3>2. q[k - i] \in Nat /\ q[k - i] # 0 /\ q[k - i + 1] = q[k - i] \div radix
      BY <2>3, <3>1
    <3>3. /\ (q[k - i] % radix) \in 0 .. 15
          /\ q[k - i] = radix * (q[k - i] \div radix) + (q[k - i] % radix)
      BY <3>2, Division
    <3>4. s[i] = lookup[(q[k - i] % radix) + 1]
      BY <2>1, <2>2
    <3>5. r[i] = q[k - i] /\ r[i - 1] = q[k - i + 1]
      BY <2>5
    <3>6. QED
      BY <3>2, <3>3, <3>4, <3>5
  <2>7. s \in Seq(Digits) /\ Len(s) = k /\ DOMAIN s = 1 .. k
    <3>1. s = [i \in 1 .. k |-> s[i]]
      BY <2>1, <2>2
    <3>2. \A i \in 1 .. k : s[i] \in Digits
      BY <2>6 DEF Digits
    <3>3. QED
      BY <2>3, <3>1, <3>2
  <2>8. DigitRun(s, r, radix)
    <3>1. ASSUME NEW i \in 1 .. k
          PROVE  \E a \in 0 .. 15 : s[i] = lookup[a + 1] /\ r[i] = radix * r[i - 1] + a
      <4>1. PICK a : a = q[k - i] % radix
        OBVIOUS
      <4>2. a \in 0 .. 15 /\ s[i] = lookup[a + 1] /\ r[i] = radix * r[i - 1] + a
        BY <2>6, <4>1, Zenon
      <4>3. QED
        BY <4>2
    <3>2. QED
      BY <2>3, <2>5, <2>7, <3>1, Zenon DEF DigitRun
  <2>9. Canonical(s)
    <3>1. 1 \in 1 .. k /\ 1 - 1 = 0
      BY <2>3, <2>4
    <3>2. PICK a \in 0 .. 15 : a = q[k - 1] % radix /\ s[1] = lookup[a + 1]
      BY <2>6, <3>1
    <3>3. r[1] \in Nat /\ r[1] # 0 /\ r[1] \div radix = 0 /\ r[1] = q[k - 1]
      BY <2>5, <2>6, <3>1
    <3>4. a # 0
      <4>1. r[1] % radix = r[1]
        BY <3>3, Division
      <4>2. QED
        BY <3>2, <3>3, <4>1
    <3>5. s[1] # "0"
      <4>1. "0" = lookup[0 + 1] /\ 0 \in 0 .. 15
        BY DEF lookup
      <4>2. DigitOf(lookup[a + 1]) = a /\ DigitOf(lookup[0 + 1]) = 0
        BY <4>1, DigitIs
      <4>3. QED
        BY <3>2, <3>4, <4>1, <4>2
    <3>6. s # << >> /\ Head(s) = s[1]
      BY <2>4, <2>7
    <3>7. QED
      BY <3>5, <3>6 DEF Canonical
  <2>10. Numeral(s, r, value, radix)
    BY <2>5, <2>7, <2>8, <2>9 DEF Numeral
  <2>11. QED
    BY <2>2, <2>10
<1>3. QED
  BY <1>1, <1>2

-----------------------------------------------------------------------------
(***************************************************************************)
(* The widths of numbers                                                   *)
(***************************************************************************)
\* Digits of a word in base 16
HexDigits == WordBits \div 4

\* The powers of 16 that the places of a word are worth
Powers(w) ==
    /\ w \in [0 .. HexDigits -> Nat] /\ w[0] = 1 /\ w[HexDigits] = Words
    /\ \A j \in 1 .. HexDigits : w[j] = 16 * w[j - 1]

\* A word has room for 1 to 8 digits in base 16.
LEMMA PowersExist ==
    /\ HexDigits \in 1 .. 8
    /\ Words \in Nat /\ Words >= 16 /\ Words % 2 = 0
    /\ \E w : Powers(w)
<1> DEFINE all == <<1, 16, 256, 4096, 65536, 1048576, 16777216, 268435456, 4294967296>>
<1>1. \A j \in 1 .. 9 : all[j] \in Nat
  OBVIOUS
<1>2. \A j \in 1 .. 8 : all[j + 1] = 16 * all[j]
  OBVIOUS
<1>3. /\ HexDigits \in 1 .. 8
      /\ Words = all[HexDigits + 1]
  <2>1. WordBits \in {4, 8, 12, 16, 20, 24, 28, 32}
    BY LibAssumption
  <2>2. CASE WordBits = 4
    BY <2>2 DEF HexDigits, Words
  <2>3. CASE WordBits = 8
    BY <2>3 DEF HexDigits, Words
  <2>4. CASE WordBits = 12
    BY <2>4 DEF HexDigits, Words
  <2>5. CASE WordBits = 16
    BY <2>5 DEF HexDigits, Words
  <2>6. CASE WordBits = 20
    BY <2>6 DEF HexDigits, Words
  <2>7. CASE WordBits = 24
    BY <2>7 DEF HexDigits, Words
  <2>8. CASE WordBits = 28
    BY <2>8 DEF HexDigits, Words
  <2>9. CASE WordBits = 32
    BY <2>9 DEF HexDigits, Words
  <2>10. QED
    BY <2>1, <2>2, <2>3, <2>4, <2>5, <2>6, <2>7, <2>8, <2>9
<1>4. Words \in Nat /\ Words >= 16 /\ Words % 2 = 0
  <2>1. \A j \in 1 .. 8 : all[j + 1] \in Nat /\ all[j + 1] >= 16 /\ all[j + 1] % 2 = 0
    OBVIOUS
  <2> HIDE DEF all
  <2>2. QED
    BY <1>3, <2>1
<1> DEFINE w == [j \in 0 .. HexDigits |-> all[j + 1]]
<1>5. w \in [0 .. HexDigits -> Nat]
  <2>1. \A j \in 0 .. HexDigits : j + 1 \in 1 .. 9
    BY <1>3
  <2> HIDE DEF all
  <2>2. QED
    BY <1>1, <2>1
<1>6. w[0] = 1 /\ w[HexDigits] = Words
  <2>1. 0 \in 0 .. HexDigits /\ HexDigits \in 0 .. HexDigits /\ all[0 + 1] = 1
    BY <1>3
  <2> HIDE DEF all
  <2>2. QED
    BY <1>3, <2>1
<1>7. \A j \in 1 .. HexDigits : w[j] = 16 * w[j - 1]
  <2> HIDE DEF all
  <2> SUFFICES ASSUME NEW j \in 1 .. HexDigits PROVE w[j] = 16 * w[j - 1]
    OBVIOUS
  <2>1. j \in 1 .. 8 /\ j \in 0 .. HexDigits /\ j - 1 \in 0 .. HexDigits /\ (j - 1) + 1 = j
    BY <1>3
  <2>2. w[j] = all[j + 1] /\ w[j - 1] = all[j]
    BY <2>1
  <2>3. QED
    BY <1>2, <2>1, <2>2
<1> HIDE DEF w
<1>8. Powers(w)
  BY <1>5, <1>6, <1>7 DEF Powers
<1>9. QED
  BY <1>3, <1>4, <1>8

\* A word has no more digits in base 16 than %#x leaves room for.
LEMMA ItoaShort ==
    ASSUME NEW value \in 0 .. Words - 1
    PROVE  Len(itoa(value, 16)) \in 1 .. HexDigits
<1>1. HexDigits \in 1 .. 8 /\ Words \in Nat
  BY PowersExist
<1>2. CASE value = 0
  <2>1. Len(<<"0">>) = 1
    OBVIOUS
  <2>2. QED
    BY <1>1, <1>2, <2>1 DEF itoa
<1>3. CASE value # 0
  <2>1. PICK k, q : /\ Quotients(q, k, value, 16)
                    /\ itoa(value, 16) = [i \in 1 .. k |-> lookup[(q[k - i] % 16) + 1]]
    <3>1. value \in Nat \ {0} /\ 16 \in Radices
      BY <1>1, <1>3 DEF Radices
    <3>2. QED
      BY <3>1, ItoaDigits
  <2>2. /\ k \in Nat /\ q \in [0 .. k -> Nat] /\ q[0] = value /\ q[k] = 0
        /\ \A j \in 1 .. k : q[j - 1] # 0 /\ q[j] = q[j - 1] \div 16
    BY <2>1 DEF Quotients
  <2>3. Len(itoa(value, 16)) = k /\ k >= 1
    BY <1>3, <2>1, <2>2
  <2>4. PICK w : Powers(w)
    BY PowersExist
  <2>5. PICK n \in 1 .. 8 : n = HexDigits
    BY <1>1
  <2>6. /\ w \in [0 .. n -> Nat] /\ w[0] = 1 /\ w[n] = Words
        /\ \A j \in 1 .. n : w[j] = 16 * w[j - 1]
    BY <2>4, <2>5 DEF Powers
  <2>7. ASSUME k > n PROVE FALSE
    <3> DEFINE S == {j \in 0 .. n : q[j] < w[n - j]}
    <3>1. 0 \in S
      <4>1. n - 0 = n /\ 0 \in 0 .. n
        OBVIOUS
      <4>2. q[0] < w[n]
        BY <1>1, <2>2, <2>6
      <4>3. QED
        BY <4>1, <4>2
    <3>2. ASSUME NEW j \in 1 .. n, j - 1 \in S PROVE j \in S
      <4>1. j \in 1 .. k /\ j - 1 \in 0 .. k /\ n - j \in 0 .. n /\ n - (j - 1) = n - j + 1
            /\ n - j + 1 \in 1 .. n /\ (n - j + 1) - 1 = n - j /\ j \in 0 .. n
        BY <2>2, <2>7
      <4>2. q[j - 1] < w[n - j + 1] /\ w[n - j + 1] = 16 * w[n - j]
        BY <2>6, <3>2, <4>1
      <4>3. PICK a, b \in Nat : a = q[j - 1] /\ b = w[n - j]
        BY <2>2, <2>6, <4>1
      <4>4. a < 16 * b
        BY <4>2, <4>3
      <4>5. q[j] = a \div 16
        BY <2>2, <4>1, <4>3
      <4>6. a \div 16 < b
        <5>1. a = 16 * (a \div 16) + (a % 16) /\ a % 16 \in Nat /\ a \div 16 \in Nat
          BY Division DEF Radices
        <5>2. PICK d, m \in Nat : d = a \div 16 /\ m = a % 16
          BY <5>1
        <5>3. a = 16 * d + m
          BY <5>1, <5>2
        <5>4. d < b
          BY <4>4, <5>3
        <5>5. QED
          BY <5>2, <5>4
      <4>7. QED
        BY <4>1, <4>3, <4>5, <4>6
    <3> HIDE DEF S
    <3>3. n \in Nat
      OBVIOUS
    <3>4. \A j \in 0 .. n : j \in S
      BY <3>1, <3>2, <3>3, AlongRun
    <3>5. n \in 0 .. n /\ n - n = 0 /\ n + 1 \in 1 .. k /\ (n + 1) - 1 = n /\ n \in 0 .. k
      BY <2>2, <2>7
    <3>6. q[n] < 1 /\ q[n] # 0 /\ q[n] \in Nat
      BY <2>2, <2>6, <3>4, <3>5 DEF S
    <3>7. QED
      BY <3>6
  <2>8. k \in 1 .. n
    BY <2>2, <2>3, <2>7
  <2>9. QED
    BY <2>3, <2>5, <2>8
<1>4. QED
  BY <1>2, <1>3

\* %#x fills the word's width with zeros, which add nothing.
LEMMA PaddedIs ==
    ASSUME NEW value \in 0 .. Words - 1
    PROVE  /\ Len(ZeroPadded(itoa(value, 16))) = HexDigits
           /\ ValueOf(ZeroPadded(itoa(value, 16)), 16) = value
           /\ ZeroPadded(itoa(value, 16)) \in Seq(Digits)
<1>1. 16 \in Radices /\ value \in Nat
  BY PowersExist DEF Radices
<1>2. PICK s, q : s = itoa(value, 16) /\ Numeral(s, q, value, 16)
  BY <1>1, ItoaIs
<1>3. /\ s \in Seq(Digits) /\ Len(s) \in Nat /\ DOMAIN s = 1 .. Len(s)
      /\ q \in [0 .. Len(s) -> Nat] /\ q[0] = 0 /\ q[Len(s)] = value
      /\ \A i \in 1 .. Len(s) :
            \E a \in 0 .. 15 : s[i] = lookup[a + 1] /\ q[i] = 16 * q[i - 1] + a
  BY <1>2 DEF Numeral, DigitRun
<1>4. PICK n, k \in Nat : n = Len(s) /\ n + k = HexDigits
  <2>1. Len(s) \in 1 .. HexDigits /\ HexDigits \in 1 .. 8
    BY <1>2, ItoaShort, PowersExist
  <2>2. PICK n, h \in Nat : n = Len(s) /\ h = HexDigits /\ n <= h
    BY <2>1
  <2>3. h - n \in Nat /\ n + (h - n) = h
    BY <2>2
  <2>4. QED
    BY <2>2, <2>3
<1> DEFINE z == [i \in 1 .. k |-> "0"]
           t == z \o s
           r == [i \in 0 .. k + n |-> IF i <= k THEN 0 ELSE q[i - k]]
<1>5. ZeroPadded(s) = t
  <2>1. (WordBits \div 4) - Len(s) = k
    <3>1. PICK h \in Nat : h = WordBits \div 4 /\ n + k = h
      BY <1>4 DEF HexDigits
    <3>2. h - n = k
      BY <3>1
    <3>3. QED
      BY <1>4, <3>1, <3>2
  <2>2. QED
    BY <2>1 DEF ZeroPadded
<1>6. "0" = lookup[0 + 1] /\ 0 \in 0 .. 15
  BY DEF lookup
<1>7. z \in Seq(Digits) /\ Len(z) = k
  <2>1. "0" \in Digits
    BY <1>6 DEF Digits
  <2>2. QED
    BY <2>1
<1>8. /\ t \in Seq(Digits) /\ Len(t) = k + n /\ DOMAIN t = 1 .. k + n
      /\ \A i \in 1 .. k + n : t[i] = IF i <= k THEN "0" ELSE s[i - k]
  <2>1. /\ t \in Seq(Digits) /\ Len(t) = Len(z) + Len(s)
        /\ \A i \in 1 .. Len(z) + Len(s) : t[i] = IF i <= Len(z) THEN z[i] ELSE s[i - Len(z)]
    BY <1>3, <1>7, ConcatProperties
  <2>2. \A i \in 1 .. k + n : i <= k => z[i] = "0"
    BY <1>4
  <2> HIDE DEF t, z
  <2>3. QED
    BY <1>4, <1>7, <2>1, <2>2
<1>9. r \in [0 .. k + n -> Nat] /\ r[0] = 0 /\ r[k + n] = value
  <2>1. \A i \in 0 .. k + n : ~(i <= k) => i - k \in 0 .. n
    BY <1>4
  <2>2. r \in [0 .. k + n -> Nat]
    BY <1>3, <1>4, <2>1
  <2>3. 0 \in 0 .. k + n /\ 0 <= k /\ k + n \in 0 .. k + n /\ (k + n) - k = n
        /\ (k + n <= k => n = 0)
    BY <1>4
  <2>4. r[0] = 0
    BY <2>3
  <2>5. r[k + n] = IF k + n <= k THEN 0 ELSE q[n]
    BY <2>3
  <2>6. q[n] = value /\ q[0] = 0
    BY <1>3, <1>4
  <2> HIDE DEF r
  <2>7. r[k + n] = value
    BY <2>3, <2>5, <2>6
  <2>8. QED
    BY <2>2, <2>4, <2>7
<1>10. ASSUME NEW i \in 1 .. k + n
       PROVE  \E a \in 0 .. 15 : t[i] = lookup[a + 1] /\ r[i] = 16 * r[i - 1] + a
  <2>1. i \in 0 .. k + n /\ i - 1 \in 0 .. k + n
    BY <1>4
  <2>2. CASE i <= k
    <3>1. r[i] = 0 /\ r[i - 1] = 0
      BY <2>1, <2>2
    <3>2. t[i] = lookup[0 + 1]
      BY <1>6, <1>8, <2>2
    <3>3. r[i] = 16 * r[i - 1] + 0
      BY <3>1
    <3> HIDE DEF r, t
    <3>4. QED
      BY <1>6, <3>2, <3>3
  <2>3. CASE ~(i <= k)
    <3>1. i - k \in 1 .. Len(s)
      BY <1>4, <2>3
    <3>2. PICK a \in 0 .. 15 : /\ s[i - k] = lookup[a + 1]
                               /\ q[i - k] = 16 * q[(i - k) - 1] + a
      BY <1>3, <3>1
    <3>3. t[i] = s[i - k]
      BY <1>8, <2>3
    <3>4. r[i] = q[i - k]
      BY <2>1, <2>3
    <3>5. r[i - 1] = q[(i - k) - 1]
      <4>1. CASE i - 1 <= k
        <5>1. (i - k) - 1 = 0
          BY <1>4, <2>3, <4>1
        <5>2. r[i - 1] = 0
          BY <2>1, <4>1
        <5> HIDE DEF r
        <5>3. QED
          BY <1>3, <5>1, <5>2
      <4>2. CASE ~(i - 1 <= k)
        <5>1. (i - 1) - k = (i - k) - 1
          BY <1>4
        <5>2. r[i - 1] = q[(i - 1) - k]
          BY <2>1, <4>2
        <5> HIDE DEF r
        <5>3. QED
          BY <5>1, <5>2
      <4>3. QED
        BY <4>1, <4>2
    <3> HIDE DEF r, t
    <3>6. QED
      BY <3>2, <3>3, <3>4, <3>5
  <2>4. QED
    BY <2>2, <2>3
<1> HIDE DEF r, t
<1>11. k + n \in Nat
  OBVIOUS
<1>12. DigitRun(t, r, 16)
  BY <1>8, <1>9, <1>10, <1>11 DEF DigitRun
<1>13. ValueOf(t, 16) = value
  BY <1>1, <1>8, <1>9, <1>12, ValueIs
<1>14. HexDigits = k + n
  BY <1>4
<1>15. QED
  BY <1>2, <1>5, <1>8, <1>13, <1>14

\* A numeral is worth its number.
LEMMA ItoaFaithful ==
    ASSUME NEW value \in Nat, NEW radix \in Radices
    PROVE  /\ Canonical(itoa(value, radix)) /\ ValueOf(itoa(value, radix), radix) = value
           /\ itoa(value, radix) \in Seq(Digits)
<1>1. PICK s, q : s = itoa(value, radix) /\ Numeral(s, q, value, radix)
  BY ItoaIs
<1>2. ValueOf(s, radix) = q[Len(s)]
  BY <1>1, ValueIs DEF Numeral
<1>3. QED
  BY <1>1, <1>2 DEF Numeral

\* %d prints a negative number as '-' and the numeral of its opposite, which for
\* the most negative number is the number itself.
LEMMA SignedIs ==
    ASSUME NEW u \in 0 .. Words - 1
    PROVE  /\ u < Words \div 2 => SignedDecimal(u) = itoa(u, 10)
           /\ ~(u < Words \div 2) =>
                 SignedDecimal(u) = <<"-">> \o itoa(Words - u, 10) /\ Words - u \in Nat
<1>1. PICK n \in Nat : n = Words /\ n >= 16
  BY PowersExist
<1>2. n \div 2 \in Nat /\ n \div 2 > 0
  BY <1>1, Z3
<1>3. PICK h \in Nat : h = n \div 2 /\ h > 0
  BY <1>2
<1>4. CASE u < h
  <2>1. ~(u >= h)
    BY <1>4
  <2>2. QED
    BY <1>1, <1>3, <1>4, <2>1 DEF SignedDecimal
<1>5. CASE ~(u < h)
  <2>1. u >= h
    BY <1>1, <1>5
  <2>2. n - u \in Nat /\ n - u < n
    BY <1>1, <1>3, <1>5
  <2>3. PICK d \in Nat : d = n - u /\ d < n
    BY <2>2
  <2>4. d % n = d
    BY <1>1, <2>3, Z3
  <2>5. Negate(u) = Words - u
    BY <1>1, <2>3, <2>4 DEF Negate
  <2>6. QED
    BY <1>1, <1>3, <1>5, <2>1, <2>2, <2>5 DEF SignedDecimal
<1>6. QED
  BY <1>1, <1>3, <1>4, <1>5

\* What is printed of a number stands for it.
LEMMA NumbersFaithful ==
    ASSUME NEW c, NEW u \in 0 .. Words - 1,
           c = [fn |-> "numbers", word |-> u, hex |-> itoa(u, 16),
                padded |-> ZeroPadded(itoa(u, 16)), unsigned |-> itoa(u, 10),
                signed |-> SignedDecimal(u)]
    PROVE  Faithful(c)
<1>1. u \in Nat /\ 10 \in Radices /\ 16 \in Radices
  BY PowersExist DEF Radices
<1>2. /\ Canonical(itoa(u, 16)) /\ ValueOf(itoa(u, 16), 16) = u
      /\ Canonical(itoa(u, 10)) /\ ValueOf(itoa(u, 10), 10) = u
  BY <1>1, ItoaFaithful
<1>3. /\ Len(ZeroPadded(itoa(u, 16))) = WordBits \div 4
      /\ ValueOf(ZeroPadded(itoa(u, 16)), 16) = u
  BY PaddedIs DEF HexDigits
<1>4. u < Words \div 2 => SignedDecimal(u) = itoa(u, 10)
  BY SignedIs
<1>5. ASSUME ~(u < Words \div 2)
      PROVE  /\ Head(SignedDecimal(u)) = "-" /\ Canonical(Tail(SignedDecimal(u)))
             /\ ValueOf(Tail(SignedDecimal(u)), 10) = Words - u
  <2>1. SignedDecimal(u) = <<"-">> \o itoa(Words - u, 10) /\ Words - u \in Nat
    BY <1>5, SignedIs
  <2>2. PICK s : s = itoa(Words - u, 10) /\ Canonical(s)
                 /\ ValueOf(s, 10) = Words - u /\ s \in Seq(Digits)
    BY <1>1, <2>1, ItoaFaithful
  <2>3. Head(<<"-">> \o s) = "-" /\ Tail(<<"-">> \o s) = s
    <3> DEFINE M == Digits \cup {"-"}
    <3>1. <<"-">> \in Seq(M) /\ s \in Seq(M) /\ Len(<<"-">>) = 1 /\ <<"-">>[1] = "-"
      BY <2>2
    <3> HIDE DEF M
    <3>2. PICK t : t = <<"-">> \o s
      OBVIOUS
    <3>3. /\ t \in Seq(M) /\ Len(t) = 1 + Len(s) /\ Len(s) \in Nat
          /\ \A i \in 1 .. 1 + Len(s) : t[i] = IF i <= 1 THEN <<"-">>[i] ELSE s[i - 1]
      BY <3>1, <3>2, ConcatProperties
    <3>4. t # << >> /\ Head(t) = t[1] /\ t[1] = "-"
      BY <3>1, <3>3
    <3>5. Tail(t) \in Seq(M) /\ Len(Tail(t)) = Len(s)
          /\ \A i \in 1 .. Len(Tail(t)) : Tail(t)[i] = t[i + 1]
      BY <3>3, <3>4, HeadTailProperties
    <3>6. \A i \in 1 .. Len(Tail(t)) : Tail(t)[i] = s[i]
      <4> SUFFICES ASSUME NEW i \in 1 .. Len(Tail(t)) PROVE Tail(t)[i] = s[i]
        OBVIOUS
      <4>1. i + 1 \in 1 .. 1 + Len(s) /\ ~(i + 1 <= 1) /\ (i + 1) - 1 = i
        BY <3>3, <3>5
      <4>2. QED
        BY <3>3, <3>5, <4>1
    <3>7. Tail(t) = s
      BY <3>1, <3>5, <3>6, SeqEqual
    <3>8. QED
      BY <3>2, <3>4, <3>7
  <2>4. QED
    BY <2>1, <2>2, <2>3
<1>6. QED
  BY <1>2, <1>3, <1>4, <1>5 DEF Faithful

-----------------------------------------------------------------------------
(***************************************************************************)
(* printf                                                                  *)
(***************************************************************************)
\* The characters of formats and of what is printed
InChars  == {"x", "%", "q", "#", "u", "d", "c", "s"}
OutChars == InChars \cup Digits \cup {"y", "-"}

\* What printf goes through, and where it starts
PrintfStates == [mode : {"text", "conversion"}, alt : BOOLEAN,
                 esp : Nat \ {0}, out : Seq(OutChars)]
PrintfStart  == [mode |-> "text", alt |-> FALSE, esp |-> 1, out |-> << >>]

Prints(s) == FoldLeft(PrintfStep, PrintfStart, s)

PrintfGoes(g, s) ==
    /\ g[0] = PrintfStart
    /\ \A k \in 0 .. Len(s) : g[k] \in PrintfStates
    /\ \A k \in 1 .. Len(s) : g[k] = PrintfStep(g[k - 1], s[k])

\* The words of the stack have their types.
LEMMA StackIs ==
    ASSUME NEW i \in Nat \ {0}
    PROVE  /\ Stack[i].word \in 0 .. Words - 1
           /\ Stack[i].char \in OutChars /\ Stack[i].text \in Seq(OutChars)
<1>0. PICK k : k = ((i - 1) % 16) + 1
  OBVIOUS
<1>1. Stack[i] = [word |-> ((Words \div 2) - 1 + 3 * (i - 1)) % Words,
                  char |-> lookup[k], text |-> <<lookup[k], "y">>]
  BY <1>0 DEF Stack
<1>2. lookup[k] \in OutChars /\ "y" \in OutChars
  <2>1. (i - 1) % 16 \in 0 .. 15
    <3>1. PICK j \in Nat : j = i - 1
      OBVIOUS
    <3>2. j % 16 \in 0 .. 15
      BY Division DEF Radices
    <3>3. QED
      BY <3>1, <3>2
  <2>2. PICK j \in 0 .. 15 : j = (i - 1) % 16
    BY <2>1
  <2>3. lookup[j + 1] \in Digits
    BY DEF Digits
  <2>4. lookup[k] = lookup[j + 1]
    BY <1>0, <2>2
  <2>5. QED
    BY <2>3, <2>4 DEF OutChars
<1>3. <<lookup[k], "y">> \in Seq(OutChars)
  BY <1>2
<1>4. ((Words \div 2) - 1 + 3 * (i - 1)) % Words \in 0 .. Words - 1
  <2>1. PICK n \in Nat : n = Words /\ n >= 16
    BY PowersExist
  <2>2. n \div 2 \in Nat
    BY <2>1, Z3
  <2>3. PICK v \in Int : v = (n \div 2) - 1 + 3 * (i - 1)
    BY <2>2
  <2>4. v % n \in 0 .. n - 1
    BY <2>1, Z3
  <2>5. QED
    BY <2>1, <2>3, <2>4
<1>5. QED
  BY <1>1, <1>2, <1>3, <1>4

\* A conversion prints characters.
LEMMA ConvertedIs ==
    ASSUME NEW c \in {"x", "u", "d", "c", "s"}, NEW alt \in BOOLEAN, NEW i \in Nat \ {0}
    PROVE  Converted(c, alt, Stack[i]) \in Seq(OutChars)
<1>1. PICK e : e = Stack[i] /\ e.word \in 0 .. Words - 1 /\ e.char \in OutChars
               /\ e.text \in Seq(OutChars)
  BY StackIs
<1>2. PICK u \in Nat : u = e.word /\ u \in 0 .. Words - 1
  BY <1>1, PowersExist
<1>3. \A s \in Seq(Digits) : s \in Seq(OutChars)
  BY DEF OutChars
<1>4. itoa(u, 16) \in Seq(OutChars) /\ itoa(u, 10) \in Seq(OutChars)
      /\ ZeroPadded(itoa(u, 16)) \in Seq(OutChars)
  <2>1. 10 \in Radices /\ 16 \in Radices
    BY DEF Radices
  <2>2. itoa(u, 16) \in Seq(Digits) /\ itoa(u, 10) \in Seq(Digits)
    BY <2>1, ItoaFaithful
  <2>3. ZeroPadded(itoa(u, 16)) \in Seq(Digits)
    BY <1>2, PaddedIs
  <2>4. QED
    BY <1>3, <2>2, <2>3
<1>5. SignedDecimal(u) \in Seq(OutChars)
  <2>1. CASE u < Words \div 2
    <3>1. SignedDecimal(u) = itoa(u, 10)
      BY <1>2, <2>1, SignedIs
    <3>2. QED
      BY <1>4, <3>1
  <2>2. CASE ~(u < Words \div 2)
    <3>1. SignedDecimal(u) = <<"-">> \o itoa(Words - u, 10) /\ Words - u \in Nat
      BY <1>2, <2>2, SignedIs
    <3>2. 10 \in Radices
      BY DEF Radices
    <3>3. itoa(Words - u, 10) \in Seq(Digits)
      BY <3>1, <3>2, ItoaFaithful
    <3>4. itoa(Words - u, 10) \in Seq(OutChars)
      BY <1>3, <3>3
    <3>5. <<"-">> \in Seq(OutChars)
      <4>1. "-" \in OutChars
        BY DEF OutChars
      <4>2. QED
        BY <4>1
    <3>6. <<"-">> \o itoa(Words - u, 10) \in Seq(OutChars)
      BY <3>4, <3>5, ConcatProperties
    <3>7. QED
      BY <3>1, <3>6
  <2>3. QED
    BY <2>1, <2>2
<1>6. <<e.char>> \in Seq(OutChars)
  BY <1>1
<1>7. CASE c = "x"
  <2>1. Converted(c, alt, e) = IF alt THEN ZeroPadded(itoa(u, 16)) ELSE itoa(u, 16)
    BY <1>2, <1>7 DEF Converted
  <2>2. QED
    BY <1>1, <1>4, <2>1
<1>8. CASE c = "u"
  <2>1. Converted(c, alt, e) = itoa(u, 10)
    BY <1>2, <1>8 DEF Converted
  <2>2. QED
    BY <1>1, <1>4, <2>1
<1>9. CASE c = "d"
  <2>1. Converted(c, alt, e) = SignedDecimal(u)
    BY <1>2, <1>9 DEF Converted
  <2>2. QED
    BY <1>1, <1>5, <2>1
<1>10. CASE c = "c"
  <2>1. Converted(c, alt, e) = <<e.char>>
    BY <1>10 DEF Converted
  <2>2. QED
    BY <1>1, <1>6, <2>1
<1>11. CASE c = "s"
  <2>1. Converted(c, alt, e) = e.text
    BY <1>11 DEF Converted
  <2>2. QED
    BY <1>1, <2>1
<1>12. QED
  BY <1>7, <1>8, <1>9, <1>10, <1>11

\* What one character does to a state of printf
LEMMA PrintfStepIs ==
    ASSUME NEW f \in PrintfStates, NEW c \in InChars
    PROVE  /\ PrintfStep(f, c) \in PrintfStates
           /\ f.mode = "text" /\ c # "%" =>
                 PrintfStep(f, c) = [f EXCEPT !.out = Append(f.out, c)]
           /\ f.mode = "text" /\ c = "%" =>
                 PrintfStep(f, c) = [f EXCEPT !.mode = "conversion", !.alt = FALSE]
           /\ f.mode = "conversion" /\ c = "#" =>
                 PrintfStep(f, c) = [f EXCEPT !.alt = TRUE]
           /\ f.mode = "conversion" /\ c = "%" =>
                 PrintfStep(f, c) = [f EXCEPT !.mode = "text", !.out = Append(f.out, c)]
           /\ f.mode = "conversion" /\ c = "q" =>
                 PrintfStep(f, c) = [f EXCEPT !.mode = "text"]
           /\ f.mode = "conversion" /\ c \in {"x", "u", "d", "c", "s"} =>
                 PrintfStep(f, c) =
                     [f EXCEPT !.mode = "text",
                               !.out = f.out \o Converted(c, f.alt, Stack[f.esp]),
                               !.esp = f.esp + 1]
<1>1. f.mode \in {"text", "conversion"} /\ f.alt \in BOOLEAN /\ f.esp \in Nat \ {0}
      /\ f.out \in Seq(OutChars)
  BY DEF PrintfStates
<1>2. Append(f.out, c) \in Seq(OutChars)
  <2>1. c \in OutChars
    BY DEF OutChars
  <2>2. QED
    BY <1>1, <2>1
<1>3. CASE f.mode = "text" /\ c # "%"
  <2>1. PrintfStep(f, c) = [f EXCEPT !.out = Append(f.out, c)]
    BY <1>3 DEF PrintfStep
  <2>2. QED
    BY <1>1, <1>2, <1>3, <2>1 DEF PrintfStates
<1>4. CASE f.mode = "text" /\ c = "%"
  <2>1. PrintfStep(f, c) = [f EXCEPT !.mode = "conversion", !.alt = FALSE]
    BY <1>4 DEF PrintfStep
  <2>2. QED
    BY <1>1, <1>4, <2>1 DEF PrintfStates
<1>5. CASE f.mode = "conversion" /\ c = "#"
  <2>1. PrintfStep(f, c) = [f EXCEPT !.alt = TRUE]
    BY <1>5 DEF PrintfStep
  <2>2. QED
    BY <1>1, <1>5, <2>1 DEF PrintfStates
<1>6. CASE f.mode = "conversion" /\ c = "%"
  <2>1. PrintfStep(f, c) = [f EXCEPT !.mode = "text", !.out = Append(f.out, c)]
    BY <1>6 DEF PrintfStep
  <2>2. QED
    BY <1>1, <1>2, <1>6, <2>1 DEF PrintfStates
<1>7. CASE f.mode = "conversion" /\ c = "q"
  <2>1. PrintfStep(f, c) = [f EXCEPT !.mode = "text"]
    BY <1>7 DEF PrintfStep
  <2>2. QED
    BY <1>1, <1>7, <2>1 DEF PrintfStates
<1>8. CASE f.mode = "conversion" /\ c \in {"x", "u", "d", "c", "s"}
  <2>1. PICK v : v = Converted(c, f.alt, Stack[f.esp]) /\ v \in Seq(OutChars)
    BY <1>1, <1>8, ConvertedIs
  <2>2. PrintfStep(f, c) = [f EXCEPT !.mode = "text", !.out = f.out \o v,
                                     !.esp = f.esp + 1]
    <3>1. Takes(c) /\ c # "#" /\ c # "%"
      BY <1>8 DEF Takes
    <3>2. QED
      BY <1>8, <2>1, <3>1 DEF PrintfStep
  <2>3. f.out \o v \in Seq(OutChars)
    BY <1>1, <2>1, ConcatProperties
  <2>4. f.esp + 1 \in Nat \ {0}
    BY <1>1
  <2>5. PrintfStep(f, c) \in PrintfStates
    BY <1>1, <2>2, <2>3, <2>4 DEF PrintfStates
  <2>6. QED
    BY <1>8, <2>1, <2>2, <2>5
<1>9. c \in {"x", "u", "d", "c", "s", "q", "#", "%"}
  BY DEF InChars
<1>10. QED
  BY <1>1, <1>3, <1>4, <1>5, <1>6, <1>7, <1>8, <1>9

\* printf goes from state to state.
LEMMA PrintfRun ==
    ASSUME NEW s \in Seq(InChars)
    PROVE  \E g : PrintfGoes(g, s) /\ Prints(s) = g[Len(s)]
<1> DEFINE n == Len(s)
           Step(f, i) == PrintfStep(f, s[i])
           F == [p \in PrintfStates \X (1 .. n) |-> Step(p[1], p[2])]
           R(h) == h = [t \in SUBSET (1 .. n) |->
                          IF t = {} THEN PrintfStart ELSE Step(h[t \ {Max(t)}], Max(t))]
           H == CHOOSE h : R(h)
<1>1. Prints(s) = H[1 .. n]
  <2>1. DOMAIN s = 1 .. n
    OBVIOUS
  <2>2. QED
    BY <2>1 DEF Prints, FoldLeft, MapThenFoldSet
<1>2. n \in Nat /\ PrintfStart \in PrintfStates
  BY DEF PrintfStart, PrintfStates
<1>3. ASSUME NEW f \in PrintfStates, NEW i \in 1 .. n
      PROVE  Step(f, i) \in PrintfStates
  <2>1. s[i] \in InChars
    OBVIOUS
  <2>2. QED
    BY <2>1, PrintfStepIs
<1>4. F \in [PrintfStates \X (1 .. n) -> PrintfStates]
  <2> HIDE DEF n, Step
  <2>1. \A p \in PrintfStates \X (1 .. n) : Step(p[1], p[2]) \in PrintfStates
    BY <1>3
  <2>2. QED
    BY <2>1
<1> HIDE DEF n, Step
<1>5. \E h : R(h)
  <2>1. PICK h \in [SUBSET (1 .. n) -> PrintfStates] : FoldsBy(h, F, PrintfStart, n)
    <3> HIDE DEF F
    <3>1. QED
      BY <1>2, <1>4, FoldExists
  <2>2. ASSUME NEW t \in SUBSET (1 .. n), t # {}
        PROVE  F[<<h[t \ {Max(t)}], Max(t)>>] = Step(h[t \ {Max(t)}], Max(t))
    <3>1. Max(t) \in 1 .. n
      BY <1>2, <2>2, MaxOf
    <3>2. t \ {Max(t)} \in SUBSET (1 .. n)
      OBVIOUS
    <3>3. h[t \ {Max(t)}] \in PrintfStates
      BY <2>1, <3>2
    <3>4. QED
      BY <3>1, <3>3
  <2>3. [t \in SUBSET (1 .. n) |-> IF t = {} THEN PrintfStart
             ELSE F[<<h[t \ {Max(t)}], Max(t)>>]]
        = [t \in SUBSET (1 .. n) |-> IF t = {} THEN PrintfStart
             ELSE Step(h[t \ {Max(t)}], Max(t))]
    <3> HIDE DEF F
    <3>1. QED
      BY <2>2
  <2>4. R(h)
    <3> HIDE DEF F
    <3>1. QED
      BY <2>1, <2>3 DEF FoldsBy
  <2>5. QED
    BY <2>4
<1>6. R(H)
  <2> HIDE DEF R
  <2>1. QED
    BY <1>5
<1> HIDE DEF H
<1>7. PICK g : RunOf(g, F, PrintfStates, PrintfStart, n) /\ g[n] = H[1 .. n]
  <2>1. {} \in SUBSET (1 .. n)
    OBVIOUS
  <2>2. H[{}] = PrintfStart
    BY <1>6, <2>1
  <2>3. ASSUME NEW t \in SUBSET (1 .. n), t # {}, H[t \ {Max(t)}] \in PrintfStates
        PROVE  H[t] = F[<<H[t \ {Max(t)}], Max(t)>>]
    <3>1. Max(t) \in 1 .. n
      BY <1>2, <2>3, MaxOf
    <3>2. H[t] = Step(H[t \ {Max(t)}], Max(t))
      BY <1>6, <2>3
    <3>3. QED
      BY <2>3, <3>1, <3>2
  <2> HIDE DEF F, R
  <2>4. Folding(H, F, PrintfStates, PrintfStart, n)
    BY <1>2, <1>4, <2>2, <2>3 DEF Folding
  <2>5. QED
    BY <2>4, FoldRun, SMT
<1>8. \A k \in 1 .. n : k - 1 \in 0 .. n
  BY <1>2
<1>9. \A k \in 1 .. n : g[k] = Step(g[k - 1], k)
  BY <1>7, <1>8 DEF RunOf
<1>10. PrintfGoes(g, s)
  BY <1>7, <1>9 DEF RunOf, PrintfGoes, n, Step
<1>11. QED
  BY <1>1, <1>7, <1>10 DEF n

\* It takes one character after the other.
LEMMA PrintsMore ==
    ASSUME NEW s \in Seq(InChars), NEW c \in InChars
    PROVE  /\ Prints(s) \in PrintfStates
           /\ s \o <<c>> \in Seq(InChars)
           /\ Prints(s \o <<c>>) = PrintfStep(Prints(s), c)
<1>1. PICK n \in Nat : n = Len(s)
  OBVIOUS
<1>2. PICK t : t = s \o <<c>>
  OBVIOUS
<1>3. /\ t \in Seq(InChars) /\ Len(t) = n + 1 /\ t[n + 1] = c
      /\ \A i \in 1 .. n : t[i] = s[i]
  <2>1. <<c>> \in Seq(InChars) /\ Len(<<c>>) = 1 /\ <<c>>[1] = c
    OBVIOUS
  <2>2. /\ t \in Seq(InChars) /\ Len(t) = n + 1
        /\ \A i \in 1 .. n + 1 : t[i] = IF i <= n THEN s[i] ELSE <<c>>[i - n]
    BY <1>1, <1>2, <2>1, ConcatProperties
  <2>3. n + 1 \in 1 .. n + 1 /\ ~(n + 1 <= n) /\ (n + 1) - n = 1
        /\ \A i \in 1 .. n : i \in 1 .. n + 1 /\ i <= n
    BY <1>1
  <2>4. QED
    BY <2>1, <2>2, <2>3
<1>4. PICK g : PrintfGoes(g, s) /\ Prints(s) = g[n]
  BY <1>1, PrintfRun
<1>5. PICK h : PrintfGoes(h, t) /\ Prints(t) = h[n + 1]
  BY <1>3, PrintfRun
<1>6. \A k \in 0 .. n : k \in {j \in 0 .. n : g[j] = h[j]}
  <2> DEFINE S == {j \in 0 .. n : g[j] = h[j]}
  <2>1. 0 \in S
    BY <1>1, <1>4, <1>5 DEF PrintfGoes
  <2>2. ASSUME NEW k \in 1 .. n, k - 1 \in S PROVE k \in S
    <3>1. g[k - 1] = h[k - 1] /\ k \in 0 .. n /\ k \in 1 .. n + 1
      BY <1>1, <2>2
    <3>2. g[k] = PrintfStep(g[k - 1], s[k])
      BY <1>1, <1>4 DEF PrintfGoes
    <3>3. h[k] = PrintfStep(h[k - 1], t[k])
      BY <1>3, <1>5, <3>1 DEF PrintfGoes
    <3>4. t[k] = s[k]
      BY <1>3
    <3>5. g[k] = h[k]
      BY <3>1, <3>2, <3>3, <3>4
    <3>6. QED
      BY <3>1, <3>5
  <2> HIDE DEF S
  <2>3. \A k \in 0 .. n : k \in S
    BY <1>1, <2>1, <2>2, AlongRun
  <2>4. QED
    BY <2>3 DEF S
<1>7. n \in 0 .. n /\ n + 1 \in 1 .. n + 1 /\ (n + 1) - 1 = n
  BY <1>1
<1>8. g[n] = h[n]
  BY <1>6, <1>7
<1>9. h[n + 1] = PrintfStep(h[n], c)
  BY <1>3, <1>5, <1>7 DEF PrintfGoes
<1>10. g[n] \in PrintfStates
  BY <1>1, <1>4, <1>7 DEF PrintfGoes
<1>11. QED
  BY <1>2, <1>3, <1>4, <1>5, <1>8, <1>9, <1>10

\* Before the first character, it has printed nothing.
LEMMA PrintsNone == Prints(<< >>) = PrintfStart
<1>1. << >> \in Seq(InChars) /\ Len(<< >>) = 0
  OBVIOUS
<1>2. PICK g : PrintfGoes(g, << >>) /\ Prints(<< >>) = g[0]
  BY <1>1, PrintfRun
<1>3. QED
  BY <1>2 DEF PrintfGoes

\* The parts of a format that take a word of the stack
TakesWord(t) == Len(t) > 1 /\ t[2] \notin {"%", "q"}

\* What a part of a format adds to what is printed before it
Part(f, h, t) ==
    /\ f \in PrintfStates /\ h \in PrintfStates
    /\ h.mode = "text"
    /\ h.out = f.out \o Meant(t, Stack[f.esp])
    /\ h.esp = IF TakesWord(t) THEN f.esp + 1 ELSE f.esp
    /\ Meant(t, Stack[f.esp]) \in Seq(OutChars)

\* What each part of a format means
LEMMA MeantIs ==
    ASSUME NEW e
    PROVE  /\ Meant(<<"x">>, e) = <<"x">> /\ ~TakesWord(<<"x">>)
           /\ Meant(<<"%", "%">>, e) = <<"%">> /\ ~TakesWord(<<"%", "%">>)
           /\ Meant(<<"%", "q">>, e) = << >> /\ ~TakesWord(<<"%", "q">>)
           /\ \A c \in {"x", "u", "d", "c", "s"} :
                 /\ Meant(<<"%", c>>, e) = Converted(c, FALSE, e) /\ TakesWord(<<"%", c>>)
                 /\ Meant(<<"%", "#", c>>, e) = Converted(c, TRUE, e)
                 /\ TakesWord(<<"%", "#", c>>)
<1>1. /\ <<"x">> # <<"%", "%">> /\ <<"x">> # <<"%", "q">> /\ <<"%", "q">> # <<"%", "%">>
      /\ Len(<<"x">>) = 1
  OBVIOUS
<1>2. Meant(<<"x">>, e) = <<"x">> /\ Meant(<<"%", "%">>, e) = <<"%">>
      /\ Meant(<<"%", "q">>, e) = << >>
  BY <1>1 DEF Meant
<1>3. ~TakesWord(<<"x">>) /\ ~TakesWord(<<"%", "%">>) /\ ~TakesWord(<<"%", "q">>)
  BY DEF TakesWord
<1>4. ASSUME NEW c \in {"x", "u", "d", "c", "s"}
      PROVE  Meant(<<"%", c>>, e) = Converted(c, FALSE, e) /\ TakesWord(<<"%", c>>)
  <2>1. <<"%", c>> # <<"%", "%">> /\ <<"%", c>> # <<"%", "q">> /\ <<"%", c>> # <<"x">>
        /\ Len(<<"%", c>>) = 2 /\ <<"%", c>>[2] = c /\ c # "%" /\ c # "q"
    OBVIOUS
  <2>2. Meant(<<"%", c>>, e) = Converted(c, Len(<<"%", c>>) = 3, e)
    BY <2>1 DEF Meant
  <2>3. (Len(<<"%", c>>) = 3) = FALSE
    BY <2>1
  <2>4. TakesWord(<<"%", c>>)
    BY <2>1 DEF TakesWord
  <2>5. QED
    BY <2>2, <2>3, <2>4, Zenon
<1>5. ASSUME NEW c \in {"x", "u", "d", "c", "s"}
      PROVE  /\ Meant(<<"%", "#", c>>, e) = Converted(c, TRUE, e)
             /\ TakesWord(<<"%", "#", c>>)
  <2>1. /\ <<"%", "#", c>> # <<"%", "%">> /\ <<"%", "#", c>> # <<"%", "q">>
        /\ <<"%", "#", c>> # <<"x">>
        /\ Len(<<"%", "#", c>>) = 3 /\ <<"%", "#", c>>[3] = c /\ <<"%", "#", c>>[2] = "#"
    OBVIOUS
  <2>2. Meant(<<"%", "#", c>>, e) = Converted(c, Len(<<"%", "#", c>>) = 3, e)
    BY <2>1 DEF Meant
  <2>3. (Len(<<"%", "#", c>>) = 3) = TRUE
    BY <2>1
  <2>4. TakesWord(<<"%", "#", c>>)
    BY <2>1 DEF TakesWord
  <2>5. QED
    BY <2>2, <2>3, <2>4, Zenon
<1>6. QED
  BY <1>2, <1>3, <1>4, <1>5

\* Behind s, in a conversion, printf has printed and taken what it had at f.
Converting(s, f, a) ==
    /\ s \in Seq(InChars) /\ Prints(s) \in PrintfStates
    /\ Prints(s).mode = "conversion" /\ Prints(s).alt = a
    /\ Prints(s).esp = f.esp /\ Prints(s).out = f.out

\* printf prints a part of a format as it is meant, and is done with it.
LEMMA PrintsToken ==
    ASSUME NEW s \in Seq(InChars), NEW t \in Tokens, Prints(s).mode = "text"
    PROVE  s \o t \in Seq(InChars) /\ Part(Prints(s), Prints(s \o t), t)
<1>1. PICK f : f = Prints(s) /\ f \in PrintfStates /\ f.mode = "text"
  <2>1. Prints(s) \in PrintfStates
    BY PrintsMore DEF InChars
  <2>2. QED
    BY <2>1
<1>2. /\ f.out \in Seq(OutChars) /\ f.esp \in Nat \ {0}
      /\ \A c : Append(f.out, c) = f.out \o <<c>>
  BY <1>1 DEF PrintfStates
<1>3. PICK e : e = Stack[f.esp]
  OBVIOUS
<1>4. "%" \in InChars /\ "#" \in InChars /\ "x" \in InChars /\ "%" \in OutChars
      /\ "x" \in OutChars
  BY DEF InChars, OutChars
<1>5. CASE t = <<"x">>
  <2>1. s \o t \in Seq(InChars) /\ Prints(s \o t) = PrintfStep(f, "x")
    BY <1>1, <1>4, <1>5, PrintsMore
  <2>2. PrintfStep(f, "x") = [f EXCEPT !.out = Append(f.out, "x")]
        /\ PrintfStep(f, "x") \in PrintfStates
    BY <1>1, <1>4, PrintfStepIs
  <2>3. PICK h : h = Prints(s \o t) /\ h \in PrintfStates
                 /\ h = [f EXCEPT !.out = Append(f.out, "x")]
    BY <2>1, <2>2
  <2>4. h.mode = "text" /\ h.esp = f.esp /\ h.out = f.out \o <<"x">>
    BY <1>1, <1>2, <2>3 DEF PrintfStates
  <2>5. Meant(t, e) = <<"x">> /\ ~TakesWord(t) /\ <<"x">> \in Seq(OutChars)
    <3>1. Meant(<<"x">>, e) = <<"x">> /\ ~TakesWord(<<"x">>)
      BY MeantIs
    <3>2. <<"x">> \in Seq(OutChars)
      BY <1>4
    <3>3. QED
      BY <1>5, <3>1, <3>2, Zenon
  <2>6. Part(f, h, t)
    BY <1>1, <1>3, <2>3, <2>4, <2>5 DEF Part
  <2>7. QED
    BY <1>1, <2>1, <2>3, <2>6
<1>6. PICK s1 : s1 = s \o <<"%">> /\ Converting(s1, f, FALSE)
  <2>1. s \o <<"%">> \in Seq(InChars) /\ Prints(s \o <<"%">>) = PrintfStep(f, "%")
    BY <1>1, <1>4, PrintsMore
  <2>2. PrintfStep(f, "%") = [f EXCEPT !.mode = "conversion", !.alt = FALSE]
        /\ PrintfStep(f, "%") \in PrintfStates
    BY <1>1, <1>4, PrintfStepIs
  <2>3. PICK h : h = PrintfStep(f, "%") /\ h \in PrintfStates
                 /\ h = [f EXCEPT !.mode = "conversion", !.alt = FALSE]
    BY <2>2
  <2>4. h.mode = "conversion" /\ h.alt = FALSE /\ h.esp = f.esp /\ h.out = f.out
    BY <1>1, <2>3 DEF PrintfStates
  <2>5. Converting(s \o <<"%">>, f, FALSE)
    BY <2>1, <2>3, <2>4, Zenon DEF Converting
  <2>6. QED
    BY <2>5
<1>7. \A c \in InChars : s \o <<"%", c>> = s1 \o <<c>>
  <2> SUFFICES ASSUME NEW c \in InChars PROVE s \o <<"%", c>> = s1 \o <<c>>
    OBVIOUS
  <2>1. <<"%">> \in Seq(InChars) /\ <<c>> \in Seq(InChars)
    BY <1>4
  <2>2. (s \o <<"%">>) \o <<c>> = s \o (<<"%">> \o <<c>>)
    BY <2>1, ConcatAssociative
  <2>3. <<"%">> \o <<c>> = <<"%", c>>
    BY <1>4, Joined
  <2>4. QED
    BY <1>6, <2>2, <2>3
<1>8. ASSUME NEW c \in {"%", "q"}, t = <<"%", c>>
      PROVE  s \o t \in Seq(InChars) /\ Part(f, Prints(s \o t), t)
  <2>1. c \in InChars
    BY DEF InChars
  <2>2. PICK g : /\ g = Prints(s1) /\ g \in PrintfStates /\ g.mode = "conversion"
                 /\ g.esp = f.esp /\ g.out = f.out /\ s1 \in Seq(InChars)
    BY <1>6 DEF Converting
  <2>3. s \o t \in Seq(InChars) /\ Prints(s \o t) = PrintfStep(g, c)
    BY <1>7, <1>8, <2>1, <2>2, PrintsMore
  <2>4. PICK h : h = Prints(s \o t) /\ h \in PrintfStates /\ h = PrintfStep(g, c)
    BY <2>1, <2>2, <2>3, PrintfStepIs
  <2>5. CASE c = "%"
    <3>1. h = [g EXCEPT !.mode = "text", !.out = Append(g.out, c)]
      BY <2>1, <2>2, <2>4, <2>5, PrintfStepIs
    <3>2. h.mode = "text" /\ h.esp = f.esp /\ h.out = f.out \o <<"%">>
      BY <1>2, <2>2, <2>5, <3>1 DEF PrintfStates
    <3>3. Meant(<<"%", "%">>, e) = <<"%">> /\ ~TakesWord(<<"%", "%">>)
      BY MeantIs
    <3>4. <<"%">> \in Seq(OutChars)
      BY <1>4
    <3>5. Meant(t, e) = <<"%">> /\ ~TakesWord(t)
      BY <1>8, <2>5, <3>3, Zenon
    <3>6. Part(f, h, t)
      BY <1>1, <1>3, <2>4, <3>2, <3>4, <3>5 DEF Part
    <3>7. QED
      BY <2>3, <2>4, <3>6
  <2>6. CASE c = "q"
    <3>1. h = [g EXCEPT !.mode = "text"]
      BY <2>1, <2>2, <2>4, <2>6, PrintfStepIs
    <3>2. h.mode = "text" /\ h.esp = f.esp /\ h.out = f.out
      BY <2>2, <3>1 DEF PrintfStates
    <3>3. Meant(<<"%", "q">>, e) = << >> /\ ~TakesWord(<<"%", "q">>)
      BY MeantIs
    <3>4. << >> \in Seq(OutChars)
      OBVIOUS
    <3>5. Meant(t, e) = << >> /\ ~TakesWord(t)
      BY <1>8, <2>6, <3>3, Zenon
    <3>6. f.out \o << >> = f.out
      BY <1>2, ConcatEmptySeq
    <3>7. Part(f, h, t)
      BY <1>1, <1>3, <2>4, <3>2, <3>4, <3>5, <3>6 DEF Part
    <3>8. QED
      BY <2>3, <2>4, <3>7
  <2>7. QED
    BY <2>5, <2>6
<1>9. ASSUME NEW c \in {"x", "u", "d", "c", "s"}, NEW z, NEW a \in BOOLEAN,
             Converting(z, f, a), s \o t = z \o <<c>>,
             Meant(t, e) = Converted(c, a, e), TakesWord(t)
      PROVE  s \o t \in Seq(InChars) /\ Part(f, Prints(s \o t), t)
  <2>1. c \in InChars
    BY DEF InChars
  <2>2. PICK g : /\ g = Prints(z) /\ g \in PrintfStates /\ g.mode = "conversion"
                 /\ g.alt = a /\ g.esp = f.esp /\ g.out = f.out /\ z \in Seq(InChars)
    BY <1>9, Zenon DEF Converting
  <2>3. s \o t \in Seq(InChars) /\ Prints(s \o t) = PrintfStep(g, c)
    BY <1>9, <2>1, <2>2, PrintsMore
  <2>4. PICK v : v = Converted(c, a, e) /\ v \in Seq(OutChars)
    BY <1>2, <1>3, ConvertedIs
  <2>5. v = Converted(c, g.alt, Stack[g.esp])
    BY <1>3, <2>2, <2>4, Zenon
  <2>6. PrintfStep(g, c) \in PrintfStates
        /\ PrintfStep(g, c) = [g EXCEPT !.mode = "text",
                                        !.out = g.out \o Converted(c, g.alt, Stack[g.esp]),
                                        !.esp = g.esp + 1]
    BY <2>1, <2>2, PrintfStepIs
  <2>7. PICK h : h = Prints(s \o t) /\ h \in PrintfStates
                 /\ h = [g EXCEPT !.mode = "text", !.out = g.out \o v, !.esp = g.esp + 1]
    BY <2>3, <2>5, <2>6, Zenon
  <2>8. h.mode = "text" /\ h.esp = f.esp + 1 /\ h.out = f.out \o v
    BY <2>2, <2>7 DEF PrintfStates
  <2>9. Meant(t, e) = v
    BY <1>9, <2>4, Zenon
  <2>10. Part(f, h, t)
    BY <1>1, <1>3, <1>9, <2>4, <2>7, <2>8, <2>9 DEF Part
  <2>11. QED
    BY <2>3, <2>7, <2>10
<1>10. ASSUME NEW c \in {"x", "u", "d", "c", "s"}, t = <<"%", c>>
       PROVE  s \o t \in Seq(InChars) /\ Part(f, Prints(s \o t), t)
  <2>1. c \in InChars
    BY DEF InChars
  <2>2. Meant(t, e) = Converted(c, FALSE, e) /\ TakesWord(t)
    <3>1. Meant(<<"%", c>>, e) = Converted(c, FALSE, e) /\ TakesWord(<<"%", c>>)
      BY MeantIs
    <3>2. QED
      BY <1>10, <3>1, Zenon
  <2>3. s \o t = s1 \o <<c>>
    BY <1>7, <1>10, <2>1
  <2>4. QED
    BY <1>6, <1>9, <2>2, <2>3, Zenon
<1>11. ASSUME NEW c \in {"x", "d"}, t = <<"%", "#", c>>
       PROVE  s \o t \in Seq(InChars) /\ Part(f, Prints(s \o t), t)
  <2>1. c \in InChars /\ c \in {"x", "u", "d", "c", "s"}
    BY DEF InChars
  <2>2. PICK s2 : s2 = s1 \o <<"#">> /\ Converting(s2, f, TRUE)
    <3>1. PICK g : /\ g = Prints(s1) /\ g \in PrintfStates /\ g.mode = "conversion"
                   /\ g.esp = f.esp /\ g.out = f.out /\ s1 \in Seq(InChars)
      BY <1>6 DEF Converting
    <3>2. s1 \o <<"#">> \in Seq(InChars) /\ Prints(s1 \o <<"#">>) = PrintfStep(g, "#")
      BY <1>4, <3>1, PrintsMore
    <3>3. PICK h : h = PrintfStep(g, "#") /\ h \in PrintfStates
                   /\ h = [g EXCEPT !.alt = TRUE]
      BY <1>4, <3>1, PrintfStepIs
    <3>4. h.mode = "conversion" /\ h.alt = TRUE /\ h.esp = f.esp /\ h.out = f.out
      BY <3>1, <3>3 DEF PrintfStates
    <3>5. Converting(s1 \o <<"#">>, f, TRUE)
      BY <3>2, <3>3, <3>4, Zenon DEF Converting
    <3>6. QED
      BY <3>5
  <2>3. s \o t = s2 \o <<c>>
    <3>1. <<"%">> \in Seq(InChars) /\ <<c>> \in Seq(InChars) /\ <<"#">> \in Seq(InChars)
          /\ <<"%", "#">> \in Seq(InChars)
      BY <1>4, <2>1
    <3>2. (s \o <<"%", "#">>) \o <<c>> = s \o (<<"%", "#">> \o <<c>>)
      BY <3>1, ConcatAssociative
    <3>3. <<"%", "#">> \o <<c>> = <<"%", "#", c>>
      BY <1>4, <2>1, Joined
    <3>4. s \o <<"%", "#">> = s1 \o <<"#">>
      BY <1>4, <1>7
    <3>5. QED
      BY <1>11, <2>2, <3>2, <3>3, <3>4
  <2>4. Meant(t, e) = Converted(c, TRUE, e) /\ TakesWord(t)
    <3>1. Meant(<<"%", "#", c>>, e) = Converted(c, TRUE, e) /\ TakesWord(<<"%", "#", c>>)
      BY <2>1, MeantIs
    <3>2. QED
      BY <1>11, <3>1, Zenon
  <2>5. QED
    BY <1>9, <2>1, <2>2, <2>3, <2>4, Zenon
<1>12. \/ t = <<"x">> \/ (\E c \in {"%", "q"} : t = <<"%", c>>)
       \/ (\E c \in {"x", "u", "d", "c", "s"} : t = <<"%", c>>)
       \/ (\E c \in {"x", "d"} : t = <<"%", "#", c>>)
  BY DEF Tokens
<1>13. QED
  BY <1>1, <1>5, <1>8, <1>10, <1>11, <1>12

-----------------------------------------------------------------------------
(***************************************************************************)
(* What printf prints of a whole format                                    *)
(***************************************************************************)
\* The parts up to k that consume a word, and one more
LEMMA ConsumedStep ==
    ASSUME NEW t, NEW k \in Nat
    PROVE  /\ Consumed(t, 0) = 0 /\ Consumed(t, k) \in Nat
           /\ Consumed(t, k + 1) = IF TakesWord(t[k + 1]) THEN Consumed(t, k) + 1
                                   ELSE Consumed(t, k)
<1> DEFINE S(n) == {i \in 1 .. n : Len(t[i]) > 1 /\ t[i][2] \notin {"%", "q"}}
<1>1. \A n : Consumed(t, n) = Cardinality(S(n))
  BY DEF Consumed
<1>2. S(0) = {}
  OBVIOUS
<1>3. IsFiniteSet(S(k))
  <2>1. IsFiniteSet(1 .. k)
    BY FS_Interval
  <2>2. S(k) \in SUBSET (1 .. k)
    OBVIOUS
  <2> HIDE DEF S
  <2>3. QED
    BY <2>1, <2>2, FS_Subset
<1>4. k + 1 \notin S(k)
  OBVIOUS
<1>5. S(k + 1) = IF TakesWord(t[k + 1]) THEN S(k) \cup {k + 1} ELSE S(k)
  <2>1. 1 .. k + 1 = (1 .. k) \cup {k + 1}
    OBVIOUS
  <2>2. QED
    BY <2>1, Zenon DEF TakesWord
<1> HIDE DEF S
<1>6. Cardinality(S(k)) \in Nat /\ Cardinality({}) = 0
  BY <1>3, FS_CardinalityType, FS_EmptySet
<1>7. Cardinality(S(k) \cup {k + 1}) = Cardinality(S(k)) + 1
  BY <1>3, <1>4, FS_AddElement
<1>8. QED
  BY <1>1, <1>2, <1>5, <1>6, <1>7

\* What the parts of format t are to be printed as
MeantOf(t) ==
    [i \in 1 .. Len(t) |-> Meant(t[i], Stack[1 + Consumed(t, i - 1)])]

\* Behind the first k parts, printf has printed what they mean and has taken the
\* words that they consume.
PrintedUpTo(t, k) ==
    /\ Flat(t, k) \in Seq(InChars)
    /\ \A i \in 1 .. k : MeantOf(t)[i] \in Seq(OutChars)
    /\ Prints(Flat(t, k)).mode = "text"
    /\ Prints(Flat(t, k)).out = Flat(MeantOf(t), k)
    /\ Prints(Flat(t, k)).esp = 1 + Consumed(t, k)

\* Parts of formats are made of the characters of formats.
LEMMA TokenChars == \A t \in Tokens : t \in Seq(InChars)
<1>1. "x" \in InChars /\ "%" \in InChars /\ "q" \in InChars /\ "#" \in InChars
      /\ "u" \in InChars /\ "d" \in InChars /\ "c" \in InChars /\ "s" \in InChars
  BY DEF InChars
<1>2. \A a, b, c \in InChars :
          <<a>> \in Seq(InChars) /\ <<a, b>> \in Seq(InChars) /\ <<a, b, c>> \in Seq(InChars)
  OBVIOUS
<1>3. ASSUME NEW t \in Tokens
      PROVE  \E a, b, c \in InChars : t = <<a>> \/ t = <<a, b>> \/ t = <<a, b, c>>
  <2>1. \/ t = <<"x">>
        \/ \E b \in {"%", "q", "x", "u", "d", "c", "s"} : t = <<"%", b>>
        \/ \E c \in {"x", "d"} : t = <<"%", "#", c>>
    BY DEF Tokens
  <2>2. QED
    BY <1>1, <2>1
<1>4. ASSUME NEW t \in Tokens PROVE t \in Seq(InChars)
  <2>1. PICK a, b, c \in InChars : t = <<a>> \/ t = <<a, b>> \/ t = <<a, b, c>>
    BY <1>3
  <2>2. /\ <<a>> \in Seq(InChars) /\ <<a, b>> \in Seq(InChars)
        /\ <<a, b, c>> \in Seq(InChars)
    BY <1>2
  <2>3. QED
    BY <2>1, <2>2, Zenon
<1>5. QED
  BY <1>4

\* One part more
LEMMA PrintedStep ==
    ASSUME NEW t, Len(t) \in Nat, \A i \in 1 .. Len(t) : t[i] \in Tokens,
           NEW k \in Nat, k + 1 <= Len(t), PrintedUpTo(t, k)
    PROVE  PrintedUpTo(t, k + 1)
<1>1. PICK m : m = MeantOf(t)
  OBVIOUS
<1>2. PICK s : s = Flat(t, k) /\ s \in Seq(InChars)
  BY DEF PrintedUpTo
<1>3. PICK p : p = t[k + 1] /\ p \in Tokens
  OBVIOUS
<1>4. Flat(t, k + 1) = s \o p
  <2>1. \A i \in 1 .. k + 1 : t[i] \in Seq(InChars)
    BY TokenChars
  <2>2. QED
    BY <1>2, <1>3, <2>1, FlatStep
<1>5. s \o p \in Seq(InChars) /\ Part(Prints(s), Prints(s \o p), p)
  <2>1. Prints(s).mode = "text"
    BY <1>2 DEF PrintedUpTo
  <2>2. QED
    BY <1>2, <1>3, <2>1, PrintsToken
<1>6. PICK f, h : f = Prints(s) /\ h = Prints(s \o p) /\ Part(f, h, p)
  BY <1>5
<1>7. f.out = Flat(m, k) /\ f.esp = 1 + Consumed(t, k)
  BY <1>1, <1>2, <1>6 DEF PrintedUpTo
<1>8. m[k + 1] = Meant(p, Stack[f.esp])
  <2>1. k + 1 \in 1 .. Len(t) /\ (k + 1) - 1 = k
    OBVIOUS
  <2>2. m[k + 1] = Meant(t[k + 1], Stack[1 + Consumed(t, (k + 1) - 1)])
    BY <1>1, <2>1 DEF MeantOf
  <2>3. QED
    BY <1>3, <1>7, <2>1, <2>2
<1>9. \A i \in 1 .. k + 1 : m[i] \in Seq(OutChars)
  <2>1. \A i \in 1 .. k + 1 : i \in 1 .. k \/ i = k + 1
    OBVIOUS
  <2>2. \A i \in 1 .. k : m[i] \in Seq(OutChars)
    BY <1>1 DEF PrintedUpTo
  <2>3. m[k + 1] \in Seq(OutChars)
    BY <1>6, <1>8 DEF Part
  <2>4. QED
    BY <2>1, <2>2, <2>3
<1>10. Flat(m, k + 1) = Flat(m, k) \o m[k + 1]
  BY <1>9, FlatStep
<1>11. h.mode = "text" /\ h.out = Flat(m, k + 1)
  BY <1>6, <1>7, <1>8, <1>10 DEF Part
<1>12. h.esp = 1 + Consumed(t, k + 1)
  <2>1. /\ Consumed(t, k) \in Nat
        /\ Consumed(t, k + 1) = IF TakesWord(p) THEN Consumed(t, k) + 1 ELSE Consumed(t, k)
    BY <1>3, ConsumedStep
  <2>2. h.esp = IF TakesWord(p) THEN f.esp + 1 ELSE f.esp
    BY <1>6 DEF Part
  <2>3. QED
    BY <1>7, <2>1, <2>2
<1>13. QED
  BY <1>1, <1>4, <1>5, <1>6, <1>9, <1>11, <1>12 DEF PrintedUpTo

\* printf prints what the parts of its format mean.
LEMMA PrintfMeant ==
    ASSUME NEW t \in Formats
    PROVE  printf(FlattenSeq(t)) = FlattenSeq(MeantOf(t))
<1>1. PICK n \in Nat : t \in [1 .. n -> Tokens]
  <2>1. MaxTokens \in Nat
    BY LibAssumption
  <2>2. PICK n \in 0 .. MaxTokens : t \in [1 .. n -> Tokens]
    BY DEF Formats
  <2>3. n \in Nat
    BY <2>1
  <2>4. QED
    BY <2>2, <2>3
<1>2. Len(t) = n /\ t = [i \in 1 .. n |-> t[i]] /\ \A i \in 1 .. n : t[i] \in Tokens
  BY <1>1
<1> DEFINE S == {k \in 0 .. n : PrintedUpTo(t, k)}
<1>3. 0 \in S
  <2>1. Flat(t, 0) = << >> /\ Flat(MeantOf(t), 0) = << >>
    BY FlatEmpty
  <2>2. Consumed(t, 0) = 0
    BY ConsumedStep
  <2>3. << >> \in Seq(InChars) /\ 0 \in 0 .. n /\ 1 .. 0 = {}
    BY <1>1
  <2>4. Prints(<< >>).mode = "text" /\ Prints(<< >>).out = << >> /\ Prints(<< >>).esp = 1
    BY PrintsNone DEF PrintfStart
  <2>5. \A i \in 1 .. 0 : MeantOf(t)[i] \in Seq(OutChars)
    BY <2>3
  <2>6. Prints(<< >>).esp = 1 + Consumed(t, 0)
    BY <2>2, <2>4
  <2>7. PrintedUpTo(t, 0)
    BY <2>1, <2>3, <2>4, <2>5, <2>6, Zenon DEF PrintedUpTo
  <2>8. QED
    BY <2>3, <2>7
<1>4. ASSUME NEW k \in 1 .. n, k - 1 \in S PROVE k \in S
  <2>1. PICK j \in Nat : j = k - 1 /\ k = j + 1 /\ j + 1 <= n
    BY <1>1
  <2>2. PrintedUpTo(t, j)
    BY <1>4, <2>1
  <2>3. PrintedUpTo(t, j + 1)
    BY <1>2, <2>1, <2>2, PrintedStep
  <2>4. k \in 0 .. n
    BY <1>1
  <2>5. QED
    BY <2>1, <2>3, <2>4
<1>5. PrintedUpTo(t, n)
  <2> HIDE DEF S
  <2>1. \A k \in 0 .. n : k \in S
    BY <1>1, <1>3, <1>4, AlongRun
  <2>2. n \in 0 .. n
    BY <1>1
  <2>3. QED
    BY <2>1, <2>2 DEF S
<1>6. FlattenSeq(t) = Flat(t, n)
  BY <1>2 DEF Flat
<1>7. FlattenSeq(MeantOf(t)) = Flat(MeantOf(t), n)
  <2>1. MeantOf(t) = [i \in 1 .. n |-> MeantOf(t)[i]]
    BY <1>2 DEF MeantOf
  <2>2. QED
    BY <2>1 DEF Flat
<1>8. printf(FlattenSeq(t)) = Prints(FlattenSeq(t)).out
  BY DEF printf, Prints, PrintfStart
<1>9. QED
  BY <1>5, <1>6, <1>7, <1>8 DEF PrintedUpTo

\* Every call prints what it should.
LEMMA CallPrints ==
    ASSUME LibCall
    PROVE  PrintfPrints'
<1>1. CASE CallPrintf
  <2>1. PICK t \in Formats :
            call' = [fn |-> "printf", tokens |-> t, out |-> printf(FlattenSeq(t))]
    BY <1>1 DEF CallPrintf
  <2>2. call'.fn = "printf" /\ call'.tokens = t /\ call'.out = FlattenSeq(MeantOf(t))
    BY <2>1, PrintfMeant
  <2>3. call'.out = FlattenSeq([i \in 1 .. Len(call'.tokens) |->
              Meant(call'.tokens[i], Stack[1 + Consumed(call'.tokens, i - 1)])])
    BY <2>2 DEF MeantOf
  <2>4. QED
    BY <2>2, <2>3 DEF PrintfPrints
<1>2. CASE CallNumbers
  <2>1. PICK u \in 0 .. Words - 1 :
            call' = [fn |-> "numbers", word |-> u, hex |-> itoa(u, 16),
                     padded |-> ZeroPadded(itoa(u, 16)), unsigned |-> itoa(u, 10),
                     signed |-> SignedDecimal(u)]
    BY <1>2 DEF CallNumbers
  <2>2. PICK c : c = call'
    OBVIOUS
  <2>3. Faithful(c) /\ c.fn = "numbers"
    <3>1. c = [fn |-> "numbers", word |-> u, hex |-> itoa(u, 16),
               padded |-> ZeroPadded(itoa(u, 16)), unsigned |-> itoa(u, 10),
               signed |-> SignedDecimal(u)]
      BY <2>1, <2>2
    <3>2. Faithful(c)
      BY <3>1, NumbersFaithful
    <3>3. QED
      BY <3>1, <3>2
  <2>4. QED
    BY <2>2, <2>3 DEF PrintfPrints
<1>3. CASE CallMemset \/ CallMemcpy \/ CallMemmove \/ CallStrcpy \/ CallStrncpy
  <2>1. call'.fn \in {"memset", "memcpy", "memmove", "strcpy", "strncpy"}
    BY <1>3 DEF CallMemset, CallMemcpy, CallMemmove, CallStrcpy, CallStrncpy
  <2>2. QED
    BY <2>1 DEF PrintfPrints
<1>4. QED
  BY <1>1, <1>2, <1>3 DEF LibCall

\* Every format is printed as its parts ask for, each conversion with a word of
\* its own, however many they are; and every number of up to 32 bits, in hex, in
\* hex padded to its width, unsigned or signed, is printed as the numeral that
\* stands for it (lib.c:89-209, 452-501).
THEOREM PrintfTheorem == MCSpec => []PrintfPrints
<1>1. MCInit => PrintfPrints
  BY DEF MCInit, LibInit, NoCall, PrintfPrints
<1>2. PrintfPrints /\ [MCNext]_<<vars, call>> => PrintfPrints'
  <2> SUFFICES ASSUME PrintfPrints, [MCNext]_<<vars, call>> PROVE PrintfPrints'
    OBVIOUS
  <2>1. CASE UNCHANGED call
    BY <2>1 DEF PrintfPrints
  <2>2. CASE LibCall
    BY <2>2, CallPrints
  <2>3. QED
    BY <2>1, <2>2 DEF MCNext
<1>3. QED
  BY <1>1, <1>2, PTL DEF MCSpec
================================================================================
