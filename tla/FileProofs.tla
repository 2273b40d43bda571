------------------------------- MODULE FileProofs -------------------------------
(***************************************************************************)
(* Proofs about FileSystem and Programs, for any disk image, any sizes of  *)
(* blocks and buffers and any sequence of calls: read_data returns the     *)
(* bytes asked for, reads of a descriptor are consecutive, a directory is  *)
(* listed in full, cat and ls write all they should, grep finds every line *)
(* with the pattern, and the tests of syserr pass.                         *)
(***************************************************************************)
EXTENDS Programs, SequenceLemmas

-----------------------------------------------------------------------------
(***************************************************************************)
(* read_data                                                               *)
(***************************************************************************)
\* What the assumption says of the mounted image.
LEMMA ImageShape ==
    ASSUME image \in Images
    PROVE  /\ \A i \in 1 .. Len(image.dir) :
                 /\ image.dir[i].name \in Seq(Range(image.dir[i].name))
                 /\ Len(image.dir[i].name) \in 1 .. FILENAME_LEN
                 /\ image.dir[i].type \in {RtcType, DirType, FileType}
                 /\ image.dir[i].inode \in DOMAIN image.inode
           /\ Len(image.dir) \in Nat
           /\ \A n \in DOMAIN image.inode :
                 /\ n \in Nat
                 /\ image.inode[n].length \in Nat
                 /\ image.inode[n].blocks \in Seq(Nat)
                 /\ Len(image.inode[n].blocks) * DATA_BLOCK_ENTRY_SIZE
                        >= image.inode[n].length
<1>1. image.dir \in Seq(Range(image.dir))
  BY FileSystemAssumption
<1>2. Len(image.dir) \in Nat
  BY <1>1
<1>3. ASSUME NEW i \in 1 .. Len(image.dir)
      PROVE  /\ image.dir[i].name \in Seq(Range(image.dir[i].name))
             /\ Len(image.dir[i].name) \in 1 .. FILENAME_LEN
             /\ image.dir[i].type \in {RtcType, DirType, FileType}
             /\ image.dir[i].inode \in DOMAIN image.inode
  BY FileSystemAssumption, Zenon
<1>4. ASSUME NEW n \in DOMAIN image.inode
      PROVE  /\ n \in 0 .. DENTRY_SIZE - 1
             /\ image.inode[n].length \in Nat
             /\ image.inode[n].blocks \in Seq(Nat)
             /\ Len(image.inode[n].blocks) * DATA_BLOCK_ENTRY_SIZE
                    >= image.inode[n].length
  BY FileSystemAssumption, Zenon
<1>5. 0 .. DENTRY_SIZE - 1 \subseteq Nat
  OBVIOUS
<1>6. QED
  BY <1>2, <1>3, <1>4, <1>5

\* The place on the disk of a byte of a file, counted from 0, and of several.
Byte(n, p) ==
    <<image.inode[n].blocks[(p \div DATA_BLOCK_ENTRY_SIZE) + 1],
      p % DATA_BLOCK_ENTRY_SIZE>>
Slice(n, from, to) == [i \in 1 .. to - from |-> Byte(n, from + i - 1)]

LEMMA SliceLength ==
    ASSUME NEW n, NEW from \in Int, NEW to \in Int, from <= to
    PROVE  Len(Slice(n, from, to)) = to - from
BY DEF Slice

LEMMA SliceConcat ==
    ASSUME NEW n, NEW from \in Int, NEW mid \in Int, NEW to \in Int,
           from <= mid, mid <= to
    PROVE  Slice(n, from, mid) \o Slice(n, mid, to) = Slice(n, from, to)
<1> DEFINE a == Slice(n, from, mid)
           b == Slice(n, mid, to)
           c == Slice(n, from, to)
<1>1. Len(a) = mid - from /\ Len(b) = to - mid /\ Len(c) = to - from
  BY SliceLength
<1>2. /\ \A i \in 1 .. mid - from : a[i] = Byte(n, from + i - 1)
      /\ \A i \in 1 .. to - mid : b[i] = Byte(n, mid + i - 1)
      /\ \A i \in 1 .. to - from : c[i] = Byte(n, from + i - 1)
  BY DEF Slice
<1> DEFINE S == {Byte(n, p) : p \in Int}
<1>3. a \in Seq(S) /\ b \in Seq(S) /\ c \in Seq(S)
  BY DEF Slice
<1> HIDE DEF a, b, c, S
<1>4. Len(a \o b) = to - from /\ a \o b \in Seq(S)
  BY <1>1, <1>3
<1>5. ASSUME NEW i \in 1 .. to - from
      PROVE  (a \o b)[i] = c[i]
  <2>1. CASE i <= mid - from
    BY <1>1, <1>2, <1>3, <2>1
  <2>2. CASE i > mid - from
    <3>1. i - (mid - from) \in 1 .. to - mid
      BY <2>2
    <3>2. (a \o b)[i] = b[i - (mid - from)]
      BY <1>1, <1>3, <2>2
    <3>3. b[i - (mid - from)] = Byte(n, mid + (i - (mid - from)) - 1)
      BY <1>2, <3>1
    <3>4. mid + (i - (mid - from)) - 1 = from + i - 1
      OBVIOUS
    <3>5. QED
      BY <1>2, <3>2, <3>3, <3>4
  <2>3. i <= mid - from \/ i > mid - from
    OBVIOUS
  <2>4. QED
    BY <2>1, <2>2, <2>3
<1>6. a \o b = c
  BY <1>1, <1>3, <1>4, <1>5, SeqEqual
<1>7. QED
  BY <1>6 DEF a, b, c

\* The bytes from one place to another in one block.
LEMMA BlockSlice ==
    ASSUME NEW n, NEW idx \in Nat,
           NEW a \in 0 .. DATA_BLOCK_ENTRY_SIZE, NEW b \in 0 .. DATA_BLOCK_ENTRY_SIZE
    PROVE  [i \in 1 .. b - a |-> <<image.inode[n].blocks[idx + 1], a + i - 1>>]
               = Slice(n, DATA_BLOCK_ENTRY_SIZE * idx + a, DATA_BLOCK_ENTRY_SIZE * idx + b)
<1> DEFINE B == DATA_BLOCK_ENTRY_SIZE
           at == B * idx
<1>1. B \in Nat \ {0} /\ at \in Nat
  BY FileSystemAssumption
<1>2. ASSUME NEW r \in 0 .. B - 1
      PROVE  Byte(n, at + r) = <<image.inode[n].blocks[idx + 1], r>>
  <2>1. (at + r) \div B = idx /\ (at + r) % B = r
    BY <1>1, DivUnique
  <2>2. QED
    BY <2>1 DEF Byte
<1> HIDE DEF at, B
<1>3. ASSUME NEW i \in 1 .. b - a
      PROVE  Byte(n, at + a + i - 1) = <<image.inode[n].blocks[idx + 1], a + i - 1>>
  <2>1. a + i - 1 \in 0 .. B - 1 /\ at + a + i - 1 = at + (a + i - 1)
    BY <1>1 DEF B
  <2>2. QED
    BY <1>2, <2>1
<1>4. (at + b) - (at + a) = b - a
  BY <1>1 DEF B
<1>5. Slice(n, at + a, at + b)
          = [i \in 1 .. b - a |-> <<image.inode[n].blocks[idx + 1], a + i - 1>>]
  BY <1>3, <1>4 DEF Slice
<1>6. QED
  BY <1>5 DEF at, B

\* read_data returns the bytes of the file between the offset and ReadEnd: the
\* pieces of its blocks fit together.
LEMMA ReadDataSlice ==
    ASSUME SoundImages, image \in Images, NEW n \in DOMAIN image.inode,
           NEW offset \in Nat, NEW length \in Nat
    PROVE  read_data(n, offset, length) =
               [ret   |-> Len(Slice(n, offset, ReadEnd(length, offset, image.inode[n].length))),
                bytes |-> Slice(n, offset, ReadEnd(length, offset, image.inode[n].length))]
<1> DEFINE B     == DATA_BLOCK_ENTRY_SIZE
           node  == image.inode[n]
           stop  == ReadEnd(length, offset, node.length)
           first == offset \div B
           final == stop \div B
           r0    == offset % B
           r1    == stop % B
           loop_start(idx) == IF idx = first THEN r0 ELSE 0
           loop_end(idx)   == IF idx = final THEN r1 ELSE B
           touched(idx)    == loop_start(idx) < loop_end(idx)
           piece(idx) == [i \in 1 .. loop_end(idx) - loop_start(idx) |->
                             <<node.blocks[idx + 1], loop_start(idx) + i - 1>>]
           seqs == [k \in 1 .. final - first + 1 |-> piece(first + k - 1)]
           base(k) == B * k
           upto(idx) == base(idx) + loop_end(idx)
<1>1. read_data(n, offset, length) =
          IF \E idx \in first .. final : touched(idx)
                                         /\ node.blocks[idx + 1] > DATA_BLOCK_SIZE
          THEN [ret |-> FAIL, bytes |-> << >>]
          ELSE [ret |-> Len(FlattenSeq(seqs)), bytes |-> FlattenSeq(seqs)]
  BY DEF read_data
<1>2. /\ B \in Nat \ {0} /\ node.length \in Nat /\ stop \in Nat /\ stop <= node.length
      /\ Len(node.blocks) \in Nat
  <2>1. B \in Nat \ {0} /\ node.length \in Nat /\ Len(node.blocks) \in Nat
    BY FileSystemAssumption, ImageShape
  <2> HIDE DEF B, node
  <2>2. QED
    BY <2>1 DEF ReadEnd
<1>3. /\ first \in Nat /\ r0 \in 0 .. B - 1 /\ offset = base(first) + r0
      /\ final \in Nat /\ r1 \in 0 .. B - 1 /\ stop = base(final) + r1
  <2> HIDE DEF B, stop
  <2>1. QED
    BY <1>2, DivMod
<1> HIDE DEF B, stop, first, final, node, r0, r1
<1>4. \A j, k \in Nat : j < k => base(j) + B <= base(k)
  BY <1>2, ProductGap
<1>5. \A k \in Nat : base(k) \in Nat
  BY <1>2
<1>12. \A k \in Nat \ {0} : base(k - 1) + B = base(k)
  BY <1>2
<1>13. base(Len(node.blocks)) >= node.length
  <2>1. Len(node.blocks) * B >= node.length
    BY ImageShape DEF B, node
  <2>2. B * Len(node.blocks) = Len(node.blocks) * B
    BY <1>2
  <2>3. QED
    BY <2>1, <2>2
<1>14. \A k : base(k) = DATA_BLOCK_ENTRY_SIZE * k
  BY DEF B
<1> HIDE DEF base
<1>6. ASSUME NEW idx \in Nat
      PROVE  loop_start(idx) \in 0 .. B /\ loop_end(idx) \in 0 .. B
  BY <1>2, <1>3
<1>7. ASSUME NEW idx \in Nat, idx <= final
      PROVE  upto(idx) \in Nat /\ upto(idx) <= stop
  <2>1. CASE idx = final
    BY <1>2, <1>3, <1>5, <1>7, <2>1
  <2>2. CASE idx # final
    <3>1. idx < final
      BY <1>3, <1>7, <2>2
    <3>2. base(idx) + B <= base(final)
      BY <1>3, <1>4, <3>1
    <3>3. upto(idx) = base(idx) + B
      BY <2>2
    <3>4. base(idx) \in Nat /\ base(final) \in Nat
      BY <1>3, <1>5
    <3>5. QED
      BY <1>2, <1>3, <3>2, <3>3, <3>4
  <2>3. QED
    BY <2>1, <2>2
<1>8. ASSUME NEW idx \in first .. final, touched(idx)
      PROVE  node.blocks[idx + 1] \in Nat /\ node.blocks[idx + 1] <= DATA_BLOCK_SIZE
  <2>1. idx \in Nat /\ idx <= final
    BY <1>3
  <2>2. base(idx) < upto(idx)
    <3>1. loop_start(idx) \in Nat /\ loop_end(idx) \in Nat
      BY <1>2, <1>6, <2>1
    <3> HIDE DEF loop_start, loop_end
    <3>2. QED
      BY <1>5, <1>8, <2>1, <3>1
  <2>3. upto(idx) \in Nat /\ upto(idx) <= stop
    BY <1>7, <2>1
  <2> HIDE DEF upto
  <2>4. base(idx) < base(Len(node.blocks))
    <3>1. base(idx) \in Nat /\ base(Len(node.blocks)) \in Nat
      BY <1>2, <1>5, <2>1
    <3>2. QED
      BY <1>2, <1>13, <2>2, <2>3, <3>1
  <2>5. ~(Len(node.blocks) < idx)
    <3>1. Len(node.blocks) < idx => base(Len(node.blocks)) + B <= base(idx)
      BY <1>2, <1>4, <2>1
    <3>2. QED
      <4>1. base(idx) \in Nat /\ base(Len(node.blocks)) \in Nat
        BY <1>2, <1>5, <2>1
      <4>2. QED
        BY <1>2, <2>4, <3>1, <4>1
  <2>6. idx # Len(node.blocks)
    BY <1>2, <1>5, <2>1, <2>4
  <2>7. idx + 1 \in 1 .. Len(node.blocks)
    BY <1>2, <2>1, <2>5, <2>6
  <2>8. node.blocks \in Seq(Nat)
    BY ImageShape DEF node
  <2>9. QED
    BY <2>7, <2>8 DEF SoundImages, node
<1>9. FlattenSeq(seqs) = Slice(n, offset, stop)
  <2>1. CASE final < first
    <3>1. base(final) + B <= base(first)
      BY <1>3, <1>4, <2>1
    <3>2. stop < offset
      <4>1. base(first) \in Nat /\ base(final) \in Nat
        BY <1>3, <1>5
      <4>2. QED
        BY <1>2, <1>3, <3>1, <4>1
    <3>3. Slice(n, offset, stop) = << >>
      BY <1>2, <3>2 DEF Slice
    <3>4. seqs = << >>
      <4> HIDE DEF piece
      <4>1. 1 .. final - first + 1 = {}
        BY <1>3, <2>1
      <4>2. QED
        BY <4>1
    <3>5. FlattenSeq(<< >>) = << >>
      BY DEF FlattenSeq
    <3>6. QED
      BY <3>3, <3>4, <3>5
  <2>2. CASE first <= final
    <3> DEFINE m == final - first + 1
               h == [k \in 1 .. m |-> Slice(n, offset, upto(first + k - 1))]
    <3>1. m \in Nat \ {0}
      BY <1>3, <2>2
    <3>2. \A idx \in Nat : piece(idx) = Slice(n, base(idx) + loop_start(idx), upto(idx))
      <4>1. ASSUME NEW idx \in Nat
            PROVE  piece(idx) = Slice(n, base(idx) + loop_start(idx), upto(idx))
        <5>1. loop_start(idx) \in 0 .. B /\ loop_end(idx) \in 0 .. B
          BY <1>6
        <5> HIDE DEF loop_start, loop_end
        <5>2. QED
          BY <1>14, <5>1, BlockSlice DEF B, node
      <4>2. QED
        BY <4>1
    <3>3. ASSUME NEW k \in 1 .. m
          PROVE  h[k] = IF k = 1 THEN seqs[k] ELSE h[k - 1] \o seqs[k]
      <4> DEFINE idx == first + k - 1
      <4>1. idx \in Nat /\ first <= idx /\ idx <= final /\ (idx = first <=> k = 1)
        BY <1>3
      <4>2. seqs[k] = Slice(n, base(idx) + loop_start(idx), upto(idx))
        BY <3>2, <4>1
      <4>3. CASE k = 1
        <5>1. base(idx) + loop_start(idx) = offset
          BY <1>3, <4>1, <4>3
        <5>2. QED
          BY <4>2, <4>3, <5>1
      <4>4. CASE k # 1
        <5>1. idx - 1 \in Nat /\ first + (k - 1) - 1 = idx - 1 /\ idx - 1 # final
              /\ k - 1 \in 1 .. m /\ idx # first /\ first < idx
          BY <1>3, <4>1, <4>4
        <5>2. base(idx - 1) + B = base(idx)
          <6>1. idx \in Nat \ {0}
            BY <1>3, <4>1, <5>1
          <6>2. QED
            BY <1>12, <6>1
        <5>3. upto(first + (k - 1) - 1) = base(idx)
          <6> HIDE DEF idx
          <6>1. upto(idx - 1) = base(idx)
            BY <5>1, <5>2
          <6>2. QED
            BY <5>1, <6>1
        <5>4. h[k - 1] = Slice(n, offset, base(idx))
          BY <5>1, <5>3
        <5>5. seqs[k] = Slice(n, base(idx), upto(idx))
          <6>1. loop_start(idx) = 0
            BY <5>1
          <6>2. base(idx) + loop_start(idx) = base(idx)
            BY <1>5, <4>1, <6>1
          <6>3. QED
            BY <4>2, <6>2
        <5>6. offset <= base(idx)
          <6>1. base(first) + B <= base(idx)
            BY <1>3, <1>4, <4>1, <5>1
          <6>2. base(first) \in Nat /\ base(idx) \in Nat
            BY <1>3, <1>5, <4>1
          <6>3. QED
            BY <1>2, <1>3, <6>1, <6>2
        <5>7. base(idx) <= upto(idx) /\ upto(idx) \in Nat /\ base(idx) \in Nat
          <6>1. base(idx) \in Nat /\ upto(idx) \in Nat /\ loop_end(idx) \in 0 .. B
            BY <1>5, <1>6, <1>7, <4>1
          <6> HIDE DEF loop_end, idx
          <6>2. QED
            BY <1>2, <6>1
        <5>8. Slice(n, offset, base(idx)) \o Slice(n, base(idx), upto(idx))
                  = Slice(n, offset, upto(idx))
          <6>1. offset \in Int /\ base(idx) \in Int /\ upto(idx) \in Int
            BY <5>7
          <6> HIDE DEF upto, idx
          <6>2. QED
            BY <5>6, <5>7, <6>1, SliceConcat, Zenon
        <5>9. QED
          BY <4>4, <5>4, <5>5, <5>8
      <4>5. QED
        BY <4>3, <4>4
    <3>5. Len(seqs) = m
      BY <3>1
    <3>6. FlattenSeq(seqs) = h[m]
      <4> HIDE DEF seqs, m
      <4> HIDE DEF h
      <4>1. QED
        BY <3>1, <3>3, <3>5, Flattened
    <3>7. h[m] = Slice(n, offset, stop)
      <4>1. m \in 1 .. m /\ first + m - 1 = final
        BY <1>3, <3>1
      <4>2. upto(final) = stop
        BY <1>3
      <4>3. QED
        BY <4>1, <4>2
    <3>8. QED
      BY <3>6, <3>7
  <2>3. QED
    BY <1>3, <2>1, <2>2
<1>10. ~ \E idx \in first .. final : touched(idx)
                                    /\ node.blocks[idx + 1] > DATA_BLOCK_SIZE
  <2>1. SUFFICES ASSUME NEW idx \in first .. final, touched(idx)
                 PROVE  ~(node.blocks[idx + 1] > DATA_BLOCK_SIZE)
    OBVIOUS
  <2>2. node.blocks[idx + 1] \in Nat /\ node.blocks[idx + 1] <= DATA_BLOCK_SIZE
    BY <1>8, <2>1
  <2>3. QED
    BY <2>2, FileSystemAssumption
<1>11. QED
  BY <1>1, <1>9, <1>10 DEF stop, node

\* A part of the contents of a file.
LEMMA ContentSlice ==
    ASSUME image \in Images, NEW n \in DOMAIN image.inode,
           NEW from \in Nat, NEW to \in Nat, to <= image.inode[n].length
    PROVE  SubSeq(Content(n), from + 1, to) = Slice(n, from, to)
<1> DEFINE S == {Byte(n, p) : p \in Int}
           c == Content(n)
<1>1. image.inode[n].length \in Nat
  BY ImageShape
<1>2. CASE to <= from
  <2>1. SubSeq(c, from + 1, to) = << >>
    BY <1>2, SubSeqEmpty
  <2>2. 1 .. to - from = {}
    BY <1>2
  <2>3. Slice(n, from, to) = << >>
    BY <2>2 DEF Slice
  <2>4. QED
    BY <2>1, <2>3
<1>3. CASE from < to
  <2>1. \A k \in 1 .. image.inode[n].length : c[k] = Byte(n, k - 1)
    BY DEF Content, Byte
  <2>2. \A i \in from + 1 .. to : c[i] \in S
    BY <1>1, <2>1
  <2>3. \A i \in 1 .. to - from : Slice(n, from, to)[i] = Byte(n, from + i - 1)
    BY DEF Slice
  <2>4. Slice(n, from, to) \in Seq(S) /\ Len(Slice(n, from, to)) = to - from
    BY <1>3, SliceLength DEF Slice
  <2> HIDE DEF c, S
  <2>5. /\ SubSeq(c, from + 1, to) \in Seq(S)
        /\ Len(SubSeq(c, from + 1, to)) = to - from
        /\ \A i \in 1 .. to - from : SubSeq(c, from + 1, to)[i] = c[from + i]
    <3>1. from + 1 \in Int /\ to \in Int /\ from + 1 <= to
      BY <1>3
    <3>2. /\ SubSeq(c, from + 1, to) \in Seq(S)
          /\ Len(SubSeq(c, from + 1, to))
                 = IF from + 1 <= to THEN to - (from + 1) + 1 ELSE 0
          /\ \A i \in 1 .. to - (from + 1) + 1 :
                 SubSeq(c, from + 1, to)[i] = c[from + 1 + i - 1]
      BY <2>2, <3>1, SubSeqProperties
    <3>3. to - (from + 1) + 1 = to - from
      OBVIOUS
    <3>4. \A i \in 1 .. to - from : from + 1 + i - 1 = from + i
      OBVIOUS
    <3>5. QED
      BY <3>1, <3>2, <3>3, <3>4
  <2>6. ASSUME NEW i \in 1 .. to - from
        PROVE  SubSeq(c, from + 1, to)[i] = Slice(n, from, to)[i]
    <3>1. from + i \in 1 .. image.inode[n].length /\ from + i - 1 = (from + i) - 1
      BY <1>1
    <3>2. c[from + i] = Byte(n, from + i - 1)
      BY <2>1, <3>1
    <3>3. QED
      BY <2>3, <2>5, <3>2
  <2>7. SubSeq(c, from + 1, to) = Slice(n, from, to)
    BY <2>4, <2>5, <2>6, SeqEqual
  <2>8. QED
    BY <2>7 DEF c
<1>4. QED
  BY <1>2, <1>3

\* The whole file.
LEMMA ContentLength ==
    ASSUME image \in Images, NEW n \in DOMAIN image.inode
    PROVE  /\ Len(Content(n)) = image.inode[n].length
           /\ image.inode[n].length \in Nat
           /\ Content(n) = Slice(n, 0, image.inode[n].length)
<1>1. image.inode[n].length \in Nat
  BY ImageShape
<1>2. Len(Content(n)) = image.inode[n].length
  BY <1>1 DEF Content
<1>3. Content(n) \in Seq({Byte(n, p) : p \in Int})
  <2>1. \A k \in 1 .. image.inode[n].length : Content(n)[k] = Byte(n, k - 1)
    BY DEF Content, Byte
  <2>2. Content(n) = [k \in 1 .. image.inode[n].length |-> Content(n)[k]]
    BY DEF Content
  <2>3. \A k \in 1 .. image.inode[n].length :
            Content(n)[k] \in {Byte(n, p) : p \in Int}
    BY <2>1
  <2>4. QED
    BY <1>1, <2>2, <2>3
<1>4. SubSeq(Content(n), 1, Len(Content(n))) = Content(n)
  BY <1>3, SubSeqFull
<1>5. SubSeq(Content(n), 1, image.inode[n].length) = Slice(n, 0, image.inode[n].length)
  <2>0. 0 \in Nat /\ image.inode[n].length <= image.inode[n].length
    BY <1>1
  <2>1. SubSeq(Content(n), 0 + 1, image.inode[n].length)
            = Slice(n, 0, image.inode[n].length)
    BY <1>1, <2>0, ContentSlice, Zenon
  <2>2. 0 + 1 = 1
    OBVIOUS
  <2>3. QED
    BY <2>1, <2>2
<1>6. QED
  BY <1>1, <1>2, <1>4, <1>5

\* read_data returns the part of the file that was asked for, as far as it goes.
LEMMA ReadDataPart ==
    ASSUME SoundImages, image \in Images, NEW n \in DOMAIN image.inode,
           NEW offset \in Nat, NEW length \in Nat
    PROVE  LET size == image.inode[n].length
               stop == IF offset + length < size THEN offset + length ELSE size
           IN  /\ read_data(n, offset, length).bytes = SubSeq(Content(n), offset + 1, stop)
               /\ read_data(n, offset, length).bytes = Slice(n, offset, stop)
               /\ read_data(n, offset, length).ret
                      = Len(read_data(n, offset, length).bytes)
<1> DEFINE size == image.inode[n].length
           stop == IF offset + length < size THEN offset + length ELSE size
<1>1. size \in Nat
  BY ImageShape
<1>2. ReadEnd(length, offset, size) = stop /\ stop \in Nat /\ stop <= size
  BY <1>1 DEF ReadEnd
<1>3. read_data(n, offset, length)
          = [ret |-> Len(Slice(n, offset, stop)), bytes |-> Slice(n, offset, stop)]
  BY <1>2, ReadDataSlice
<1>4. SubSeq(Content(n), offset + 1, stop) = Slice(n, offset, stop)
  BY <1>2, ContentSlice
<1> HIDE DEF stop
<1>5. /\ read_data(n, offset, length).bytes = Slice(n, offset, stop)
      /\ read_data(n, offset, length).ret = Len(Slice(n, offset, stop))
  BY <1>3
<1>6. QED
  BY <1>4, <1>5 DEF stop

\* The part that is asked for does not depend on the state of the descriptors.
LEMMA ReadDataMatchesAlways == SoundImages /\ image \in Images => ReadDataMatches
<1> SUFFICES ASSUME SoundImages, image \in Images, NEW n \in DOMAIN image.inode,
                    NEW offset \in 0 .. image.inode[n].length + 1, NEW length \in Sizes
             PROVE  LET size == image.inode[n].length
                        stop == IF offset + length < size THEN offset + length ELSE size
                    IN  read_data(n, offset, length).bytes
                            = SubSeq(Content(n), offset + 1, stop)
  BY DEF ReadDataMatches
<1>1. length \in Nat /\ offset \in Nat
  BY FileSystemAssumption, ImageShape
<1>2. QED
  BY <1>1, ReadDataPart

-----------------------------------------------------------------------------
(***************************************************************************)
(* The descriptors                                                         *)
(***************************************************************************)
Descriptor == [flag : {0, 1}, inode : Nat, file_pos : Nat,
               filetype : {RtcType, DirType, FileType}]

\* Types, and that an open descriptor names an inode of the image.
DescriptorsOK ==
    /\ image \in Images
    /\ fd_entry \in [Fds -> Descriptor]
    /\ ret \in {FAIL} \cup Nat
    /\ DOMAIN got = Fds
    /\ \A f \in Fds : fd_entry[f].flag = 1 => fd_entry[f].inode \in DOMAIN image.inode

\* What has been read through a descriptor is what lies before its position.
FileAt(f) ==
    (fd_entry[f].flag = 1 /\ fd_entry[f].filetype = FileType) =>
        /\ fd_entry[f].file_pos <= image.inode[fd_entry[f].inode].length
        /\ got[f] = Slice(fd_entry[f].inode, 0, fd_entry[f].file_pos)
Listed(k) == [i \in 1 .. k |-> image.dir[i].name]
ListAt(f) ==
    (fd_entry[f].flag = 1 /\ fd_entry[f].filetype = DirType) =>
        /\ fd_entry[f].file_pos <= Len(image.dir)
        /\ got[f] = Listed(fd_entry[f].file_pos)

FilesInv == DescriptorsOK /\ \A f \in Fds : FileAt(f) /\ ListAt(f)

\* The lowest free descriptor is a free descriptor.
LEMMA NextFdFree ==
    ASSUME FreeFds # {}
    PROVE  find_next_fd \in FreeFds
<1>1. FreeFds \subseteq Nat
  BY DEF FreeFds, Fds, FD_MIN
<1>2. \E f \in FreeFds : \A other \in FreeFds : f <= other
  BY <1>1, LeastElement
<1>3. QED
  BY <1>2 DEF find_next_fd

\* A name that is found is the name of an entry, and one that is there is found.
LEMMA DentryFound ==
    ASSUME image \in Images, NEW fn
    PROVE  LET i == read_dentry_by_name(fn) IN
           /\ i # 0 => i \in 1 .. Len(image.dir) /\ SameName(fn, image.dir[i].name)
           /\ (\E j \in 1 .. Len(image.dir) : SameName(fn, image.dir[j].name)) => i # 0
<1> DEFINE I == {i \in 1 .. Len(image.dir) : SameName(fn, image.dir[i].name)}
<1>1. read_dentry_by_name(fn) = IF I # {} THEN Min(I) ELSE 0
  BY DEF read_dentry_by_name, SelectInSeq
<1>2. I \subseteq Nat
  OBVIOUS
<1>3. I # {} => Min(I) \in I
  <2> HIDE DEF I
  <2>1. I # {} => \E x \in I : \A y \in I : x <= y
    BY <1>2, LeastElement
  <2>2. QED
    BY <2>1 DEF Min
<1>4. QED
  BY <1>1, <1>3

\* One call changes one descriptor at most.
LEMMA OtherDescriptors ==
    ASSUME FilesInv, image' = image, NEW f \in Fds,
           fd_entry'[f] = fd_entry[f], got'[f] = got[f]
    PROVE  FileAt(f)' /\ ListAt(f)'
<1>1. \A n, to : Slice(n, 0, to)' = Slice(n, 0, to)
  BY DEF Slice, Byte
<1>2. \A k : Listed(k)' = Listed(k)
  BY DEF Listed
<1>3. FileAt(f) /\ ListAt(f)
  BY DEF FilesInv
<1>4. FileAt(f)'
  BY <1>1, <1>3 DEF FileAt
<1>5. ListAt(f)'
  BY <1>2, <1>3 DEF ListAt
<1>6. QED
  BY <1>4, <1>5

LEMMA NothingChanged ==
    ASSUME FilesInv, UNCHANGED <<image, fd_entry, got>>, ret' \in {FAIL} \cup Nat
    PROVE  FilesInv'
<1>1. DescriptorsOK'
  BY DEF FilesInv, DescriptorsOK
<1>2. QED
  BY <1>1, OtherDescriptors DEF FilesInv

LEMMA OpenStep ==
    ASSUME FilesInv, NEW fn, sys_open(fn)
    PROVE  FilesInv'
<1>1. CASE Failed
  BY <1>1, NothingChanged DEF Failed
<1>2. CASE ~(fn = << >> \/ FreeFds = {} \/ read_dentry_by_name(fn) = 0)
  <2> DEFINE f == find_next_fd
             d == image.dir[read_dentry_by_name(fn)]
  <2>1. f \in FreeFds /\ f \in Fds /\ f \in Nat /\ image \in Images
    BY <1>2, NextFdFree DEF FreeFds, Fds, FD_MIN, FilesInv, DescriptorsOK
  <2>2. d.inode \in DOMAIN image.inode /\ d.inode \in Nat
        /\ d.type \in {RtcType, DirType, FileType}
    BY <1>2, <2>1, DentryFound, ImageShape
  <2>3. /\ fd_entry' = [fd_entry EXCEPT ![f] = NewEntry(f, d)]
        /\ got' = [got EXCEPT ![f] = << >>]
        /\ ret' \in {FAIL, f} /\ image' = image
    BY <1>2 DEF sys_open
  <2> HIDE DEF f, d
  <2>4. NewEntry(f, d) \in Descriptor
    BY <2>2 DEF NewEntry, Descriptor
  <2>5. DescriptorsOK'
    <3>1. fd_entry' \in [Fds -> Descriptor] /\ DOMAIN got' = Fds
      BY <2>3, <2>4 DEF FilesInv, DescriptorsOK
    <3>2. ASSUME NEW g \in Fds, fd_entry'[g].flag = 1
          PROVE  fd_entry'[g].inode \in DOMAIN image.inode
      BY <2>1, <2>2, <2>3, <3>2 DEF NewEntry, FilesInv, DescriptorsOK
    <3>3. QED
      BY <2>1, <2>3, <3>1, <3>2 DEF DescriptorsOK
  <2>6. ASSUME NEW g \in Fds
        PROVE  FileAt(g)' /\ ListAt(g)'
    <3>1. CASE g # f
      BY <2>1, <2>3, <3>1, OtherDescriptors DEF FilesInv, DescriptorsOK
    <3>2. CASE g = f
      <4>1. fd_entry'[f].file_pos = 0 /\ got'[f] = << >>
            /\ fd_entry'[f].inode = d.inode
        BY <2>1, <2>3 DEF NewEntry, FilesInv, DescriptorsOK
      <4>2. \A n : Slice(n, 0, 0)' = << >> /\ Listed(0)' = << >>
        BY DEF Slice, Listed
      <4>3. image.inode[d.inode].length \in Nat /\ Len(image.dir) \in Nat
        BY <2>1, <2>2, ImageShape
      <4>4. QED
        BY <2>3, <3>2, <4>1, <4>2, <4>3 DEF FileAt, ListAt
    <3>3. QED
      BY <3>1, <3>2
  <2>7. QED
    BY <2>5, <2>6 DEF FilesInv
<1>3. QED
  BY <1>1, <1>2 DEF sys_open

LEMMA CloseStep ==
    ASSUME FilesInv, NEW f, sys_close(f)
    PROVE  FilesInv'
<1>1. CASE Failed
  BY <1>1, NothingChanged DEF Failed
<1>2. CASE f \in Fds /\ fd_entry[f].flag # 0
  <2>1. /\ fd_entry' = [fd_entry EXCEPT ![f].flag = 0]
        /\ ret' = 0 /\ image' = image /\ got' = got
    BY <1>2 DEF sys_close
  <2>2. fd_entry' \in [Fds -> Descriptor]
    BY <1>2, <2>1 DEF FilesInv, DescriptorsOK, Descriptor
  <2>3. fd_entry'[f].flag = 0 /\ \A g \in Fds \ {f} : fd_entry'[g] = fd_entry[g]
    BY <1>2, <2>1 DEF FilesInv, DescriptorsOK, Descriptor
  <2>4. DescriptorsOK'
    BY <2>1, <2>2, <2>3 DEF FilesInv, DescriptorsOK
  <2>5. FileAt(f)' /\ ListAt(f)'
    BY <2>3 DEF FileAt, ListAt
  <2>6. QED
    BY <2>1, <2>3, <2>4, <2>5, OtherDescriptors DEF FilesInv
<1>3. QED
  BY <1>1, <1>2 DEF sys_close

\* What is behind the position of an open file and is asked for: the end of it.
ReadStop(f, n) ==
    IF fd_entry[f].file_pos + n < image.inode[fd_entry[f].inode].length
    THEN fd_entry[f].file_pos + n ELSE image.inode[fd_entry[f].inode].length

\* A read of a file that is not at its end.
LEMMA FileReadResult ==
    ASSUME SoundImages, FilesInv, NEW f \in Fds, fd_entry[f].flag = 1,
           NEW n \in Nat, file_read(f, n),
           fd_entry[f].file_pos < image.inode[fd_entry[f].inode].length
    PROVE  LET pos == fd_entry[f].file_pos
           IN  /\ ReadStop(f, n) \in Nat /\ pos <= ReadStop(f, n)
               /\ ret' = ReadStop(f, n) - pos
               /\ fd_entry' = [fd_entry EXCEPT ![f].file_pos = ReadStop(f, n)]
               /\ got' = [got EXCEPT ![f] = @ \o Slice(fd_entry[f].inode, pos, ReadStop(f, n))]
<1> DEFINE e    == fd_entry[f]
           size == image.inode[e.inode].length
           stop == ReadStop(f, n)
           r    == read_data(e.inode, e.file_pos, n)
<1>1. image \in Images /\ e.inode \in DOMAIN image.inode /\ e.file_pos \in Nat
      /\ size \in Nat
  <2>1. image \in Images /\ e \in Descriptor /\ e.inode \in DOMAIN image.inode
    BY DEF FilesInv, DescriptorsOK
  <2>2. QED
    BY <2>1, ImageShape DEF Descriptor
<1>2. stop \in Nat /\ e.file_pos <= stop
      /\ stop = IF e.file_pos + n < size THEN e.file_pos + n ELSE size
  BY <1>1 DEF ReadStop
<1>3. r.bytes = Slice(e.inode, e.file_pos, stop) /\ r.ret = Len(r.bytes)
  <2> DEFINE part == IF e.file_pos + n < size THEN e.file_pos + n ELSE size
  <2>1. /\ r.bytes = Slice(e.inode, e.file_pos, part)
        /\ r.ret = Len(r.bytes)
    <3> HIDE DEF e
    <3>1. QED
      BY <1>1, ReadDataPart
  <2>2. QED
    BY <1>2, <2>1
<1>4. r.ret = stop - e.file_pos
  <2>1. e.file_pos \in Int /\ stop \in Int /\ e.file_pos <= stop
    BY <1>1, <1>2
  <2> HIDE DEF e, stop, r
  <2>2. QED
    BY <1>3, <2>1, SliceLength
<1>5. /\ ret' = r.ret
      /\ fd_entry' = [fd_entry EXCEPT ![f].file_pos = e.file_pos + r.ret]
      /\ got' = [got EXCEPT ![f] = @ \o r.bytes]
  <2>1. ~(e.file_pos >= size)
    BY <1>1
  <2>2. QED
    BY <2>1 DEF file_read, PosAfterRead
<1>6. e.file_pos + r.ret = stop
  <2> HIDE DEF e, stop, r
  <2>1. QED
    BY <1>1, <1>2, <1>4
<1>7. QED
  BY <1>2, <1>3, <1>4, <1>5, <1>6

LEMMA FileReadStep ==
    ASSUME SoundImages, FilesInv, NEW f \in Fds, fd_entry[f].flag = 1,
           fd_entry[f].filetype \notin {DirType, RtcType},
           NEW n \in Nat, file_read(f, n), image' = image
    PROVE  FilesInv'
<1> DEFINE e    == fd_entry[f]
           size == image.inode[e.inode].length
           stop == ReadStop(f, n)
<1>1. /\ image \in Images /\ e \in Descriptor /\ e.inode \in DOMAIN image.inode
      /\ e.inode \in Nat /\ e.file_pos \in Nat /\ e.filetype = FileType
  <2>1. image \in Images /\ e \in Descriptor /\ e.inode \in DOMAIN image.inode
    BY DEF FilesInv, DescriptorsOK
  <2>2. QED
    BY <2>1 DEF Descriptor
<1>2. size \in Nat
  BY <1>1, ImageShape
<1>3. CASE e.file_pos >= size
  <2>1. ret' = 0 /\ UNCHANGED <<fd_entry, got>>
    BY <1>3 DEF file_read
  <2>2. QED
    BY <2>1, NothingChanged
<1>4. CASE e.file_pos < size
  <2>1. /\ stop \in Nat /\ e.file_pos <= stop
        /\ ret' = stop - e.file_pos
        /\ fd_entry' = [fd_entry EXCEPT ![f].file_pos = stop]
        /\ got' = [got EXCEPT ![f] = @ \o Slice(e.inode, e.file_pos, stop)]
    BY <1>4, FileReadResult
  <2>2. stop <= size
    BY <1>1, <1>2 DEF ReadStop
  <2> HIDE DEF stop
  <2>3. fd_entry' \in [Fds -> Descriptor] /\ DOMAIN got' = Fds /\ ret' \in Nat
    <3>1. fd_entry' \in [Fds -> Descriptor] /\ DOMAIN got' = Fds
      BY <1>1, <2>1 DEF FilesInv, DescriptorsOK, Descriptor
    <3> HIDE DEF e
    <3>2. ret' \in Nat
      BY <1>1, <2>1
    <3>3. QED
      BY <3>1, <3>2
  <2>4. /\ fd_entry'[f].flag = 1 /\ fd_entry'[f].inode = e.inode
        /\ fd_entry'[f].file_pos = stop /\ fd_entry'[f].filetype = FileType
        /\ \A g \in Fds \ {f} : fd_entry'[g] = fd_entry[g] /\ got'[g] = got[g]
        /\ got'[f] = got[f] \o Slice(e.inode, e.file_pos, stop)
    <3>1. fd_entry \in [Fds -> Descriptor] /\ DOMAIN got = Fds
      BY DEF FilesInv, DescriptorsOK
    <3>2. \A g \in Fds : fd_entry'[g] = IF g = f THEN [e EXCEPT !.file_pos = stop]
                                       ELSE fd_entry[g]
      BY <2>1, <3>1
    <3>3. \A g \in Fds : got'[g] = IF g = f THEN got[f] \o Slice(e.inode, e.file_pos, stop)
                                  ELSE got[g]
      BY <2>1, <3>1
    <3> HIDE DEF e
    <3>4. LET x == [e EXCEPT !.file_pos = stop]
          IN  x.flag = e.flag /\ x.inode = e.inode /\ x.file_pos = stop
              /\ x.filetype = e.filetype
      BY <1>1 DEF Descriptor
    <3>5. e.flag = 1
      BY DEF e
    <3>6. QED
      BY <1>1, <3>2, <3>3, <3>4, <3>5
  <2>5. DescriptorsOK'
    BY <1>1, <2>3, <2>4 DEF FilesInv, DescriptorsOK
  <2>6. got[f] = Slice(e.inode, 0, e.file_pos)
    BY <1>1 DEF FilesInv, FileAt
  <2>7. got'[f] = Slice(e.inode, 0, stop)
    <3>1. Slice(e.inode, 0, e.file_pos) \o Slice(e.inode, e.file_pos, stop)
              = Slice(e.inode, 0, stop)
      <4>1. 0 \in Int /\ e.file_pos \in Int /\ stop \in Int
            /\ 0 <= e.file_pos /\ e.file_pos <= stop
        BY <1>1, <2>1
      <4> HIDE DEF e
      <4>2. QED
        BY <4>1, SliceConcat
    <3>2. QED
      BY <2>4, <2>6, <3>1
  <2>8. FileAt(f)' /\ ListAt(f)'
    <3>2. \A m, to : Slice(m, 0, to)' = Slice(m, 0, to)
      BY DEF Slice, Byte
    <3>3. ListAt(f)'
      BY <2>4 DEF ListAt, FileType, DirType
    <3>4. FileAt(f)'
      BY <2>2, <2>4, <2>7, <3>2 DEF FileAt
    <3>5. QED
      BY <3>3, <3>4
  <2>9. QED
    BY <2>4, <2>5, <2>8, OtherDescriptors DEF FilesInv
<1>5. QED
  BY <1>1, <1>2, <1>3, <1>4

\* A read of a directory: the next name, cut to the buffer, or nothing.
LEMMA DirReadResult ==
    ASSUME FilesInv, NEW f \in Fds, fd_entry[f].flag = 1,
           fd_entry[f].filetype = DirType, NEW n \in Nat, dir_read(f, n)
    PROVE  LET pos  == fd_entry[f].file_pos
               name == image.dir[pos + 1].name
           IN  \/ /\ pos < Len(image.dir) /\ pos + 1 \in 1 .. Len(image.dir)
                  /\ ret' \in CopiedLength(name, n)
                  /\ fd_entry' = [fd_entry EXCEPT ![f].file_pos = pos + 1]
                  /\ got' = [got EXCEPT ![f] = Append(@, name)]
               \/ /\ pos = Len(image.dir)
                  /\ ret' = 0 /\ fd_entry' = fd_entry /\ got' = got
<1> DEFINE pos == fd_entry[f].file_pos
<1>1. image \in Images /\ fd_entry[f] \in Descriptor
      /\ fd_entry \in [Fds -> Descriptor] /\ pos <= Len(image.dir)
  BY DEF FilesInv, DescriptorsOK, ListAt
<1>2. pos \in Nat /\ Len(image.dir) \in Nat
  BY <1>1, ImageShape DEF Descriptor
<1>3. CASE pos < Len(image.dir)
  <2>1. pos + 1 \in 1 .. Len(image.dir)
    BY <1>2, <1>3
  <2>2. NameAt(pos) = image.dir[pos + 1].name /\ DirAdvance(f) = pos + 1
    BY <1>3 DEF NameAt, DirAdvance
  <2>3. image.dir[pos + 1].name # << >>
    <3>1. Len(image.dir[pos + 1].name) \in 1 .. FILENAME_LEN
      BY <1>1, <2>1, ImageShape
    <3>2. QED
      BY <3>1
  <2>4. QED
    BY <1>3, <2>1, <2>2, <2>3 DEF dir_read
<1>4. CASE pos = Len(image.dir)
  <2>1. NameAt(pos) = << >> /\ DirAdvance(f) = pos
    BY <1>2, <1>4 DEF NameAt, DirAdvance
  <2>2. CopiedLength(<< >>, n) = {0}
    BY FileSystemAssumption DEF CopiedLength
  <2>3. ret' = 0 /\ got' = got
        /\ fd_entry' = [fd_entry EXCEPT ![f].file_pos = fd_entry[f].file_pos]
    BY <2>1, <2>2 DEF dir_read
  <2>4. fd_entry' = fd_entry
    BY <1>1, <2>3 DEF Descriptor
  <2>5. QED
    BY <1>4, <2>3, <2>4
<1>5. QED
  BY <1>1, <1>2, <1>3, <1>4

\* What a read of a directory returns fits the buffer.
LEMMA CopiedFits ==
    ASSUME image \in Images, NEW i \in 1 .. Len(image.dir), NEW n \in Nat,
           NEW r \in CopiedLength(image.dir[i].name, n)
    PROVE  r \in 0 .. n
<1>1. Len(image.dir[i].name) \in Nat
  BY ImageShape
<1>2. QED
  BY <1>1 DEF CopiedLength

LEMMA DirReadStep ==
    ASSUME FilesInv, NEW f \in Fds, fd_entry[f].flag = 1,
           fd_entry[f].filetype = DirType, NEW n \in Nat, dir_read(f, n), image' = image
    PROVE  FilesInv'
<1> DEFINE pos  == fd_entry[f].file_pos
           name == image.dir[pos + 1].name
<1>1. CASE pos = Len(image.dir) /\ ret' = 0 /\ fd_entry' = fd_entry /\ got' = got
  BY <1>1, NothingChanged
<1>2. CASE /\ pos < Len(image.dir) /\ pos + 1 \in 1 .. Len(image.dir)
           /\ ret' \in CopiedLength(name, n)
           /\ fd_entry' = [fd_entry EXCEPT ![f].file_pos = pos + 1]
           /\ got' = [got EXCEPT ![f] = Append(@, name)]
  <2>1. /\ image \in Images /\ fd_entry[f] \in Descriptor /\ pos \in Nat
        /\ got[f] = Listed(pos)
    <3>1. image \in Images /\ fd_entry[f] \in Descriptor /\ got[f] = Listed(pos)
      BY DEF FilesInv, DescriptorsOK, ListAt
    <3>2. QED
      BY <3>1 DEF Descriptor
  <2>2. ret' \in Nat
    BY <1>2, <2>1, CopiedFits
  <2>3. fd_entry' \in [Fds -> Descriptor] /\ DOMAIN got' = Fds
    BY <1>2, <2>1 DEF FilesInv, DescriptorsOK, Descriptor
  <2>4. /\ fd_entry'[f].inode = fd_entry[f].inode
        /\ fd_entry'[f].file_pos = pos + 1 /\ fd_entry'[f].filetype = DirType
        /\ \A g \in Fds \ {f} : fd_entry'[g] = fd_entry[g] /\ got'[g] = got[g]
        /\ got'[f] = Append(Listed(pos), name)
    BY <1>2, <2>1 DEF FilesInv, DescriptorsOK, Descriptor
  <2>5. DescriptorsOK'
    BY <2>2, <2>3, <2>4 DEF FilesInv, DescriptorsOK
  <2>6. Append(Listed(pos), name) = Listed(pos + 1)
    BY <2>1 DEF Listed
  <2>7. FileAt(f)' /\ ListAt(f)'
    <3>1. \A k : Listed(k)' = Listed(k)
      BY DEF Listed
    <3>2. FileAt(f)'
      BY <2>4 DEF FileAt, FileType, DirType
    <3>3. pos + 1 <= Len(image.dir)
      BY <1>2
    <3>4. ListAt(f)'
      BY <2>4, <2>6, <3>1, <3>3 DEF ListAt
    <3>5. QED
      BY <3>2, <3>4
  <2>8. QED
    BY <2>4, <2>5, <2>7, OtherDescriptors DEF FilesInv
<1>3. QED
  BY <1>1, <1>2, DirReadResult

LEMMA ReadStep ==
    ASSUME SoundImages, FilesInv, NEW f, NEW n \in Nat, sys_read(f, n)
    PROVE  FilesInv'
<1>1. CASE Failed
  BY <1>1, NothingChanged DEF Failed
<1>2. CASE f \in Fds /\ fd_entry[f].flag # 0
  <2>1. fd_entry[f].flag = 1 /\ image' = image
    BY <1>2 DEF sys_read, FilesInv, DescriptorsOK, Descriptor
  <2>2. CASE fd_entry[f].filetype = DirType
    <3>1. dir_read(f, n)
      BY <1>2, <2>2 DEF sys_read, DirType, RtcType
    <3>2. QED
      BY <1>2, <2>1, <2>2, <3>1, DirReadStep
  <2>3. CASE fd_entry[f].filetype = RtcType
    <3>1. ret' = 0 /\ UNCHANGED <<fd_entry, got>>
      BY <1>2, <2>3 DEF sys_read, DirType, RtcType
    <3>2. QED
      BY <2>1, <3>1, NothingChanged
  <2>4. CASE fd_entry[f].filetype \notin {DirType, RtcType}
    BY <1>2, <2>1, <2>4, FileReadStep DEF sys_read
  <2>5. QED
    BY <2>2, <2>3, <2>4
<1>3. QED
  BY <1>1, <1>2 DEF sys_read

LEMMA WriteStep ==
    ASSUME FilesInv, NEW f, sys_write(f)
    PROVE  FilesInv'
BY NothingChanged DEF sys_write, Failed

LEMMA FilesInit == Init => FilesInv
<1> SUFFICES ASSUME Init PROVE FilesInv
  OBVIOUS
<1>1. \A f \in Fds : fd_entry[f].flag = 0
  BY DEF Init, Closed
<1>2. DescriptorsOK
  BY <1>1 DEF Init, Closed, DescriptorsOK, Descriptor, RtcType
<1>3. QED
  BY <1>1, <1>2 DEF FilesInv, FileAt, ListAt

LEMMA NextStep ==
    ASSUME SoundImages, FilesInv, Next
    PROVE  FilesInv'
<1>1. ASSUME NEW f \in Fds \cup {FD_MAX + 1}, NEW n \in Sizes, sys_read(f, n)
      PROVE  FilesInv'
  BY <1>1, ReadStep, FileSystemAssumption
<1>2. QED
  BY <1>1, OpenStep, CloseStep, WriteStep DEF Next

\* The inductive invariant of the descriptors, for any order of calls: what an
\* open file or directory has given so far is what lies before its position.
THEOREM FilesInvariant == SoundImages /\ Spec => []FilesInv
<1>1. SoundImages /\ FilesInv /\ [Next]_vars => FilesInv'
  <2> SUFFICES ASSUME SoundImages, FilesInv, [Next]_vars PROVE FilesInv'
    OBVIOUS
  <2>1. CASE UNCHANGED vars
    <3>1. ret' \in {FAIL} \cup Nat
      BY <2>1 DEF vars, FilesInv, DescriptorsOK
    <3>2. QED
      BY <2>1, <3>1, NothingChanged DEF vars
  <2>2. QED
    BY <2>1, NextStep
<1>2. SoundImages => SoundImages'
  BY DEF SoundImages
<1>3. QED
  BY <1>1, <1>2, FilesInit, PTL DEF Spec

-----------------------------------------------------------------------------
(***************************************************************************)
(* The programs                                                            *)
(***************************************************************************)
\* What a read does to the descriptors but for the position, and its result.
LEMMA ReadKeeps ==
    ASSUME SoundImages, FilesInv, NEW f, NEW n \in Nat, sys_read(f, n)
    PROVE  /\ image' = image
           /\ \A g \in Fds : /\ fd_entry'[g].flag = fd_entry[g].flag
                             /\ fd_entry'[g].inode = fd_entry[g].inode
                             /\ fd_entry'[g].filetype = fd_entry[g].filetype
           /\ ret' \in {FAIL} \cup 0 .. n
<1> USE DEF FilesInv, DescriptorsOK
<1>1. CASE Failed
  BY <1>1 DEF Failed
<1>2. CASE f \in Fds /\ fd_entry[f].flag # 0
  <2>1. fd_entry[f].flag = 1 /\ image' = image /\ fd_entry[f] \in Descriptor
    BY <1>2 DEF sys_read, Descriptor
  <2>2. CASE fd_entry[f].filetype = DirType
    <3>1. dir_read(f, n)
      BY <1>2, <2>2 DEF sys_read, DirType, RtcType
    <3>2. CASE ret' = 0 /\ fd_entry' = fd_entry
      BY <2>1, <3>2
    <3>3. CASE /\ fd_entry[f].file_pos + 1 \in 1 .. Len(image.dir)
               /\ ret' \in CopiedLength(image.dir[fd_entry[f].file_pos + 1].name, n)
               /\ fd_entry' = [fd_entry EXCEPT ![f].file_pos = fd_entry[f].file_pos + 1]
      <4>1. ret' \in 0 .. n
        BY <3>3, CopiedFits
      <4>2. QED
        BY <2>1, <3>3, <4>1 DEF Descriptor
    <3>4. QED
      BY <1>2, <2>1, <2>2, <3>1, <3>2, <3>3, DirReadResult
  <2>3. CASE fd_entry[f].filetype = RtcType
    BY <1>2, <2>1, <2>3 DEF sys_read, DirType, RtcType
  <2>4. CASE fd_entry[f].filetype \notin {DirType, RtcType}
    <3>1. file_read(f, n)
      BY <1>2, <2>4 DEF sys_read
    <3> DEFINE pos  == fd_entry[f].file_pos
               size == image.inode[fd_entry[f].inode].length
    <3>2. pos \in Nat /\ size \in Nat
      <4>1. image \in Images /\ fd_entry[f].inode \in DOMAIN image.inode
        BY <1>2, <2>1
      <4>2. QED
        BY <2>1, <4>1, ImageShape DEF Descriptor
    <3>3. CASE pos >= size
      BY <2>1, <3>1, <3>3 DEF file_read
    <3>4. CASE pos < size
      <4>1. /\ ReadStop(f, n) \in Nat /\ pos <= ReadStop(f, n)
            /\ ret' = ReadStop(f, n) - pos
            /\ fd_entry' = [fd_entry EXCEPT ![f].file_pos = ReadStop(f, n)]
        BY <1>2, <2>1, <3>1, <3>4, FileReadResult
      <4>2. ReadStop(f, n) <= pos + n
        BY <3>2 DEF ReadStop
      <4>3. ret' \in 0 .. n
        <5> HIDE DEF pos
        <5>1. QED
          BY <3>2, <4>1, <4>2
      <4>4. QED
        BY <2>1, <4>1, <4>3 DEF Descriptor
    <3>5. QED
      BY <3>2, <3>3, <3>4
  <2>5. QED
    BY <2>2, <2>3, <2>4
<1>3. QED
  BY <1>1, <1>2 DEF sys_read

\* What an open returns, and what the descriptor it returns stands for.
LEMMA OpenResult ==
    ASSUME FilesInv, NEW fn, sys_open(fn)
    PROVE  /\ image' = image
           /\ ret' # FAIL =>
                LET i == read_dentry_by_name(fn) IN
                /\ i \in 1 .. Len(image.dir) /\ SameName(fn, image.dir[i].name)
                /\ ret' \in Fds
                /\ fd_entry'[ret'] = NewEntry(ret', image.dir[i])
                /\ got'[ret'] = << >>
<1> USE DEF FilesInv, DescriptorsOK
<1>1. CASE Failed
  BY <1>1 DEF Failed
<1>2. CASE ~(fn = << >> \/ FreeFds = {} \/ read_dentry_by_name(fn) = 0)
  <2>1. find_next_fd \in Fds
    BY <1>2, NextFdFree DEF FreeFds
  <2>2. QED
    BY <1>2, <2>1, DentryFound DEF sys_open
<1>3. QED
  BY <1>1, <1>2 DEF sys_open

\* A slice is a sequence.
LEMMA SliceSeq ==
    ASSUME NEW n, NEW from \in Int, NEW to \in Int, from <= to
    PROVE  Slice(n, from, to) \in Seq({Byte(n, p) : p \in Int})
BY DEF Slice

\* cat: it has written what it has read of the file its argument names.
CatInv ==
    client = "cat" =>
        \/ pc = "start" /\ out = << >>
        \/ /\ pc = "read"
           /\ fd \in Fds /\ fd_entry[fd].flag = 1
           /\ fd_entry[fd].inode = image.dir[read_dentry_by_name(arg)].inode
           /\ fd_entry[fd].filetype = FileType => out = got[fd]
        \/ /\ pc = "exit"
           /\ (code = 0 /\ fd_entry[fd].filetype = FileType) =>
                 out = Content(image.dir[read_dentry_by_name(arg)].inode)

\* The directory does not change.
LEMMA SameDentry ==
    ASSUME image' = image, arg' = arg
    PROVE  read_dentry_by_name(arg)' = read_dentry_by_name(arg)
BY DEF read_dentry_by_name, SelectInSeq, SameName, Min

LEMMA CatOpenStep ==
    ASSUME FilesInv, CatInv, CatOpen
    PROVE  CatInv'
<1>1. client = "cat" /\ pc = "start" /\ out = << >> /\ Open(arg, "read", 2)
  BY DEF CatOpen, CatInv
<1>2. sys_open(arg) /\ fd' = ret' /\ UNCHANGED <<client, arg, out>>
  BY <1>1 DEF Open
<1>3. read_dentry_by_name(arg)' = read_dentry_by_name(arg) /\ image' = image
  BY <1>2, OpenResult, SameDentry
<1>4. CASE ret' = FAIL
  BY <1>1, <1>4 DEF Open, Exit, CatInv
<1>5. CASE ret' # FAIL
  <2>1. pc' = "read"
    BY <1>1, <1>5 DEF Open, Goto
  <2>2. /\ fd' \in Fds /\ got'[fd'] = << >>
        /\ fd_entry'[fd'] = NewEntry(ret', image.dir[read_dentry_by_name(arg)])
    BY <1>2, <1>5, OpenResult
  <2>3. fd_entry'[fd'].flag = 1
        /\ fd_entry'[fd'].inode = image.dir[read_dentry_by_name(arg)].inode
    BY <2>2 DEF NewEntry
  <2>4. QED
    BY <1>1, <1>2, <1>3, <2>1, <2>2, <2>3 DEF CatInv
<1>6. QED
  BY <1>4, <1>5

LEMMA CatReadStep ==
    ASSUME SoundImages, FilesInv, CatInv, CatRead
    PROVE  CatInv'
<1> DEFINE n    == fd_entry[fd].inode
           pos  == fd_entry[fd].file_pos
           size == image.inode[n].length
           part == Slice(n, pos, ReadStop(fd, CatBufSize))
<1>1. /\ client = "cat" /\ fd \in Fds /\ fd_entry[fd].flag = 1
      /\ n = image.dir[read_dentry_by_name(arg)].inode
      /\ fd_entry[fd].filetype = FileType => out = got[fd]
      /\ sys_read(fd, CatBufSize) /\ ReadResult /\ out' = out \o Received(fd)
      /\ UNCHANGED <<client, arg, fd>>
  BY DEF CatRead, CatInv
<1>2. CatBufSize \in Nat \ {0}
  BY ProgramsAssumption
<1>3. /\ image' = image /\ fd_entry'[fd].flag = 1 /\ fd_entry'[fd].inode = n
      /\ fd_entry'[fd].filetype = fd_entry[fd].filetype
      /\ read_dentry_by_name(arg)' = read_dentry_by_name(arg)
  BY <1>1, <1>2, ReadKeeps, SameDentry
<1>4. CASE fd_entry[fd].filetype # FileType
  <2>1. pc' \in {"read", "exit"}
    BY <1>1 DEF ReadResult, Exit, Goto, CatRead
  <2>2. QED
    BY <1>1, <1>3, <1>4, <2>1 DEF CatInv
<1>5. CASE fd_entry[fd].filetype = FileType
  <2>1. file_read(fd, CatBufSize)
    BY <1>1, <1>5 DEF sys_read, FileType, DirType, RtcType, Failed
  <2>2. /\ image \in Images /\ n \in DOMAIN image.inode /\ pos \in Nat /\ pos <= size
        /\ got[fd] = Slice(n, 0, pos) /\ size \in Nat
    <3>1. /\ image \in Images /\ n \in DOMAIN image.inode /\ fd_entry[fd] \in Descriptor
          /\ pos <= size /\ got[fd] = Slice(n, 0, pos)
      BY <1>1, <1>5 DEF FilesInv, DescriptorsOK, FileAt
    <3>2. QED
      BY <3>1, ImageShape DEF Descriptor
  <2> DEFINE S == {Byte(n, p) : p \in Int}
  <2>3. got[fd] \in Seq(S)
    BY <2>2, SliceSeq
  <2>4. CASE pos >= size
    <3>1. ret' = 0 /\ got' = got
      BY <2>1, <2>4 DEF file_read
    <3>2. Received(fd) = << >>
      <4>1. Len(got[fd]) \in Nat
        BY <2>3
      <4>2. Len(got[fd]) + 1 \in Int /\ Len(got[fd]) \in Int /\ Len(got[fd]) < Len(got[fd]) + 1
        BY <4>1
      <4>3. SubSeq(got[fd], Len(got[fd]) + 1, Len(got[fd])) = << >>
        BY <4>2, SubSeqEmpty
      <4>4. QED
        BY <3>1, <4>3 DEF Received
    <3>3. out' = got[fd]
      BY <1>1, <1>5, <2>3, <3>2, ConcatEmptySeq
    <3>4. got[fd] = Content(n)
      BY <2>2, <2>4, ContentLength
    <3>5. pc' = "exit"
      BY <1>1, <3>1 DEF ReadResult, Exit
    <3>6. Content(image.dir[read_dentry_by_name(arg)].inode)' = Content(n)
      BY <1>1, <1>3 DEF Content
    <3>8. QED
      BY <1>1, <3>3, <3>4, <3>5, <3>6 DEF CatInv
  <2>5. CASE pos < size
    <3>1. /\ ReadStop(fd, CatBufSize) \in Nat /\ pos <= ReadStop(fd, CatBufSize)
          /\ ret' = ReadStop(fd, CatBufSize) - pos
          /\ got' = [got EXCEPT ![fd] = @ \o part]
      BY <1>1, <1>2, <2>1, <2>5, FileReadResult
    <3>2. pos < ReadStop(fd, CatBufSize)
      BY <1>2, <2>2, <2>5 DEF ReadStop
    <3>3. ret' # 0 /\ ret' # FAIL
      BY <2>2, <3>1, <3>2 DEF FAIL
    <3>4. pc' = "read"
      BY <1>1, <3>3 DEF ReadResult, Goto, CatRead
    <3>5. got'[fd] = got[fd] \o part
      BY <1>1, <3>1 DEF FilesInv, DescriptorsOK
    <3>6. part \in Seq(S)
      BY <2>2, <3>1, SliceSeq
    <3>7. Received(fd) = part
      <4> HIDE DEF S, part
      <4>1. SubSeq(got[fd] \o part, Len(got[fd]) + 1, Len(got[fd] \o part)) = part
        BY <2>3, <3>6, AppendedPart
      <4>2. QED
        BY <3>5, <4>1 DEF Received
    <3>8. out' = got'[fd]
      BY <1>1, <1>5, <3>5, <3>7
    <3>9. QED
      BY <1>1, <1>3, <3>4, <3>8 DEF CatInv
  <2>6. QED
    BY <2>2, <2>4, <2>5
<1>6. QED
  BY <1>4, <1>5

\* ls: it has written the names it has read, whole and in order.
LsInv ==
    client = "ls" =>
        \/ pc = "start" /\ out = << >> /\ \A f \in Fds : fd_entry[f].flag = 0
        \/ /\ pc = "read"
           /\ fd \in Fds /\ fd_entry[fd].flag = 1 /\ fd_entry[fd].filetype = DirType
           /\ out = got[fd]
        \/ pc = "exit" /\ code = 0 /\ out = Listed(Len(image.dir))

LEMMA LsOpenStep ==
    ASSUME RootListed, FilesInv, LsInv, LsOpen
    PROVE  LsInv'
<1>1. /\ client = "ls" /\ pc = "start" /\ out = << >> /\ Open(<<".">>, "read", 2)
      /\ \A f \in Fds : fd_entry[f].flag = 0
  BY DEF LsOpen, LsInv
<1>2. sys_open(<<".">>) /\ fd' = ret' /\ UNCHANGED <<client, out>>
  BY <1>1 DEF Open
<1>3. image \in Images /\ FreeFds # {} /\ <<".">> # << >>
  <2>1. FD_MIN \in Fds
    BY FileSystemAssumption DEF RootListed, Fds, FD_MIN
  <2>2. QED
    BY <1>1, <2>1 DEF FreeFds, FilesInv, DescriptorsOK
<1>4. \A name : SameName(<<".">>, name) <=> name = <<".">>
  BY FileSystemAssumption DEF SameName
<1> DEFINE i == read_dentry_by_name(<<".">>)
           d == image.dir[i]
<1>5. i \in 1 .. Len(image.dir) /\ d.type = DirType
  <2>1. i # 0
    BY <1>3, <1>4, DentryFound DEF RootListed
  <2>2. i \in 1 .. Len(image.dir) /\ d.name = <<".">>
    BY <1>3, <1>4, <2>1, DentryFound
  <2>3. QED
    BY <1>3, <2>2 DEF RootListed
<1>6. find_next_fd \in Fds
  BY <1>3, NextFdFree DEF FreeFds
<1>7. ret' = find_next_fd
  BY <1>2, <1>3, <1>5 DEF sys_open
<1>8. ret' # FAIL
  BY <1>6, <1>7 DEF Fds, FD_MIN, FAIL
<1>9. /\ fd' \in Fds /\ fd_entry'[fd'] = NewEntry(fd', d) /\ got'[fd'] = << >>
  BY <1>2, <1>8, OpenResult
<1>10. fd_entry'[fd'].flag = 1 /\ fd_entry'[fd'].filetype = DirType
  BY <1>5, <1>9 DEF NewEntry
<1>11. pc' = "read"
  BY <1>1, <1>8 DEF Open, Goto
<1>12. QED
  BY <1>1, <1>2, <1>9, <1>10, <1>11 DEF LsInv

\* What lies in a directory entry is read whole, with its length.
LEMMA NextName ==
    ASSUME SoundImages, FilesInv, NEW f \in Fds, fd_entry[f].flag = 1,
           fd_entry[f].filetype = DirType, sys_read(f, FILENAME_LEN)
    PROVE  LET pos  == fd_entry[f].file_pos
               name == image.dir[pos + 1].name
           IN  /\ image' = image
               /\ \/ /\ pos + 1 \in 1 .. Len(image.dir)
                     /\ ret' = Len(name) /\ Len(name) \in Nat \ {0}
                     /\ fd_entry' = [fd_entry EXCEPT ![f].file_pos = pos + 1]
                     /\ got'[f] = Append(got[f], name)
                     /\ SubSeq(Received(f)[1], 1, ret') = name
                  \/ /\ pos = Len(image.dir)
                     /\ ret' = 0 /\ fd_entry' = fd_entry /\ got' = got
<1> DEFINE pos  == fd_entry[f].file_pos
           name == image.dir[pos + 1].name
<1>1. FILENAME_LEN \in Nat \ {0} /\ image \in Images /\ got[f] = Listed(pos)
  BY FileSystemAssumption DEF FilesInv, DescriptorsOK, ListAt
<1>2. image' = image
  BY <1>1, ReadKeeps
<1>3. dir_read(f, FILENAME_LEN)
  BY DEF sys_read, FileType, DirType, RtcType, Failed
<1>4. CASE /\ pos + 1 \in 1 .. Len(image.dir)
           /\ ret' \in CopiedLength(name, FILENAME_LEN)
           /\ fd_entry' = [fd_entry EXCEPT ![f].file_pos = pos + 1]
           /\ got' = [got EXCEPT ![f] = Append(@, name)]
  <2>1. name \in Seq(Range(name)) /\ Len(name) \in 1 .. FILENAME_LEN
    BY <1>1, <1>4, ImageShape
  <2>2. ret' = Len(name) /\ Len(name) \in Nat \ {0}
    BY <1>1, <1>4, <2>1 DEF CopiedLength
  <2>3. got'[f] = Append(got[f], name)
    BY <1>4 DEF FilesInv, DescriptorsOK
  <2>4. Received(f)[1] = name
    <3>1. pos \in Nat
      BY DEF FilesInv, DescriptorsOK, Descriptor
    <3> DEFINE S == {image.dir[k].name : k \in Nat}
    <3>2. Listed(pos) \in Seq(S) /\ <<name>> \in Seq(S)
      BY <3>1 DEF Listed
    <3>3. Append(got[f], name) = got[f] \o <<name>>
      BY <1>1, <3>2, SMTT(20)
    <3>4. SubSeq(got[f] \o <<name>>, Len(got[f]) + 1, Len(got[f] \o <<name>>)) = <<name>>
      BY <1>1, <3>2, AppendedPart
    <3>5. Received(f) = <<name>>
      BY <2>3, <3>3, <3>4 DEF Received
    <3>6. QED
      BY <3>5
  <2>5. SubSeq(name, 1, ret') = name
    BY <2>1, <2>2, SubSeqFull
  <2>6. QED
    BY <1>2, <1>4, <2>2, <2>3, <2>4, <2>5
<1>5. CASE pos = Len(image.dir) /\ ret' = 0 /\ fd_entry' = fd_entry /\ got' = got
  BY <1>2, <1>5
<1>6. QED
  BY <1>1, <1>3, <1>4, <1>5, DirReadResult

LEMMA LsReadStep ==
    ASSUME SoundImages, FilesInv, LsInv, LsRead
    PROVE  LsInv'
<1> DEFINE pos  == fd_entry[fd].file_pos
           name == image.dir[pos + 1].name
<1>1. /\ client = "ls" /\ fd \in Fds /\ fd_entry[fd].flag = 1
      /\ fd_entry[fd].filetype = DirType /\ out = got[fd]
      /\ sys_read(fd, LsBytes) /\ ReadResult /\ UNCHANGED <<client, fd>>
      /\ out' = IF ret' <= 0 THEN out ELSE Append(out, SubSeq(Received(fd)[1], 1, ret'))
  BY DEF LsRead, LsInv
<1>2. sys_read(fd, FILENAME_LEN) /\ FILENAME_LEN \in Nat
  BY <1>1, FileSystemAssumption DEF LsBytes
<1>3. image' = image /\ fd_entry'[fd].flag = 1 /\ fd_entry'[fd].filetype = DirType
  BY <1>1, <1>2, ReadKeeps
<1>4. \/ /\ ret' = Len(name) /\ Len(name) \in Nat \ {0}
         /\ got'[fd] = Append(got[fd], name) /\ SubSeq(Received(fd)[1], 1, ret') = name
      \/ pos = Len(image.dir) /\ ret' = 0 /\ got' = got
  BY <1>1, <1>2, NextName
<1>5. CASE pos = Len(image.dir) /\ ret' = 0 /\ got' = got
  <2>1. pc' = "exit" /\ code' = 0
    BY <1>1, <1>5 DEF ReadResult, Exit, FAIL
  <2>2. ret' <= 0
    BY <1>5
  <2>3. out' = got[fd] /\ got[fd] = Listed(pos)
    BY <1>1, <2>2 DEF FilesInv, ListAt
  <2>4. Listed(Len(image.dir))' = Listed(Len(image.dir))
    BY <1>3 DEF Listed
  <2>5. QED
    BY <1>1, <1>5, <2>1, <2>3, <2>4 DEF LsInv
<1>6. CASE /\ ret' = Len(name) /\ Len(name) \in Nat \ {0}
           /\ got'[fd] = Append(got[fd], name) /\ SubSeq(Received(fd)[1], 1, ret') = name
  <2>1. ~(ret' <= 0) /\ ret' # FAIL /\ ret' # 0
    BY <1>6 DEF FAIL
  <2>2. pc' = "read"
    BY <1>1, <2>1 DEF ReadResult, Goto
  <2>3. out' = got'[fd]
    BY <1>1, <1>6, <2>1, Zenon
  <2>4. QED
    BY <1>1, <1>3, <2>2, <2>3 DEF LsInv
<1>7. QED
  BY <1>4, <1>5, <1>6

\* grep: what is left of the last line fits its buffer, so that it never asks
\* for less than nothing.
GrepInv ==
    (client = "grep" /\ pc # "exit") =>
        last \in 0 .. BUFSIZE /\ (pc = "line" => line_start \in 0 .. last)

\* The end of a line, or of what was read, is the first NL or end there is.
LEMMA LineEndIs ==
    ASSUME last \in 0 .. BUFSIZE, line_start \in 0 .. last
    PROVE  /\ line_end \in line_start .. last
           /\ line_end = last \/ data[line_end] = NL
           /\ \A j \in line_start .. line_end - 1 : data[j] # NL
<1> DEFINE P(i) == i >= last \/ data[i] = NL
           T == {i \in line_start .. BUFSIZE : P(i)}
<1>1. last \in T /\ T \subseteq Nat /\ BUFSIZE \in Nat
  BY ProgramsAssumption
<1>2. PICK x \in T : \A y \in T : x <= y
  <2> HIDE DEF T
  <2>1. QED
    BY <1>1, LeastElement
<1>3. x \in line_start .. BUFSIZE /\ P(x) /\ \A j \in line_start .. x - 1 : ~P(j)
  <2>1. x \in line_start .. BUFSIZE /\ P(x)
    OBVIOUS
  <2>2. ASSUME NEW j \in line_start .. x - 1
        PROVE  ~P(j)
    <3>1. j \in line_start .. BUFSIZE /\ ~(x <= j)
      BY <1>1, <2>1
    <3>2. j \notin T
      BY <1>2, <3>1
    <3>3. QED
      BY <3>1, <3>2
  <2>3. QED
    BY <2>1, <2>2
<1>4. line_end = CHOOSE i \in line_start .. BUFSIZE :
                    P(i) /\ \A j \in line_start .. i - 1 : ~P(j)
  BY DEF line_end, LeastFrom
<1>5. PICK y \in line_start .. BUFSIZE :
          y = line_end /\ P(y) /\ \A j \in line_start .. y - 1 : ~P(j)
  <2> HIDE DEF P
  <2>1. QED
    BY <1>3, <1>4
<1>6. y <= last
  <2>1. CASE y > last
    <3>1. last \in line_start .. y - 1
      BY <1>1, <2>1
    <3>2. QED
      BY <1>5, <3>1
  <2>2. QED
    BY <1>1, <2>1
<1>7. y \in line_start .. last /\ (y = last \/ data[y] = NL)
  BY <1>1, <1>5, <1>6
<1>8. QED
  BY <1>5, <1>7

LEMMA GrepFillStep ==
    ASSUME SoundImages, FilesInv, GrepInv, GrepFill
    PROVE  GrepInv' /\ FilesInv'
<1>1. last \in 0 .. BUFSIZE /\ BUFSIZE - last \in Nat /\ BUFSIZE \in Nat
  BY ProgramsAssumption DEF GrepInv, GrepFill
<1>2. sys_read(fd, BUFSIZE - last)
  BY DEF GrepFill
<1>3. FilesInv' /\ ret' \in {FAIL} \cup 0 .. BUFSIZE - last
  BY <1>1, <1>2, ReadStep, ReadKeeps
<1>4. CASE ret' = FAIL
  BY <1>3, <1>4 DEF GrepFill, Exit, GrepInv
<1>5. CASE ret' # FAIL
  <2>1. ret' \in 0 .. BUFSIZE - last
    BY <1>3, <1>5
  <2>2. last' = last + ret' /\ line_start' = 0
    BY DEF GrepFill
  <2>3. last' \in 0 .. BUFSIZE
    <3>1. \A l, r, b \in Nat : r \in 0 .. b - l => l + r \in 0 .. b
      OBVIOUS
    <3>2. last \in Nat /\ ret' \in Nat
      BY <1>1, <2>1
    <3>3. QED
      BY <1>1, <2>1, <2>2, <3>1, <3>2
  <2>4. line_start' \in 0 .. last'
    BY <2>2, <2>3
  <2>5. QED
    BY <1>3, <2>3, <2>4 DEF GrepInv
<1>6. QED
  BY <1>4, <1>5

LEMMA GrepLineStep ==
    ASSUME FilesInv, GrepInv, GrepLine
    PROVE  GrepInv' /\ FilesInv'
<1>1. FilesInv'
  <2>1. UNCHANGED <<image, fd_entry, got>> /\ ret' \in {FAIL} \cup Nat
    BY DEF GrepLine, vars, FilesInv, DescriptorsOK
  <2>2. QED
    BY <2>1, NothingChanged
<1>2. last \in 0 .. BUFSIZE /\ line_start \in 0 .. last /\ BUFSIZE \in Nat
  BY ProgramsAssumption DEF GrepInv, GrepLine
<1>3. CASE Incomplete
  <2>1. last' = last - line_start /\ pc' = "fill"
    BY <1>3 DEF GrepLine, Goto
  <2>2. QED
    BY <1>1, <1>2, <2>1 DEF GrepInv
<1>4. CASE ~Incomplete
  <2>1. line_end \in Nat
    BY <1>2, LineEndIs
  <2>2. line_start' = line_end + 1
    BY <1>4 DEF GrepLine
  <2>3. CASE line_end + 1 < last
    <3>1. last' = last
      BY <1>4, <2>3 DEF GrepLine
    <3> HIDE DEF line_end
    <3>2. last' \in 0 .. BUFSIZE /\ line_start' \in 0 .. last'
      BY <1>2, <2>1, <2>2, <2>3, <3>1
    <3>3. QED
      BY <1>1, <3>2 DEF GrepInv
  <2>4. CASE ~(line_end + 1 < last)
    <3>1. last' = 0 /\ pc' # "line"
      BY <1>4, <2>4 DEF GrepLine, Goto
    <3>2. QED
      BY <1>1, <1>2, <3>1 DEF GrepInv
  <2>5. QED
    BY <2>3, <2>4
<1>5. QED
  BY <1>3, <1>4

\* syserr: it is in its script until it leaves.
Ops == {"read", "write", "close", "open", "open dir", "number"}
SyserrInv ==
    (client = "syserr" /\ pc # "exit") => out \in Seq(Int) /\ Len(out) < Len(Script)

\* Every test of the script is one of the calls.
LEMMA ScriptOK ==
    /\ Script \in Seq({Call(op, x) : op \in Ops, x \in Int \cup Range(WrongNames)})
    /\ Len(Script) \in Nat \ {0}
<1> DEFINE X == Int \cup Range(WrongNames)
           S == {Call(op, x) : op \in Ops, x \in X}
<1>1. \A op \in Ops : \A x \in X : Call(op, x) \in S
  OBVIOUS
<1> HIDE DEF S
<1>2. \A op \in Ops, from \in Nat, to \in Nat : OnEach(op, from, to) \in Seq(S)
  <2>1. SUFFICES ASSUME NEW op \in Ops, NEW from \in Nat, NEW to \in Nat
                 PROVE  OnEach(op, from, to) \in Seq(S)
    OBVIOUS
  <2>2. \A i \in 1 .. to - from + 1 : from + i - 1 \in X
    OBVIOUS
  <2>3. \A i \in 1 .. to - from + 1 : Call(op, from + i - 1) \in S
    BY <1>1, <2>2
  <2>4. CASE to - from + 1 \in Nat
    BY <2>3, <2>4 DEF OnEach
  <2>5. CASE to - from + 1 \notin Nat
    <3>1. 1 .. to - from + 1 = {}
      BY <2>5
    <3>2. OnEach(op, from, to) = << >>
      BY <3>1 DEF OnEach
    <3>3. QED
      BY <3>2
  <2>6. QED
    BY <2>4, <2>5
<1>3. FD_MAX \in Nat
  BY FileSystemAssumption
<1>4. /\ Lots \in Seq(S) /\ OnEach("close", 2, FD_MAX) \in Seq(S)
      /\ OnEach("close", 0, FD_MAX) \in Seq(S) /\ OnEach("read", 2, FD_MAX) \in Seq(S)
      /\ OnEach("write", 2, FD_MAX) \in Seq(S)
  BY <1>2, <1>3 DEF Lots, Ops
<1>5. [i \in 1 .. Len(WrongNames) |-> Call("open", WrongNames[i])] \in Seq(S)
  <2>1. WrongNames \in Seq(Range(WrongNames))
    BY ProgramsAssumption
  <2>2. \A i \in 1 .. Len(WrongNames) : WrongNames[i] \in X
    BY <2>1
  <2>3. \A i \in 1 .. Len(WrongNames) : Call("open", WrongNames[i]) \in S
    BY <1>1, <2>2 DEF Ops
  <2>4. Len(WrongNames) \in Nat
    BY <2>1
  <2>5. QED
    BY <2>3, <2>4
<1>10. NEG_FD \in X /\ BIG_FD \in X /\ 0 \in X /\ 1 \in X
  BY SMT DEF NEG_FD, BIG_FD
<1>6. <<Call("read", NEG_FD), Call("write", NEG_FD), Call("close", NEG_FD),
      Call("read", BIG_FD), Call("write", BIG_FD), Call("close", BIG_FD)>> \in Seq(S)
  <2>1. /\ Call("read", NEG_FD) \in S /\ Call("write", NEG_FD) \in S
        /\ Call("close", NEG_FD) \in S /\ Call("read", BIG_FD) \in S
        /\ Call("write", BIG_FD) \in S /\ Call("close", BIG_FD) \in S
    BY <1>1, <1>10, Zenon DEF Ops
  <2>2. QED
    BY <2>1, SMT
<1>7. <<Call("write", 0), Call("read", 1), Call("number", BIG_FD),
      Call("number", NEG_FD), Call("number", 0)>> \in Seq(S)
  <2>1. /\ Call("write", 0) \in S /\ Call("read", 1) \in S
        /\ Call("number", BIG_FD) \in S /\ Call("number", NEG_FD) \in S
        /\ Call("number", 0) \in S
    BY <1>1, <1>10, Zenon DEF Ops
  <2>2. QED
    BY <2>1, SMT
<1>11. ASSUME NEW s \in Seq(S), NEW t \in Seq(S)
       PROVE  s \o t \in Seq(S) /\ Len(s \o t) >= Len(t)
  BY ConcatProperties
<1>12. ASSUME NEW s \in Seq(S), NEW t \in Seq(S), Len(t) > 0
       PROVE  s \o t \in Seq(S) /\ Len(s \o t) > 0
  <2>1. s \o t \in Seq(S) /\ Len(s \o t) >= Len(t)
    BY <1>11
  <2>2. Len(s \o t) \in Nat /\ Len(t) \in Nat
    BY <2>1
  <2> DEFINE l == Len(s \o t)
             k == Len(t)
  <2>3. l >= k /\ k > 0 /\ l \in Nat /\ k \in Nat
    BY <1>12, <2>1, <2>2
  <2> HIDE DEF l, k
  <2>4. l > 0
    BY <2>3
  <2>5. QED
    BY <2>1, <2>4 DEF l
<1> DEFINE end == <<Call("write", 0), Call("read", 1), Call("number", BIG_FD),
                    Call("number", NEG_FD), Call("number", 0)>>
<1>13. Len(end) > 0
  OBVIOUS
<1>14. end \in Seq(S)
  BY <1>7
<1> HIDE DEF end
<1>8. Script \in Seq(S) /\ Len(Script) > 0
  <2>1. \E front \in Seq(S) : Script = front \o end
    BY <1>4, <1>5, <1>6, <1>11 DEF Script, end
  <2>2. QED
    BY <2>1, <1>12, <1>13, <1>14
<1>9. QED
  BY <1>8 DEF S

LEMMA SyserrStep ==
    ASSUME SoundImages, FilesInv, SyserrInv, Syserr
    PROVE  FilesInv' /\ SyserrInv'
<1> DEFINE c == Script[Len(out) + 1]
<1>1. /\ client = "syserr" /\ out \in Seq(Int) /\ Len(out) < Len(Script)
      /\ Invoke(c) /\ out' = Append(out, ret')
  BY DEF Syserr, SyserrInv
<1>2. c.op \in Ops
  <2> DEFINE S == {Call(op, x) : op \in Ops, x \in Int \cup Range(WrongNames)}
  <2>5. Script \in Seq(S)
    BY ScriptOK
  <2>1. \A r \in S : r.op \in Ops
    BY DEF Call
  <2>2. Len(out) + 1 \in 1 .. Len(Script)
    <3>1. Len(out) \in Nat /\ Len(Script) \in Nat
      BY <1>1, ScriptOK
    <3>2. QED
      BY <1>1, <3>1
  <2> HIDE DEF S
  <2>3. c \in S
    BY <2>2, <2>5, ElementOfSeq
  <2>4. QED
    BY <2>1, <2>3
<1> HIDE DEF c
<1>3. FilesInv'
  <2>1. CASE c.op = "read"
    <3>1. sys_read(c.arg, 31)
      BY <1>1, <2>1 DEF Invoke
    <3>2. QED
      BY <3>1, ReadStep
  <2>2. CASE c.op = "write"
    <3>1. sys_write(c.arg)
      BY <1>1, <2>2 DEF Invoke
    <3>2. QED
      BY <3>1, WriteStep
  <2>3. CASE c.op = "close"
    <3>1. sys_close(c.arg)
      BY <1>1, <2>3 DEF Invoke
    <3>2. QED
      BY <3>1, CloseStep
  <2>4. CASE c.op = "open"
    <3>1. sys_open(c.arg)
      BY <1>1, <2>4 DEF Invoke
    <3>2. QED
      BY <3>1, OpenStep
  <2>5. CASE c.op = "open dir"
    <3>1. sys_open(<<".">>)
      BY <1>1, <2>5 DEF Invoke
    <3>2. QED
      BY <3>1, OpenStep
  <2>6. CASE c.op = "number"
    <3>1. ret' \in {0, FAIL} /\ UNCHANGED <<image, fd_entry, got>>
      BY <1>1, <2>6 DEF Invoke
    <3>2. QED
      BY <3>1, NothingChanged
  <2>7. QED
    BY <1>2, <2>1, <2>2, <2>3, <2>4, <2>5, <2>6 DEF Ops
<1>4. SyserrInv'
  <2>1. ret' \in Int
    BY <1>3 DEF FilesInv, DescriptorsOK, FAIL
  <2>2. out' \in Seq(Int) /\ Len(out') = Len(out) + 1
    BY <1>1, <2>1
  <2>3. pc' # "exit" => Len(out') # Len(Script)
    BY DEF Syserr, Exit
  <2>4. Len(out) \in Nat /\ Len(Script) \in Nat
    BY <1>1, ScriptOK
  <2>5. Script' = Script
    BY DEF Script, Lots, OnEach, Call
  <2>6. QED
    BY <1>1, <2>2, <2>3, <2>4, <2>5 DEF SyserrInv
<1>5. QED
  BY <1>3, <1>4

\* The other steps of grep.
LEMMA GrepStep ==
    ASSUME SoundImages, FilesInv, GrepInv,
           GrepStart \/ GrepNext \/ GrepOpen \/ GrepFill \/ GrepLine \/ GrepClose
    PROVE  FilesInv' /\ GrepInv'
<1>1. CASE GrepStart
  <2>1. FilesInv'
    BY <1>1, OpenStep DEF GrepStart
  <2>2. last' = last /\ pc' # "line" /\ client' = client /\ pc = "start"
    BY <1>1 DEF GrepStart, Goto, Exit, grepVars
  <2>3. QED
    BY <1>1, <2>1, <2>2 DEF GrepInv, GrepStart
<1>2. CASE GrepNext
  <2>1. FilesInv'
    <3>1. FILENAME_LEN \in Nat
      BY FileSystemAssumption
    <3>2. sys_read(dfd, FILENAME_LEN)
      BY <1>2 DEF GrepNext
    <3>3. QED
      BY <3>1, <3>2, ReadStep
  <2>2. last' = last /\ client' = client /\ pc = "dir"
    BY <1>2 DEF GrepNext, grepVars
  <2>3. pc' # "line"
    BY <1>2 DEF GrepNext, Goto, Exit
  <2>4. QED
    BY <1>2, <2>1, <2>2, <2>3 DEF GrepInv, GrepNext
<1>3. CASE GrepOpen
  <2>1. FilesInv'
    BY <1>3, OpenStep DEF GrepOpen
  <2>2. last' = 0 /\ pc' # "line"
    BY <1>3 DEF GrepOpen, Goto, Exit
  <2>3. QED
    BY <2>1, <2>2, ProgramsAssumption DEF GrepInv
<1>4. CASE GrepFill
  BY <1>4, GrepFillStep
<1>5. CASE GrepLine
  BY <1>5, GrepLineStep
<1>6. CASE GrepClose
  <2>1. FilesInv'
    BY <1>6, CloseStep DEF GrepClose
  <2>2. last' = last /\ pc' # "line" /\ client' = client /\ pc = "close"
    BY <1>6 DEF GrepClose, Goto, Exit, grepVars
  <2>3. QED
    BY <1>6, <2>1, <2>2 DEF GrepInv, GrepClose
<1>7. QED
  BY <1>1, <1>2, <1>3, <1>4, <1>5, <1>6

\* Everything the programs rely on.
ProgramsInv ==
    /\ FilesInv
    /\ client \in Clients
    /\ CatInv /\ LsInv /\ GrepInv /\ SyserrInv

LEMMA ProgramsStart == ProgramsInit => ProgramsInv
<1> SUFFICES ASSUME ProgramsInit PROVE ProgramsInv
  OBVIOUS
<1>1. FilesInv /\ client \in Clients
  BY FilesInit DEF ProgramsInit
<1>2. pc = "start" /\ out = << >> /\ last = 0
  BY DEF ProgramsInit
<1>3. \A f \in Fds : fd_entry[f].flag = 0
  BY DEF ProgramsInit, Init, Closed
<1>4. CatInv /\ LsInv
  BY <1>2, <1>3 DEF CatInv, LsInv
<1>5. GrepInv
  BY <1>2, ProgramsAssumption DEF GrepInv
<1>6. SyserrInv
  <2>1. out \in Seq(Int) /\ Len(out) = 0
    BY <1>2
  <2>2. QED
    BY <2>1, ScriptOK DEF SyserrInv
<1>7. QED
  BY <1>1, <1>4, <1>5, <1>6 DEF ProgramsInv

LEMMA ProgramsStep ==
    ASSUME SoundImages, RootListed, ProgramsInv, [ProgramsNext]_<<vars, userVars>>
    PROVE  ProgramsInv'
<1>1. FilesInv /\ client \in Clients /\ CatInv /\ LsInv /\ GrepInv /\ SyserrInv
  BY DEF ProgramsInv
<1>2. CASE UNCHANGED <<vars, userVars>>
  <2>1. FilesInv'
    <3>1. ret' \in {FAIL} \cup Nat
      BY <1>1, <1>2 DEF vars, FilesInv, DescriptorsOK
    <3>2. QED
      BY <1>1, <1>2, <3>1, NothingChanged DEF vars
  <2>2. /\ client' = client /\ pc' = pc /\ code' = code /\ arg' = arg /\ out' = out
        /\ fd' = fd /\ last' = last /\ line_start' = line_start
        /\ image' = image /\ fd_entry' = fd_entry /\ got' = got
    BY <1>2 DEF vars, userVars, grepVars
  <2>3. CatInv'
    <3>1. read_dentry_by_name(arg)' = read_dentry_by_name(arg)
      BY <2>2, SameDentry
    <3>2. \A n : Content(n)' = Content(n)
      BY <2>2 DEF Content
    <3>3. QED
      BY <1>1, <2>2, <3>1, <3>2 DEF CatInv
  <2>4. LsInv'
    <3>1. Listed(Len(image.dir))' = Listed(Len(image.dir))
      BY <2>2 DEF Listed
    <3>2. QED
      BY <1>1, <2>2, <3>1 DEF LsInv
  <2>5. GrepInv'
    BY <1>1, <2>2 DEF GrepInv
  <2>6. SyserrInv'
    <3>1. Script' = Script
      BY DEF Script, Lots, OnEach, Call
    <3>2. QED
      BY <1>1, <2>2, <3>1 DEF SyserrInv
  <2>7. QED
    BY <1>1, <2>1, <2>2, <2>3, <2>4, <2>5, <2>6 DEF ProgramsInv
<1>3. CASE AnyCall
  <2>1. client = "any" /\ client' = client
    BY <1>3 DEF AnyCall, userVars
  <2>2. FilesInv'
    BY <1>1, <1>3, NextStep DEF AnyCall
  <2>3. QED
    BY <1>1, <2>1, <2>2 DEF ProgramsInv, CatInv, LsInv, GrepInv, SyserrInv
<1>4. CASE CatOpen \/ CatRead
  <2>1. client = "cat" /\ client' = client
    BY <1>4 DEF CatOpen, CatRead, Open
  <2>2. CatInv'
    BY <1>1, <1>4, CatOpenStep, CatReadStep
  <2>3. FilesInv'
    BY <1>1, <1>4, OpenStep, ReadStep, ProgramsAssumption DEF CatOpen, CatRead, Open
  <2>4. QED
    BY <1>1, <2>1, <2>2, <2>3 DEF ProgramsInv, LsInv, GrepInv, SyserrInv
<1>5. CASE LsOpen \/ LsRead
  <2>1. client = "ls" /\ client' = client
    BY <1>5 DEF LsOpen, LsRead, Open
  <2>2. LsInv'
    BY <1>1, <1>5, LsOpenStep, LsReadStep
  <2>3. FilesInv'
    BY <1>1, <1>5, OpenStep, ReadStep, FileSystemAssumption
    DEF LsOpen, LsRead, Open, LsBytes
  <2>4. QED
    BY <1>1, <2>1, <2>2, <2>3 DEF ProgramsInv, CatInv, GrepInv, SyserrInv
<1>6. CASE GrepStart \/ GrepNext \/ GrepOpen \/ GrepFill \/ GrepLine \/ GrepClose
  <2>1. client = "grep" /\ client' = client
    BY <1>6 DEF GrepStart, GrepNext, GrepOpen, GrepFill, GrepLine, GrepClose
  <2>2. FilesInv' /\ GrepInv'
    BY <1>1, <1>6, GrepStep
  <2>3. QED
    BY <1>1, <2>1, <2>2 DEF ProgramsInv, CatInv, LsInv, SyserrInv
<1>7. CASE Syserr
  <2>1. client = "syserr" /\ client' = client
    BY <1>7 DEF Syserr
  <2>2. FilesInv' /\ SyserrInv'
    BY <1>1, <1>7, SyserrStep
  <2>3. QED
    BY <1>1, <2>1, <2>2 DEF ProgramsInv, CatInv, LsInv, GrepInv
<1>8. QED
  BY <1>2, <1>3, <1>4, <1>5, <1>6, <1>7 DEF ProgramsNext

\* The inductive invariant of the programs.
THEOREM ProgramsInvariant == SoundImages /\ RootListed /\ ProgramsSpec => []ProgramsInv
<1>1. SoundImages /\ RootListed => (SoundImages /\ RootListed)'
  BY DEF SoundImages, RootListed
<1>2. QED
  BY <1>1, ProgramsStart, ProgramsStep, PTL DEF ProgramsSpec

\* The descriptors keep their types under every program.
THEOREM FilesTypeCorrect == SoundImages /\ RootListed /\ ProgramsSpec => []FilesTypeOK
<1>1. ProgramsInv => FilesTypeOK
  BY DEF ProgramsInv, FilesInv, DescriptorsOK, Descriptor, FilesTypeOK
<1>2. QED
  BY <1>1, ProgramsInvariant, PTL

\* read_data returns the bytes of the file that were asked for, whatever the
\* length of the file and the size of a block (file_system.c:116-169).
THEOREM ReadDataTheorem == SoundImages /\ RootListed /\ ProgramsSpec => []ReadDataMatches
<1>1. ProgramsInv => image \in Images
  BY DEF ProgramsInv, FilesInv, DescriptorsOK
<1>2. SoundImages => SoundImages'
  BY DEF SoundImages
<1>3. QED
  BY <1>1, <1>2, ReadDataMatchesAlways, ProgramsInvariant, PTL

\* Successive reads of an open file return its contents without a gap or an
\* overlap, whatever any number of other descriptors do in between.
THEOREM ReadsTheorem == SoundImages /\ RootListed /\ ProgramsSpec => []ReadsAreConsecutive
<1>1. ProgramsInv => ReadsAreConsecutive
  <2> SUFFICES ASSUME FilesInv, NEW f \in Fds, fd_entry[f].flag = 1,
                      fd_entry[f].filetype = FileType
               PROVE  LET whole == Content(fd_entry[f].inode)
                      IN  /\ fd_entry[f].file_pos <= Len(whole)
                          /\ got[f] = SubSeq(whole, 1, fd_entry[f].file_pos)
    BY DEF ProgramsInv, ReadsAreConsecutive
  <2> DEFINE n == fd_entry[f].inode
             pos == fd_entry[f].file_pos
  <2>1. image \in Images /\ n \in DOMAIN image.inode /\ pos \in Nat
    BY DEF FilesInv, DescriptorsOK, Descriptor
  <2>2. pos <= image.inode[n].length /\ got[f] = Slice(n, 0, pos)
    BY DEF FilesInv, FileAt
  <2>3. Len(Content(n)) = image.inode[n].length
    BY <2>1, ContentLength
  <2>4. SubSeq(Content(n), 1, pos) = Slice(n, 0, pos)
    <3>1. SubSeq(Content(n), 0 + 1, pos) = Slice(n, 0, pos)
      BY <2>1, <2>2, ContentSlice
    <3>2. 0 + 1 = 1
      OBVIOUS
    <3>3. QED
      BY <3>1, <3>2
  <2>5. QED
    BY <2>2, <2>3, <2>4
<1>2. QED
  BY <1>1, ProgramsInvariant, PTL

\* Successive reads of a directory list every name once, in order.
THEOREM ListingTheorem == SoundImages /\ RootListed /\ ProgramsSpec => []ListingComplete
<1>1. ProgramsInv => ListingComplete
  BY DEF ProgramsInv, FilesInv, ListAt, Listed, ListingComplete
<1>2. QED
  BY <1>1, ProgramsInvariant, PTL

\* cat has written the whole file when it leaves with status 0, and ls every
\* name, whatever their buffers and the blocks of the disk measure.
THEOREM CatAndLsTheorem == SoundImages /\ RootListed /\ ProgramsSpec => []CatAndLsComplete
<1>1. ProgramsInv => CatAndLsComplete
  BY DEF ProgramsInv, CatInv, LsInv, Listed, Finished, CatAndLsComplete
<1>2. QED
  BY <1>1, ProgramsInvariant, PTL

-----------------------------------------------------------------------------
(***************************************************************************)
(* The tests of syserr                                                     *)
(***************************************************************************)
\* After n tests of the script: descriptors are opened from the lowest up and
\* closed in the same order, and what is not an open that finds a descriptor, or
\* the close of one, has failed.
OpensEnd  == 6 + FD_MAX
ClosesEnd == 5 + 2 * FD_MAX

DescriptorsAfter(n) ==
    \A f \in Fds : fd_entry[f].flag = IF n - 4 - FD_MAX <= f /\ f < n - 4 THEN 1 ELSE 0
ResultsSoFar ==
    \A i \in 1 .. Len(out) :
        /\ i \in 7 .. OpensEnd - 1 => out[i] # FAIL
        /\ (i <= 6 \/ i = OpensEnd \/ i > ClosesEnd) => out[i] = FAIL

TestsInv ==
    client = "syserr" =>
        /\ out \in Seq(Int)
        /\ pc = "exit" => Len(out) = Len(Script)
        /\ DescriptorsAfter(Len(out))
        /\ ResultsSoFar

\* The calls of the last part of the script, which must fail once all descriptors
\* are closed, and all of its calls.
BadCalls ==
    {Call("open", WrongNames[j]) : j \in 1 .. Len(WrongNames)}
    \cup {Call(op, x) : op \in {"read", "write", "close"}, x \in Int}
    \cup {Call("number", x) : x \in {0, BIG_FD, NEG_FD}}
AllCalls == BadCalls \cup {Call("open dir", x) : x \in Int}

\* A script that starts with part p and goes on with calls that must fail.
GoesOn(s, p) ==
    /\ s \in Seq(AllCalls) /\ Len(s) >= Len(p)
    /\ \A i \in 1 .. Len(p) : s[i] = p[i]
    /\ \A i \in Len(p) + 1 .. Len(s) : s[i] \in BadCalls

LEMMA BadSeq == \A t \in Seq(BadCalls) : t \in Seq(AllCalls)
<1>1. BadCalls \subseteq AllCalls
  BY DEF AllCalls
<1>2. QED
  BY <1>1

LEMMA GoesOnLonger ==
    ASSUME NEW p \in Seq(AllCalls), NEW s, GoesOn(s, p), NEW t \in Seq(BadCalls)
    PROVE  GoesOn(s \o t, p)
<1>1. s \in Seq(AllCalls) /\ t \in Seq(AllCalls)
  BY BadSeq DEF GoesOn
<1>2. /\ s \o t \in Seq(AllCalls) /\ Len(s \o t) = Len(s) + Len(t)
      /\ \A i \in 1 .. Len(s) + Len(t) :
            (s \o t)[i] = IF i <= Len(s) THEN s[i] ELSE t[i - Len(s)]
  BY <1>1, ConcatProperties, Zenon
<1>3. PICK a, b, c \in Nat : a = Len(s) /\ b = Len(t) /\ c = Len(p)
  BY <1>1
<1>4. a >= c
  BY <1>3 DEF GoesOn
<1> DEFINE u == s \o t
<1>5. /\ u \in Seq(AllCalls) /\ Len(u) = a + b
      /\ \A i \in 1 .. a + b : u[i] = IF i <= a THEN s[i] ELSE t[i - a]
  BY <1>2, <1>3
<1> HIDE DEF u
<1>6. \A i \in 1 .. c : u[i] = p[i]
  BY <1>3, <1>4, <1>5 DEF GoesOn
<1>7. ASSUME NEW i \in c + 1 .. a + b PROVE u[i] \in BadCalls
  <2>1. CASE i <= a
    <3>1. s[i] \in BadCalls
      BY <1>3, <1>7, <2>1 DEF GoesOn
    <3>2. u[i] = s[i]
      BY <1>3, <1>4, <1>5, <1>7, <2>1
    <3>3. QED
      BY <3>1, <3>2
  <2>2. CASE ~(i <= a)
    <3>1. i - a \in 1 .. b /\ i \in 1 .. a + b
      BY <1>3, <1>4, <1>7, <2>2
    <3>2. u[i] = t[i - a]
      BY <1>5, <2>2, <3>1
    <3>3. t[i - a] \in BadCalls
      BY <1>3, <3>1, ElementOfSeq
    <3>4. QED
      BY <3>2, <3>3
  <2>3. QED
    BY <2>1, <2>2
<1>8. a + b >= c
  BY <1>3, <1>4
<1>9. GoesOn(u, p)
  BY <1>3, <1>5, <1>6, <1>7, <1>8 DEF GoesOn
<1>10. QED
  BY <1>9 DEF u

LEMMA OnEachIs ==
    ASSUME NEW op, NEW from \in Int, NEW to \in Int, to >= from - 1
    PROVE  /\ Len(OnEach(op, from, to)) = to - from + 1
           /\ \A i \in 1 .. to - from + 1 :
                 OnEach(op, from, to)[i] = Call(op, from + i - 1)
           /\ (\A x \in Int : Call(op, x) \in AllCalls) => OnEach(op, from, to) \in Seq(AllCalls)
           /\ (\A x \in Int : Call(op, x) \in BadCalls) => OnEach(op, from, to) \in Seq(BadCalls)
<1>1. PICK n \in Nat : n = to - from + 1
  OBVIOUS
<1>2. OnEach(op, from, to) = [i \in 1 .. n |-> Call(op, from + i - 1)]
  BY <1>1 DEF OnEach
<1>3. \A i \in 1 .. n : from + i - 1 \in Int
  BY <1>1
<1>4. Len([i \in 1 .. n |-> Call(op, from + i - 1)]) = n
  BY <1>1
<1>5. ASSUME NEW S, \A x \in Int : Call(op, x) \in S
      PROVE  [i \in 1 .. n |-> Call(op, from + i - 1)] \in Seq(S)
  <2>1. \A i \in 1 .. n : Call(op, from + i - 1) \in S
    BY <1>3, <1>5
  <2>2. QED
    BY <1>1, <2>1
<1>6. QED
  BY <1>1, <1>2, <1>4, <1>5, Zenon

LEMMA FdMaxIsNat == FD_MAX \in Nat /\ FD_MIN = 2
BY FileSystemAssumption DEF FD_MIN

\* The calls of the script, one by one up to the closes
LEMMA ScriptCalls ==
    ASSUME FD_MAX >= FD_MIN
    PROVE  /\ Len(Script) \in Nat /\ Len(Script) >= ClosesEnd + 5
           /\ \A i \in 1 .. 6 : \E op \in {"read", "write", "close"}, x \in {NEG_FD, BIG_FD} :
                 Script[i] = Call(op, x)
           /\ \A i \in 7 .. OpensEnd : Script[i].op = "open dir"
           /\ \A i \in OpensEnd + 1 .. ClosesEnd :
                 Script[i] = Call("close", i - 5 - FD_MAX)
           /\ \A i \in ClosesEnd + 1 .. Len(Script) : Script[i] \in BadCalls
<1> DEFINE m == FD_MAX
<1>1. m \in Nat /\ m >= 2
  BY FdMaxIsNat
<1>2. NEG_FD \in Int /\ BIG_FD \in Int
  BY SMT DEF NEG_FD, BIG_FD
<1>3. /\ \A op \in {"read", "write", "close"}, x \in Int :
            Call(op, x) \in BadCalls /\ Call(op, x) \in AllCalls
      /\ \A x \in Int : Call("open dir", x) \in AllCalls
      /\ \A x \in {0, BIG_FD, NEG_FD} : Call("number", x) \in BadCalls
      /\ \A j \in 1 .. Len(WrongNames) : Call("open", WrongNames[j]) \in BadCalls
  <2>1. /\ \A op \in {"read", "write", "close"}, x \in Int : Call(op, x) \in BadCalls
        /\ \A x \in {0, BIG_FD, NEG_FD} : Call("number", x) \in BadCalls
        /\ \A j \in 1 .. Len(WrongNames) : Call("open", WrongNames[j]) \in BadCalls
    BY DEF BadCalls
  <2>2. \A x \in Int : Call("open dir", x) \in AllCalls
    BY DEF AllCalls
  <2>3. \A c \in BadCalls : c \in AllCalls
    BY DEF AllCalls
  <2>4. QED
    BY <2>1, <2>2, <2>3, Zenon
<1> DEFINE s1 == <<Call("read", NEG_FD), Call("write", NEG_FD), Call("close", NEG_FD),
                   Call("read", BIG_FD), Call("write", BIG_FD), Call("close", BIG_FD)>>
           s3 == OnEach("close", 2, FD_MAX)
           s4 == [i \in 1 .. Len(WrongNames) |-> Call("open", WrongNames[i])]
           s5 == OnEach("close", 0, FD_MAX)
           s6 == OnEach("read", 2, FD_MAX)
           s7 == OnEach("write", 2, FD_MAX)
           s8 == <<Call("write", 0), Call("read", 1), Call("number", BIG_FD),
                   Call("number", NEG_FD), Call("number", 0)>>
<1>4. s1 \in Seq(AllCalls) /\ Len(s1) = 6
  <2>1. /\ Call("read", NEG_FD) \in AllCalls /\ Call("write", NEG_FD) \in AllCalls
        /\ Call("close", NEG_FD) \in AllCalls /\ Call("read", BIG_FD) \in AllCalls
        /\ Call("write", BIG_FD) \in AllCalls /\ Call("close", BIG_FD) \in AllCalls
    BY <1>2, <1>3, Zenon
  <2>2. QED
    BY <2>1, SMT
<1>5. \A i \in 1 .. 6 : \E op \in {"read", "write", "close"}, x \in {NEG_FD, BIG_FD} :
          s1[i] = Call(op, x)
  <2>1. \A i \in 1 .. 6 : i \in {1, 2, 3, 4, 5, 6}
    OBVIOUS
  <2>2. QED
    BY <2>1
<1>6. /\ Lots \in Seq(AllCalls) /\ Len(Lots) = m
      /\ \A i \in 1 .. m : Lots[i].op = "open dir"
  <2>1. /\ Lots = OnEach("open dir", 1, m) /\ m >= 1 - 1 /\ 1 \in Int /\ m \in Int
        /\ m - 1 + 1 = m
    BY <1>1 DEF Lots
  <2>2. Lots \in Seq(AllCalls) /\ Len(Lots) = m
        /\ \A i \in 1 .. m : Lots[i] = Call("open dir", 1 + i - 1)
    <3>1. \A x \in Int : Call("open dir", x) \in AllCalls
      BY <1>3
    <3>2. /\ OnEach("open dir", 1, m) \in Seq(AllCalls)
          /\ Len(OnEach("open dir", 1, m)) = m - 1 + 1
          /\ \A i \in 1 .. m - 1 + 1 :
                OnEach("open dir", 1, m)[i] = Call("open dir", 1 + i - 1)
      BY <2>1, <3>1, OnEachIs
    <3> HIDE DEF m
    <3>3. QED
      BY <2>1, <3>2, Zenon
  <2>3. \A x : Call("open dir", x).op = "open dir"
    BY DEF Call
  <2>4. QED
    BY <2>2, <2>3
<1>7. /\ s3 \in Seq(AllCalls) /\ Len(s3) = m - 1
      /\ \A i \in 1 .. m - 1 : s3[i] = Call("close", i + 1)
  <2>1. m >= 2 - 1 /\ 2 \in Int /\ m \in Int /\ m - 2 + 1 = m - 1
        /\ \A i \in 1 .. m - 1 : 2 + i - 1 = i + 1
    BY <1>1
  <2>4. \A x \in Int : Call("close", x) \in AllCalls
    BY <1>3
  <2>5. s3 \in Seq(AllCalls) /\ Len(s3) = m - 2 + 1
        /\ \A i \in 1 .. m - 2 + 1 : s3[i] = Call("close", 2 + i - 1)
    BY <2>1, <2>4, OnEachIs
  <2> HIDE DEF s3, m
  <2>2. s3 \in Seq(AllCalls) /\ Len(s3) = m - 1
        /\ \A i \in 1 .. m - 1 : s3[i] = Call("close", 2 + i - 1)
    BY <2>1, <2>5, Zenon
  <2>3. QED
    BY <2>1, <2>2, Zenon
<1>8. s4 \in Seq(BadCalls)
  <2>1. Len(WrongNames) \in Nat
    BY ProgramsAssumption
  <2>2. \A j \in 1 .. Len(WrongNames) : Call("open", WrongNames[j]) \in BadCalls
    BY <1>3
  <2>3. QED
    BY <2>1, <2>2
<1>9. s5 \in Seq(BadCalls) /\ s6 \in Seq(BadCalls) /\ s7 \in Seq(BadCalls)
  <2>1. m >= 2 - 1 /\ m >= 0 - 1 /\ 2 \in Int /\ 0 \in Int /\ m \in Int
    BY <1>1
  <2>2. QED
    BY <1>3, <2>1, OnEachIs, Zenon
<1>10. s8 \in Seq(BadCalls) /\ Len(s8) = 5
  <2>1. /\ Call("write", 0) \in BadCalls /\ Call("read", 1) \in BadCalls
        /\ Call("number", BIG_FD) \in BadCalls /\ Call("number", NEG_FD) \in BadCalls
        /\ Call("number", 0) \in BadCalls
    <3>1. 0 \in Int /\ 1 \in Int
      OBVIOUS
    <3>2. QED
      BY <1>2, <1>3, <3>1, Zenon
  <2>2. QED
    BY <2>1, SMT
<1>11. Script = s1 \o Lots \o s3 \o s4 \o s5 \o s6 \o s7 \o s8
  BY DEF Script
<1> HIDE DEF s1, s3, s4, s5, s6, s7, s8
<1> DEFINE p == s1 \o Lots \o s3
           q == s1 \o Lots
<1>12. /\ q \in Seq(AllCalls) /\ Len(q) = 6 + m
       /\ \A i \in 1 .. 6 + m : q[i] = IF i <= 6 THEN s1[i] ELSE Lots[i - 6]
  <2>1. /\ q \in Seq(AllCalls) /\ Len(q) = Len(s1) + Len(Lots)
        /\ \A i \in 1 .. Len(s1) + Len(Lots) :
              q[i] = IF i <= Len(s1) THEN s1[i] ELSE Lots[i - Len(s1)]
    BY <1>4, <1>6, ConcatProperties
  <2> HIDE DEF q, m
  <2>2. QED
    BY <1>4, <1>6, <2>1, Zenon
<1> HIDE DEF q
<1>13. /\ q \o s3 \in Seq(AllCalls) /\ Len(q \o s3) = (6 + m) + (m - 1)
       /\ \A i \in 1 .. (6 + m) + (m - 1) :
             (q \o s3)[i] = IF i <= 6 + m THEN q[i] ELSE s3[i - (6 + m)]
  <2>1. /\ q \o s3 \in Seq(AllCalls) /\ Len(q \o s3) = Len(q) + Len(s3)
        /\ \A i \in 1 .. Len(q) + Len(s3) :
              (q \o s3)[i] = IF i <= Len(q) THEN q[i] ELSE s3[i - Len(q)]
    BY <1>7, <1>12, ConcatProperties
  <2> HIDE DEF m
  <2>2. QED
    BY <1>7, <1>12, <2>1, Zenon
<1>14. p = q \o s3
  BY DEF q
<1> HIDE DEF p
<1>15. /\ p \in Seq(AllCalls) /\ Len(p) = ClosesEnd
       /\ \A i \in 1 .. ClosesEnd :
             p[i] = IF i <= 6 + m THEN q[i] ELSE s3[i - (6 + m)]
  <2>1. (6 + m) + (m - 1) = ClosesEnd
    BY <1>1 DEF ClosesEnd
  <2>2. QED
    BY <1>13, <1>14, <2>1, Zenon
<1>16. GoesOn(p, p)
  BY <1>15 DEF GoesOn
<1>17. GoesOn(p \o s4, p)
  BY <1>8, <1>15, <1>16, GoesOnLonger
<1>18. GoesOn(p \o s4 \o s5, p)
  BY <1>9, <1>15, <1>17, GoesOnLonger
<1>19. GoesOn(p \o s4 \o s5 \o s6, p)
  BY <1>9, <1>15, <1>18, GoesOnLonger
<1> DEFINE r == p \o s4 \o s5 \o s6 \o s7
<1>20. GoesOn(r, p)
  BY <1>9, <1>15, <1>19, GoesOnLonger
<1>21. Script = r \o s8
  BY <1>11 DEF p
<1> HIDE DEF r
<1>22. GoesOn(Script, p)
  BY <1>10, <1>15, <1>20, <1>21, GoesOnLonger
<1>23. Len(Script) >= ClosesEnd + 5 /\ Len(Script) \in Nat
  <2>1. r \in Seq(AllCalls) /\ s8 \in Seq(AllCalls) /\ Len(r) >= ClosesEnd
    BY <1>10, <1>15, <1>20, BadSeq DEF GoesOn
  <2>2. Len(Script) = Len(r) + 5
    BY <1>10, <1>21, <2>1, ConcatProperties
  <2>3. Len(r) \in Nat
    BY <2>1
  <2>4. ClosesEnd \in Nat
    BY <1>1 DEF ClosesEnd
  <2>5. QED
    BY <2>1, <2>2, <2>3, <2>4
<1>24. \A i \in 1 .. ClosesEnd : Script[i] = p[i]
  BY <1>15, <1>22 DEF GoesOn
<1>25. \A i \in ClosesEnd + 1 .. Len(Script) : Script[i] \in BadCalls
  BY <1>15, <1>22 DEF GoesOn
<1>26. ASSUME NEW i \in 1 .. 6
       PROVE  Script[i] = s1[i]
  <2>1. i \in 1 .. ClosesEnd /\ i <= 6 + m /\ i \in 1 .. 6 + m /\ i <= 6
    BY <1>1 DEF ClosesEnd
  <2>2. QED
    BY <1>12, <1>15, <1>24, <2>1
<1>27. ASSUME NEW i \in 7 .. OpensEnd
       PROVE  Script[i].op = "open dir"
  <2>1. i \in 1 .. ClosesEnd /\ i <= 6 + m /\ i \in 1 .. 6 + m /\ ~(i <= 6)
        /\ i - 6 \in 1 .. m
    BY <1>1 DEF ClosesEnd, OpensEnd
  <2>2. Script[i] = Lots[i - 6]
    BY <1>12, <1>15, <1>24, <2>1
  <2>3. QED
    BY <1>6, <2>1, <2>2
<1>28. ASSUME NEW i \in OpensEnd + 1 .. ClosesEnd
       PROVE  Script[i] = Call("close", i - 5 - FD_MAX)
  <2>1. i \in 1 .. ClosesEnd /\ ~(i <= 6 + m) /\ i - (6 + m) \in 1 .. m - 1
        /\ (i - (6 + m)) + 1 = i - 5 - FD_MAX
    BY <1>1 DEF ClosesEnd, OpensEnd
  <2>2. Script[i] = s3[i - (6 + m)]
    BY <1>15, <1>24, <2>1
  <2>3. s3[i - (6 + m)] = Call("close", (i - (6 + m)) + 1)
    BY <1>7, <2>1
  <2>4. QED
    BY <2>1, <2>2, <2>3
<1>29. QED
  BY <1>5, <1>23, <1>25, <1>26, <1>27, <1>28

\* "." can be opened as long as a descriptor is free: it becomes the lowest.
LEMMA OpenRoot ==
    ASSUME RootListed, FilesInv, FreeFds # {}, sys_open(<<".">>)
    PROVE  /\ ret' = find_next_fd /\ find_next_fd \in FreeFds
           /\ fd_entry'[find_next_fd].flag = 1
           /\ \A f \in Fds \ {find_next_fd} : fd_entry'[f] = fd_entry[f]
<1> DEFINE f == find_next_fd
           i == read_dentry_by_name(<<".">>)
           d == image.dir[i]
<1>1. f \in FreeFds /\ f \in Fds /\ image \in Images
  BY NextFdFree DEF FreeFds, FilesInv, DescriptorsOK
<1>2. Len(<<".">>) = 1 /\ <<".">> # << >> /\ FILENAME_LEN >= 1 /\ FILENAME_LEN \in Nat
  BY FileSystemAssumption
<1>3. \A x : SameName(<<".">>, x) <=> x = <<".">>
  BY <1>2 DEF SameName
<1>4. PICK j \in 1 .. Len(image.dir) : image.dir[j].name = <<".">>
  BY <1>1 DEF RootListed
<1>5. i # 0 /\ i \in 1 .. Len(image.dir) /\ d.name = <<".">>
  BY <1>1, <1>3, <1>4, DentryFound
<1>6. d.type = DirType
  BY <1>1, <1>5 DEF RootListed
<1>7. /\ fd_entry' = [fd_entry EXCEPT ![f] = NewEntry(f, d)]
      /\ ret' = IF d.type \notin {RtcType, DirType} /\ file_open(<<".">>) = FAIL
                THEN FAIL ELSE f
  BY <1>2, <1>5 DEF sys_open
<1> HIDE DEF f, d, i
<1>8. ret' = f
  BY <1>6, <1>7
<1>9. DOMAIN fd_entry = Fds
  BY DEF FilesInv, DescriptorsOK
<1>10. fd_entry'[f].flag = 1 /\ \A g \in Fds \ {f} : fd_entry'[g] = fd_entry[g]
  BY <1>1, <1>7, <1>9 DEF NewEntry
<1>11. QED
  BY <1>1, <1>8, <1>10 DEF f

\* A closed descriptor, or none at all, is refused.
LEMMA Refused ==
    ASSUME ErrorsKnown, FilesInv, NEW c, Invoke(c),
           \/ /\ c \in BadCalls
              /\ \A f \in Fds : fd_entry[f].flag = 0
           \/ \E op \in {"read", "write", "close"}, x \in Int \ Fds : c = Call(op, x)
    PROVE  ret' = FAIL /\ fd_entry' = fd_entry
<1>1. CASE \E op \in {"read", "write", "close"}, x \in Int :
              c = Call(op, x) /\ (x \in Fds => fd_entry[x].flag = 0)
  <2>1. PICK op \in {"read", "write", "close"}, x \in Int :
            c = Call(op, x) /\ (x \in Fds => fd_entry[x].flag = 0)
    BY <1>1
  <2>2. c.op = op /\ c.arg = x
    BY <2>1 DEF Call
  <2>3. CASE op = "read"
    <3>1. sys_read(x, 31)
      BY <2>2, <2>3 DEF Invoke
    <3>2. QED
      BY <2>1, <3>1 DEF sys_read, Failed
  <2>4. CASE op = "write"
    <3>1. sys_write(x)
      BY <2>2, <2>4 DEF Invoke
    <3>2. QED
      BY <3>1 DEF sys_write, Failed
  <2>5. CASE op = "close"
    <3>1. sys_close(x)
      BY <2>2, <2>5 DEF Invoke
    <3>2. QED
      BY <2>1, <3>1 DEF sys_close, Failed
  <2>6. QED
    BY <2>3, <2>4, <2>5
<1>2. CASE \E j \in 1 .. Len(WrongNames) : c = Call("open", WrongNames[j])
  <2>1. PICK j \in 1 .. Len(WrongNames) : c = Call("open", WrongNames[j])
    BY <1>2
  <2>2. c.op = "open" /\ c.arg = WrongNames[j]
    BY <2>1 DEF Call
  <2>3. sys_open(WrongNames[j])
    BY <2>2 DEF Invoke
  <2>4. image \in Images
    BY DEF FilesInv, DescriptorsOK
  <2>5. WrongNames[j] = << >> \/ read_dentry_by_name(WrongNames[j]) = 0
    BY <2>4, DentryFound DEF ErrorsKnown
  <2>6. QED
    BY <2>3, <2>5 DEF sys_open, Failed
<1>3. CASE \E x \in {0, BIG_FD, NEG_FD} : c = Call("number", x)
  <2>1. PICK x \in {0, BIG_FD, NEG_FD} : c = Call("number", x)
    BY <1>3
  <2>2. c.op = "number" /\ c.arg = x
    BY <2>1 DEF Call
  <2>3. x \notin 1 .. 10
    BY SMT DEF BIG_FD, NEG_FD
  <2>4. QED
    BY <2>2, <2>3 DEF Invoke, ValidNumber
<1>4. QED
  BY <1>1, <1>2, <1>3 DEF BadCalls

\* One more test
LEMMA TestStep ==
    ASSUME SoundImages, RootListed, ErrorsKnown, FilesInv, SyserrInv, TestsInv, Syserr
    PROVE  TestsInv'
<1> DEFINE m == FD_MAX
           n == Len(out)
           c == Script[n + 1]
<1>1. m \in Nat /\ m >= 2 /\ FD_MAX >= FD_MIN /\ Fds = 2 .. m
  BY FdMaxIsNat DEF RootListed, Fds
<1>2. /\ client = "syserr" /\ pc # "exit" /\ out \in Seq(Int) /\ n \in Nat
      /\ n < Len(Script) /\ Len(Script) \in Nat
      /\ DescriptorsAfter(n) /\ ResultsSoFar
  <2>1. client = "syserr" /\ pc # "exit"
    BY DEF Syserr
  <2>2. out \in Seq(Int) /\ n < Len(Script)
    BY <2>1 DEF SyserrInv
  <2>3. Len(Script) \in Nat
    BY <1>1, ScriptCalls
  <2>4. DescriptorsAfter(Len(out)) /\ ResultsSoFar
    BY <2>1 DEF TestsInv
  <2>5. n \in Nat
    BY <2>2
  <2>6. QED
    BY <2>1, <2>2, <2>3, <2>4, <2>5
<1>3. /\ Invoke(c) /\ out' = Append(out, ret')
      /\ pc' = "exit" => Len(out') = Len(Script)
  BY <1>2 DEF Syserr, Goto
<1>4. ret' \in Int
  <2>1. FilesInv'
    BY SyserrStep
  <2>2. QED
    BY <2>1 DEF FilesInv, DescriptorsOK, FAIL
<1>5. Script' = Script
  BY DEF Script, Lots, OnEach, Call
<1> HIDE DEF c
<1>6. /\ \A f \in Fds : fd_entry'[f].flag =
              IF n + 1 - 4 - m <= f /\ f < n + 1 - 4 THEN 1 ELSE 0
      /\ n + 1 \in 7 .. OpensEnd - 1 => ret' # FAIL
      /\ (n + 1 <= 6 \/ n + 1 = OpensEnd \/ n + 1 > ClosesEnd) => ret' = FAIL
  <2>1. \A f \in Fds : fd_entry[f].flag = IF n - 4 - m <= f /\ f < n - 4 THEN 1 ELSE 0
    BY <1>2 DEF DescriptorsAfter
  <2> HIDE DEF n
  <2>2. CASE n + 1 \in 1 .. 6
    <3>1. PICK op \in {"read", "write", "close"}, x \in {NEG_FD, BIG_FD} : c = Call(op, x)
      BY <1>1, <2>2, ScriptCalls DEF c
    <3>2. x \in Int \ Fds
      BY <1>1, SMT DEF NEG_FD, BIG_FD, ErrorsKnown
    <3>3. ret' = FAIL /\ fd_entry' = fd_entry
      BY <1>3, <3>1, <3>2, Refused
    <3>4. \A f \in Fds : fd_entry[f].flag =
              IF n + 1 - 4 - m <= f /\ f < n + 1 - 4 THEN 1 ELSE 0
      <4>1. \A f \in 2 .. m : ~(f < n - 4) /\ ~(f < n + 1 - 4)
        BY <1>1, <1>2, <2>2
      <4>2. QED
        BY <1>1, <2>1, <4>1
    <3>5. ~(n + 1 \in 7 .. OpensEnd - 1)
      BY <2>2
    <3>6. QED
      BY <3>3, <3>4, <3>5
  <2>3. CASE n + 1 \in 7 .. OpensEnd
    <3>1. c.op = "open dir"
      BY <1>1, <2>3, ScriptCalls DEF c
    <3>2. sys_open(<<".">>)
      BY <1>3, <3>1 DEF Invoke
    <3>3. n - 4 \in Nat /\ n - 4 >= 2 /\ n - 4 <= m + 1 /\ n - 4 - m <= 1
      BY <1>1, <1>2, <2>3 DEF OpensEnd
    <3>4. \A f \in 2 .. m : n - 4 - m <= f /\ (f < n - 4 \/ n - 4 <= f)
      BY <1>1, <1>2, <3>3
    <3>5. \A f \in Fds : fd_entry[f].flag = IF f < n - 4 THEN 1 ELSE 0
      BY <1>1, <2>1, <3>4
    <3>6. FreeFds = n - 4 .. m
      <4>1. \A f \in 2 .. m : fd_entry[f].flag = 0 <=> f >= n - 4
        BY <1>1, <1>2, <3>4, <3>5
      <4>2. FreeFds = {f \in 2 .. m : f >= n - 4}
        BY <1>1, <4>1 DEF FreeFds
      <4>3. QED
        BY <1>1, <1>2, <3>3, <4>2
    <3>7. CASE n + 1 = OpensEnd
      <4>1. FreeFds = {}
        BY <1>1, <1>2, <3>6, <3>7 DEF OpensEnd
      <4>2. ret' = FAIL /\ fd_entry' = fd_entry
        BY <3>2, <4>1 DEF sys_open, Failed
      <4>3. \A f \in 2 .. m : f < n - 4 /\ f < n + 1 - 4 /\ n + 1 - 4 - m <= f
        BY <1>1, <1>2, <3>7 DEF OpensEnd
      <4>4. \A f \in Fds : fd_entry[f].flag =
              IF n + 1 - 4 - m <= f /\ f < n + 1 - 4 THEN 1 ELSE 0
        BY <1>1, <3>5, <4>3
      <4>5. ~(n + 1 \in 7 .. OpensEnd - 1)
        BY <1>1, <3>7 DEF OpensEnd
      <4>6. QED
        BY <4>2, <4>4, <4>5
    <3>8. CASE n + 1 # OpensEnd
      <4>1. n - 4 \in FreeFds /\ n - 4 <= m
        BY <1>1, <1>2, <2>3, <3>3, <3>6, <3>8 DEF OpensEnd
      <4>2. find_next_fd = n - 4
        <5>1. n - 4 \in FreeFds /\ \A g \in FreeFds : n - 4 <= g
          BY <3>6, <4>1
        <5>2. \A f \in FreeFds : (\A g \in FreeFds : f <= g) => f = n - 4
          BY <1>1, <1>2, <3>6, <4>1
        <5>3. QED
          BY <5>1, <5>2 DEF find_next_fd
      <4>3. /\ ret' = n - 4 /\ fd_entry'[n - 4].flag = 1
            /\ \A f \in Fds \ {n - 4} : fd_entry'[f] = fd_entry[f]
        BY <3>2, <4>1, <4>2, OpenRoot
      <4>4. \A f \in 2 .. m : /\ n + 1 - 4 - m <= f
                              /\ f < n + 1 - 4 <=> (f < n - 4 \/ f = n - 4)
        BY <1>1, <1>2, <2>3, <3>8 DEF OpensEnd
      <4>5. \A f \in Fds : fd_entry'[f].flag = IF f < n + 1 - 4 THEN 1 ELSE 0
        BY <1>1, <3>5, <4>3, <4>4
      <4>6. \A f \in Fds : fd_entry'[f].flag =
              IF n + 1 - 4 - m <= f /\ f < n + 1 - 4 THEN 1 ELSE 0
        BY <1>1, <4>4, <4>5
      <4>7. ret' # FAIL
        BY <3>3, <4>3 DEF FAIL
      <4>8. ~(n + 1 <= 6) /\ ~(n + 1 > ClosesEnd)
        BY <1>1, <1>2, <2>3 DEF OpensEnd, ClosesEnd
      <4>9. QED
        BY <3>8, <4>6, <4>7, <4>8
    <3>9. QED
      BY <3>7, <3>8
  <2>4. CASE n + 1 \in OpensEnd + 1 .. ClosesEnd
    <3>1. c = Call("close", (n + 1) - 5 - m)
      BY <1>1, <2>4, ScriptCalls DEF c
    <3> DEFINE f == (n + 1) - 5 - m
    <3>2. c.op = "close" /\ c.arg = f
      BY <3>1 DEF Call
    <3>3. sys_close(f)
      BY <1>3, <3>2 DEF Invoke
    <3>4. f \in 2 .. m /\ f = n - 4 - m /\ f < n - 4
      BY <1>1, <1>2, <2>4 DEF OpensEnd, ClosesEnd
    <3>5. \A g \in 2 .. m : g < n - 4 /\ g < n + 1 - 4
      BY <1>1, <1>2, <2>4 DEF OpensEnd, ClosesEnd
    <3> HIDE DEF f
    <3>6. \A g \in Fds : fd_entry[g].flag = IF f <= g THEN 1 ELSE 0
      BY <1>1, <2>1, <3>4, <3>5
    <3>7. f \in Fds /\ fd_entry[f].flag = 1
      BY <1>1, <3>4, <3>6
    <3>8. fd_entry' = [fd_entry EXCEPT ![f].flag = 0]
      BY <3>3, <3>7 DEF sys_close
    <3>9. fd_entry'[f].flag = 0 /\ \A g \in Fds \ {f} : fd_entry'[g] = fd_entry[g]
      BY <3>7, <3>8 DEF FilesInv, DescriptorsOK, Descriptor
    <3>10. \A g \in 2 .. m : n + 1 - 4 - m <= g <=> (f <= g /\ g # f)
      BY <1>1, <1>2, <3>4
    <3>11. \A g \in Fds : fd_entry'[g].flag =
              IF n + 1 - 4 - m <= g /\ g < n + 1 - 4 THEN 1 ELSE 0
      BY <1>1, <3>5, <3>6, <3>9, <3>10
    <3>12. /\ ~(n + 1 \in 7 .. OpensEnd - 1)
           /\ ~(n + 1 <= 6 \/ n + 1 = OpensEnd \/ n + 1 > ClosesEnd)
      BY <1>1, <1>2, <2>4 DEF OpensEnd, ClosesEnd
    <3>13. QED
      BY <3>11, <3>12
  <2>5. CASE n + 1 > ClosesEnd
    <3>1. n + 1 \in ClosesEnd + 1 .. Len(Script)
      BY <1>1, <1>2, <2>5 DEF ClosesEnd, n
    <3>2. c \in BadCalls
      BY <1>1, <3>1, ScriptCalls DEF c
    <3>3. \A f \in 2 .. m : ~(n - 4 - m <= f) /\ ~(n + 1 - 4 - m <= f)
      BY <1>1, <1>2, <2>5 DEF ClosesEnd
    <3>4. \A f \in Fds : fd_entry[f].flag = 0
      BY <1>1, <2>1, <3>3
    <3>5. ret' = FAIL /\ fd_entry' = fd_entry
      BY <1>3, <3>2, <3>4, Refused
    <3>6. ~(n + 1 \in 7 .. OpensEnd - 1)
      BY <1>1, <1>2, <2>5 DEF OpensEnd, ClosesEnd
    <3>7. QED
      BY <1>1, <3>3, <3>4, <3>5, <3>6
  <2>6. \/ n + 1 \in 1 .. 6 \/ n + 1 \in 7 .. OpensEnd
        \/ n + 1 \in OpensEnd + 1 .. ClosesEnd \/ n + 1 > ClosesEnd
    BY <1>1, <1>2 DEF OpensEnd, ClosesEnd
  <2>7. QED
    BY <2>2, <2>3, <2>4, <2>5, <2>6
<1>7. /\ out' \in Seq(Int) /\ Len(out') = n + 1 /\ out'[n + 1] = ret'
      /\ \A i \in 1 .. n : out'[i] = out[i]
  BY <1>2, <1>3, <1>4
<1>8. DescriptorsAfter(Len(out))'
  <2>1. \A f \in Fds : fd_entry'[f].flag =
            IF Len(out') - 4 - FD_MAX <= f /\ f < Len(out') - 4 THEN 1 ELSE 0
    <3>1. Len(out') = n + 1
      BY <1>7
    <3>2. QED
      BY <1>1, <1>2, <1>6, <3>1, SMTT(20)
  <2>2. QED
    BY <2>1 DEF DescriptorsAfter
<1>9. ResultsSoFar'
  <2> SUFFICES ASSUME NEW i \in 1 .. n + 1
               PROVE  /\ i \in 7 .. OpensEnd - 1 => out'[i] # FAIL
                      /\ (i <= 6 \/ i = OpensEnd \/ i > ClosesEnd) => out'[i] = FAIL
    BY <1>7 DEF ResultsSoFar, OpensEnd, ClosesEnd
  <2>1. CASE i \in 1 .. n
    BY <1>2, <1>7, <2>1 DEF ResultsSoFar
  <2>2. CASE i = n + 1
    BY <1>6, <1>7, <2>2
  <2>3. QED
    BY <1>2, <2>1, <2>2
<1>10. QED
  BY <1>3, <1>5, <1>7, <1>8, <1>9 DEF TestsInv

\* syserr finds what it expects: of as many opens as there are descriptors with
\* stdin just one fails, everything else that is wrong is refused, and nothing stays
\* open.
THEOREM SyserrTheorem ==
    SoundImages /\ RootListed /\ ErrorsKnown /\ ProgramsSpec => []SyserrPasses
<1>1. ErrorsKnown => ErrorsKnown'
  BY DEF ErrorsKnown, SameName
<1>2. ProgramsInit => TestsInv
  <2> SUFFICES ASSUME ProgramsInit PROVE TestsInv
    OBVIOUS
  <2>1. out = << >> /\ pc = "start" /\ \A f \in Fds : fd_entry[f].flag = 0
    BY DEF ProgramsInit, Init, Closed
  <2>2. \A f \in Fds : ~(f < 0 - 4)
    BY FdMaxIsNat DEF Fds
  <2>3. Len(out) = 0 /\ out \in Seq(Int)
    BY <2>1
  <2>4. DescriptorsAfter(Len(out)) /\ ResultsSoFar
    BY <2>1, <2>2, <2>3 DEF DescriptorsAfter, ResultsSoFar
  <2>5. QED
    BY <2>1, <2>3, <2>4 DEF TestsInv
<1>3. /\ SoundImages /\ RootListed /\ ErrorsKnown /\ ProgramsInv /\ TestsInv
      /\ [ProgramsNext]_<<vars, userVars>>
      => TestsInv'
  <2> SUFFICES ASSUME SoundImages, RootListed, ErrorsKnown, ProgramsInv, TestsInv,
                      [ProgramsNext]_<<vars, userVars>>
               PROVE  TestsInv'
    OBVIOUS
  <2>1. CASE Syserr
    BY <2>1, TestStep DEF ProgramsInv
  <2>2. CASE UNCHANGED <<vars, userVars>>
    <3>1. Script' = Script
      BY DEF Script, Lots, OnEach, Call
    <3>2. out' = out /\ client' = client /\ pc' = pc /\ fd_entry' = fd_entry
      BY <2>2 DEF vars, userVars
    <3>3. DescriptorsAfter(Len(out)) => DescriptorsAfter(Len(out))'
      BY <3>2 DEF DescriptorsAfter
    <3>4. ResultsSoFar => ResultsSoFar'
      BY <3>2 DEF ResultsSoFar, OpensEnd, ClosesEnd
    <3>5. QED
      BY <3>1, <3>2, <3>3, <3>4 DEF TestsInv
  <2>3. CASE ProgramsNext /\ ~Syserr
    <3>1. client # "syserr" /\ client' = client
      BY <2>3 DEF ProgramsNext, AnyCall, userVars, CatOpen, CatRead, LsOpen, LsRead,
                  GrepStart, GrepNext, GrepOpen, GrepFill, GrepLine, GrepClose, Open
    <3>2. QED
      BY <3>1 DEF TestsInv
  <2>4. QED
    BY <2>1, <2>2, <2>3
<1>4. RootListed /\ TestsInv => SyserrPasses
  <2> SUFFICES ASSUME RootListed, TestsInv, Finished("syserr") PROVE SyserrPasses
    BY DEF SyserrPasses
  <2>1. /\ out \in Seq(Int) /\ Len(out) = Len(Script) /\ DescriptorsAfter(Len(out))
        /\ ResultsSoFar
    BY DEF Finished, TestsInv
  <2>2. FD_MAX \in Nat /\ FD_MAX >= 2 /\ FD_MAX >= FD_MIN
    BY FdMaxIsNat DEF RootListed
  <2>3. PICK n \in Nat : n = Len(out) /\ n >= ClosesEnd + 5 /\ DOMAIN out = 1 .. n
    <3>1. Len(Script) \in Nat /\ Len(Script) >= ClosesEnd + 5
      BY <2>2, ScriptCalls
    <3>2. DOMAIN out = 1 .. Len(out)
      BY <2>1
    <3>3. QED
      BY <2>1, <3>1, <3>2
  <2>4. {i \in 7 .. 6 + FD_MAX : out[i] = FAIL} = {6 + FD_MAX}
    <3>1. \A i \in 7 .. 6 + FD_MAX : out[i] = FAIL <=> i = 6 + FD_MAX
      <4>1. \A i \in 7 .. 6 + FD_MAX : i \in 1 .. n
        BY <2>2, <2>3 DEF ClosesEnd
      <4>2. \A i \in 7 .. 6 + FD_MAX : i \in 7 .. OpensEnd - 1 \/ i = OpensEnd
        BY <2>2 DEF OpensEnd
      <4>3. QED
        BY <2>1, <2>3, <4>1, <4>2 DEF ResultsSoFar, OpensEnd
    <3>2. 6 + FD_MAX \in 7 .. 6 + FD_MAX
      BY <2>2
    <3>3. QED
      BY <3>1, <3>2
  <2>5. Cardinality({6 + FD_MAX}) = 1
    BY FS_Singleton
  <2>6. \A i \in DOMAIN out \ (7 .. 6 + FD_MAX \cup 7 + FD_MAX .. 5 + 2 * FD_MAX) :
            out[i] = FAIL
    <3>1. \A i \in 1 .. n : i \notin 7 .. 6 + FD_MAX /\ i \notin 7 + FD_MAX .. 5 + 2 * FD_MAX
              => i <= 6 \/ i > ClosesEnd
      BY <2>2 DEF ClosesEnd
    <3>2. QED
      BY <2>1, <2>3, <3>1 DEF ResultsSoFar
  <2>7. \A f \in Fds : fd_entry[f].flag = 0
    <3>1. \A f \in Fds : ~(n - 4 - FD_MAX <= f)
      BY <2>2, <2>3 DEF Fds, FD_MIN, ClosesEnd
    <3>2. QED
      BY <2>1, <2>3, <3>1 DEF DescriptorsAfter
  <2>8. QED
    BY <2>4, <2>5, <2>6, <2>7 DEF SyserrPasses
<1>5. SoundImages /\ RootListed => (SoundImages /\ RootListed)'
  BY DEF SoundImages, RootListed
<1>6. QED
  BY <1>1, <1>2, <1>3, <1>4, <1>5, ProgramsInvariant, PTL DEF ProgramsSpec

-----------------------------------------------------------------------------
(***************************************************************************)
(* The lines that grep finds                                               *)
(***************************************************************************)
\* The texts of the directory's entries; only files that are searched have one.
TextOf ==
    [i \in 1 .. Len(image.dir) |->
        IF i \in Searched THEN Chars(image.dir[i].inode) ELSE << >>]

\* What grep is to write of each entry, by the character at which a line starts
LinesOf ==
    [i \in 1 .. Len(image.dir) |->
        [k \in 1 .. Len(TextOf[i]) |-> LineFrom(image.dir[i].name, TextOf[i], arg, k)]]

\* Where a line may be searched from: at its start, or at the NL that ends one
\* which has filled the buffer.
Begins(c, p) == p = 0 \/ p = Len(c) \/ c[p] = NL \/ c[p + 1] = NL

\* The line at i ends before the first NL from i on.
LEMMA LineAtIs ==
    ASSUME NEW c, Len(c) \in Nat, NEW i \in 1 .. Len(c), NEW e \in i - 1 .. Len(c),
           e = Len(c) \/ c[e + 1] = NL, \A k \in i .. e : c[k] # NL
    PROVE  LineAt(c, i) = SubSeq(c, i, e)
<1> DEFINE P(j) == /\ j = Len(c) + 1 \/ c[j] = NL
                   /\ \A k \in i .. j - 1 : c[k] # NL
           stop == CHOOSE j \in i .. Len(c) + 1 : P(j)
<1>1. e + 1 \in i .. Len(c) + 1 /\ P(e + 1)
  <2>1. e + 1 \in i .. Len(c) + 1 /\ (e + 1) - 1 = e
    OBVIOUS
  <2>2. QED
    BY <2>1
<1>2. ASSUME NEW j \in i .. Len(c) + 1, P(j)
      PROVE  j = e + 1
  <2>1. CASE j <= e
    <3>1. j \in i .. e /\ j # Len(c) + 1
      BY <2>1
    <3>2. QED
      BY <1>2, <3>1
  <2>2. CASE j > e + 1
    <3>1. e + 1 \in i .. j - 1 /\ e # Len(c)
      BY <2>2
    <3>2. QED
      BY <1>2, <3>1
  <2>3. QED
    BY <2>1, <2>2
<1> HIDE DEF P
<1>3. stop = e + 1
  BY <1>1, <1>2
<1>4. LineAt(c, i) = SubSeq(c, i, stop - 1)
  BY DEF LineAt, P
<1>5. stop - 1 = e
  <2>1. e \in Int
    OBVIOUS
  <2> HIDE DEF stop
  <2>2. QED
    BY <1>3, <2>1
<1>6. QED
  BY <1>4, <1>5

\* What grep writes of a line l of a file
Hit(name, l, s) == IF Holds(l, s) THEN <<<<name, l>>>> ELSE << >>

\* A line may be searched from p and ends at e.
Span(c, p, e) ==
    /\ p \in 0 .. Len(c) /\ e \in p .. Len(c) /\ Begins(c, p)
    /\ \A k \in p + 1 .. e : c[k] # NL
    /\ e = Len(c) \/ c[e + 1] = NL

\* What is to be written for each character of text c
AreLines(s, name, c, ptn) == \A k \in 1 .. Len(c) : s[k] = LineFrom(name, c, ptn, k)

Searching(s, name, c, ptn, p, e) ==
    /\ Len(c) \in Nat /\ Len(ptn) \in Nat /\ Len(ptn) > 0
    /\ Span(c, p, e) /\ AreLines(s, name, c, ptn)

\* Between a place where a line may be searched from and the end of that line there
\* is nothing to be written but the line; and nothing at the NL behind it.
LEMMA SearchLine ==
    ASSUME NEW s, NEW name, NEW c, NEW ptn, NEW p, NEW e, Searching(s, name, c, ptn, p, e)
    PROVE  /\ Flat(s, e) = Flat(s, p) \o Hit(name, SubSeq(c, p + 1, e), ptn)
           /\ e < Len(c) =>
                  Flat(s, e + 1) = Flat(s, p) \o Hit(name, SubSeq(c, p + 1, e), ptn)
<1> DEFINE n == Len(c)
           M == {<<name, LineAt(c, k)>> : k \in 1 .. n}
<1>9. /\ Len(c) \in Nat /\ Len(ptn) \in Nat /\ Len(ptn) > 0
      /\ Span(c, p, e) /\ AreLines(s, name, c, ptn)
  BY DEF Searching
<1>0. /\ p \in 0 .. n /\ e \in p .. n /\ Begins(c, p) /\ (e = n \/ c[e + 1] = NL)
      /\ \A k \in p + 1 .. e : c[k] # NL
  BY <1>9 DEF Span
<1>1. n \in Nat /\ p \in Nat /\ e \in Nat /\ p <= e /\ e <= n /\ p <= n
  BY <1>0, <1>9
<1>2. \A k \in 1 .. n : s[k] \in Seq(M)
  <2> SUFFICES ASSUME NEW k \in 1 .. n PROVE s[k] \in Seq(M)
    OBVIOUS
  <2>1. s[k] = << >> \/ s[k] = <<<<name, LineAt(c, k)>>>>
    BY <1>9 DEF LineFrom, AreLines
  <2>2. <<name, LineAt(c, k)>> \in M
    OBVIOUS
  <2> HIDE DEF M
  <2>3. <<<<name, LineAt(c, k)>>>> \in Seq(M) /\ << >> \in Seq(M)
    BY <2>2
  <2>4. QED
    BY <2>1, <2>3
<1> HIDE DEF M
<1>3. ASSUME NEW k \in 1 .. n, k > p + 1, k <= e
      PROVE  s[k] = << >>
  <2>1. k # 1 /\ k - 1 \in p + 1 .. e
    BY <1>1, <1>3
  <2>2. k \notin Starts(c)
    BY <1>0, <2>1 DEF Starts
  <2>3. QED
    BY <1>1, <1>3, <1>9, <2>2 DEF LineFrom, AreLines
<1>4. ASSUME e < n
      PROVE  s[e + 1] = << >> /\ e + 1 \in 1 .. n
  <2>1. e + 1 \in 1 .. n /\ e \in (e + 1) - 1 .. n /\ e # n
    BY <1>1, <1>4
  <2>2. \A k \in e + 1 .. e : c[k] # NL
    BY <1>1
  <2>3. LineAt(c, e + 1) = SubSeq(c, e + 1, e)
    BY <1>0, <1>1, <2>1, <2>2, LineAtIs
  <2>4. Len(LineAt(c, e + 1)) = 0
    BY <1>1, <2>3
  <2>5. ~Holds(LineAt(c, e + 1), ptn)
    BY <1>9, <2>4 DEF Holds
  <2>6. QED
    BY <1>9, <2>1, <2>5 DEF LineFrom, AreLines
<1> DEFINE hit == Hit(name, SubSeq(c, p + 1, e), ptn)
<1>5. \A k \in 0 .. n : Flat(s, k) \in Seq(M)
  BY <1>1, <1>2, FlatSeq
<1>6. CASE e = p
  <2>1. Len(SubSeq(c, p + 1, e)) = 0
    BY <1>1, <1>6
  <2>2. hit = << >>
    <3>1. 0 .. 0 - Len(ptn) = {}
      BY <1>9
    <3>2. ~Holds(SubSeq(c, p + 1, e), ptn)
      BY <2>1, <3>1 DEF Holds
    <3>3. QED
      BY <3>2 DEF Hit
  <2>3. Flat(s, p) \in Seq(M)
    BY <1>1, <1>5
  <2>4. Flat(s, p) \o << >> = Flat(s, p)
    BY <2>3, ConcatEmptySeq
  <2>5. ASSUME e < n PROVE Flat(s, e + 1) = Flat(s, p)
    <3>1. \A k \in 1 .. p + 1 : s[k] \in Seq(M)
      BY <1>1, <1>2, <1>6, <2>5
    <3>2. Flat(s, p + 1) = Flat(s, p) \o s[p + 1]
      BY <1>1, <3>1, FlatStep
    <3>3. QED
      BY <1>4, <1>6, <2>4, <2>5, <3>2
  <2> HIDE DEF hit
  <2>6. QED
    BY <1>6, <2>2, <2>4, <2>5 DEF hit
<1>7. CASE e # p
  <2>1. p + 1 \in 1 .. n /\ p + 1 <= e /\ e \in (p + 1) - 1 .. n /\ p # n /\ p + 1 \in Nat
    BY <1>1, <1>7
  <2>2. p + 1 \in Starts(c)
    <3>1. c[p + 1] # NL
      BY <1>0, <1>1, <2>1
    <3>2. p = 0 \/ c[p] = NL
      BY <1>0, <2>1, <3>1 DEF Begins
    <3>3. p = 0 => p + 1 = 1
      OBVIOUS
    <3>4. (p + 1) - 1 = p
      BY <1>1
    <3>5. QED
      BY <2>1, <3>2, <3>3, <3>4 DEF Starts
  <2>3. LineAt(c, p + 1) = SubSeq(c, p + 1, e)
    BY <1>0, <1>1, <2>1, LineAtIs
  <2>4. s[p + 1] = hit
    BY <2>1, <2>2, <1>9, <2>3 DEF LineFrom, Hit, AreLines
  <2> HIDE DEF hit
  <2>5. Flat(s, p + 1) = Flat(s, p) \o hit
    <3>1. \A k \in 1 .. p + 1 : s[k] \in Seq(M)
      BY <1>1, <1>2, <2>1
    <3>2. QED
      BY <1>1, <2>4, <3>1, FlatStep
  <2>6. Flat(s, e) = Flat(s, p + 1)
    <3>1. \A k \in (p + 1) + 1 .. e : s[k] = << >>
      BY <1>1, <1>3
    <3>2. \A k \in 1 .. e : s[k] \in Seq(M)
      BY <1>1, <1>2
    <3>3. QED
      BY <1>1, <2>1, <3>1, <3>2, FlatSame
  <2>7. ASSUME e < n PROVE Flat(s, e + 1) = Flat(s, e)
    <3>1. \A k \in 1 .. e + 1 : s[k] \in Seq(M)
      BY <1>1, <1>2, <2>7
    <3>2. Flat(s, e + 1) = Flat(s, e) \o s[e + 1]
      BY <1>1, <3>1, FlatStep
    <3>3. Flat(s, e) \in Seq(M)
      BY <1>1, <1>5
    <3>4. QED
      BY <1>4, <2>7, <3>2, <3>3, ConcatEmptySeq
  <2>8. QED
    BY <2>5, <2>6, <2>7 DEF hit
<1>8. QED
  BY <1>6, <1>7

\* A line that fills size characters and may not be longer ends there.
LEMMA FullLine ==
    ASSUME NEW M, NEW c \in Seq(M), NEW p \in 0 .. Len(c), NEW e \in p + 1 .. Len(c),
           Begins(c, p), \A k \in p + 1 .. e : c[k] # NL,
           \A k \in Starts(c) : Len(LineAt(c, k)) <= e - p
    PROVE  e = Len(c) \/ c[e + 1] = NL
<1> DEFINE n == Len(c)
           T == {j \in e .. n : j = n \/ c[j + 1] = NL}
<1>0. Len(c) \in Nat
  OBVIOUS
<1>1. n \in Nat /\ p \in Nat /\ e \in Nat /\ p < e /\ e <= n
  OBVIOUS
<1>2. T \subseteq Nat /\ n \in T
  BY <1>1
<1>3. PICK q \in T : \A j \in T : q <= j
  <2> HIDE DEF T
  <2>1. QED
    BY <1>2, LeastElement
<1>4. q \in e .. n /\ (q = n \/ c[q + 1] = NL) /\ q \in Nat
  BY <1>1
<1>5. p + 1 \in Starts(c)
  <2>1. p # n /\ p + 1 \in 1 .. n /\ p + 1 \in p + 1 .. e /\ (p + 1) - 1 = p
    BY <1>1
  <2>2. p = 0 \/ c[p] = NL
    BY <2>1 DEF Begins
  <2>3. p = 0 => p + 1 = 1
    OBVIOUS
  <2>4. QED
    BY <2>1, <2>2, <2>3 DEF Starts
<1>6. \A k \in p + 1 .. q : c[k] # NL
  <2> SUFFICES ASSUME NEW k \in p + 1 .. q PROVE c[k] # NL
    OBVIOUS
  <2>1. CASE k <= e
    BY <1>1, <2>1
  <2>2. CASE k > e
    <3>1. k - 1 \in e .. n /\ k - 1 # n /\ ~(q <= k - 1) /\ (k - 1) + 1 = k
      BY <1>1, <1>4, <2>2
    <3>2. k - 1 \notin T
      BY <1>3, <3>1, Zenon
    <3>3. QED
      BY <3>1, <3>2
  <2>3. QED
    BY <1>1, <2>1, <2>2
<1>7. LineAt(c, p + 1) = SubSeq(c, p + 1, q)
  <2>1. p + 1 \in 1 .. n /\ q \in (p + 1) - 1 .. n
    BY <1>1, <1>4
  <2>2. QED
    BY <1>0, <1>4, <1>6, <2>1, LineAtIs
<1>8. Len(LineAt(c, p + 1)) = q - p
  <2>1. p + 1 \in 1 .. n + 1 /\ q \in (p + 1) - 1 .. n /\ (q - (p + 1)) + 1 = q - p
    BY <1>1, <1>4
  <2>2. Len(SubSeq(c, p + 1, q)) = (q - (p + 1)) + 1
    BY <2>1, SubSeqProperties
  <2>3. QED
    BY <1>7, <2>1, <2>2
<1>9. q - p <= e - p
  BY <1>5, <1>8
<1>10. q = e
  BY <1>1, <1>4, <1>9
<1>11. QED
  BY <1>4, <1>10

\* What is to be written of entry i in front of character p of its text, and the
\* places of the text where a line may be searched from.
Part ==
    [i \in 1 .. Len(image.dir) |->
        [p \in 0 .. Len(TextOf[i]) |-> Flat(LinesOf[i], p)]]
Breaks ==
    [i \in 1 .. Len(image.dir) |->
        {p \in 0 .. Len(TextOf[i]) : Begins(TextOf[i], p)}]

\* What is said of entry i is said of texts only.
Readable(i) == i \in Searched => TextFile(i)

\* Only searched files have characters, those of the bytes of their blocks.
LEMMA TextShape ==
    ASSUME image \in Images, NEW i \in 1 .. Len(image.dir)
    PROVE  /\ Len(TextOf[i]) \in Nat /\ TextOf[i] \in Seq(Range(TextOf[i]))
           /\ i \notin Searched => Len(TextOf[i]) = 0
           /\ i \in Searched =>
                LET n == image.dir[i].inode IN
                /\ Len(TextOf[i]) = image.inode[n].length
                /\ \A k \in 1 .. Len(TextOf[i]) : TextOf[i][k] = text[Byte(n, k - 1)]
<1> DEFINE n == image.dir[i].inode
           c == TextOf[i]
<1>1. n \in DOMAIN image.inode /\ image.inode[n].length \in Nat
  BY ImageShape
<1>2. CASE i \notin Searched
  <2>1. c = << >>
    BY <1>2 DEF TextOf
  <2> HIDE DEF c
  <2>2. Len(c) = 0 /\ c \in Seq(Range(c))
    BY <2>1
  <2>3. QED
    BY <1>2, <2>2 DEF c
<1>3. CASE i \in Searched
  <2>1. c = Chars(n)
    BY <1>3 DEF TextOf
  <2>2. PICK len \in Nat : len = image.inode[n].length
    BY <1>1
  <2>3. c = [k \in 1 .. len |-> text[Content(n)[k]]]
    BY <2>1, <2>2 DEF Chars
  <2>4. \A k \in 1 .. len : Content(n)[k] = Byte(n, k - 1)
    BY <2>2 DEF Content, Byte
  <2> HIDE DEF c
  <2>5. Len(c) = len /\ \A k \in 1 .. len : c[k] = text[Byte(n, k - 1)]
    BY <2>3, <2>4
  <2>6. c \in Seq(Range(c))
    <3>1. DOMAIN c = 1 .. len /\ c = [k \in 1 .. len |-> c[k]]
      BY <2>3
    <3>2. \A k \in 1 .. len : c[k] \in Range(c)
      BY <3>1 DEF Range
    <3>3. \A R : (\A k \in 1 .. len : c[k] \in R) => [k \in 1 .. len |-> c[k]] \in Seq(R)
      BY <2>2
    <3>4. QED
      BY <3>1, <3>2, <3>3
  <2>7. QED
    BY <1>3, <2>2, <2>5, <2>6 DEF c
<1>4. QED
  BY <1>2, <1>3

\* What grep can read holds no NUL and no line longer than the buffer.
LEMMA PlainText ==
    ASSUME image \in Images, NEW i \in 1 .. Len(image.dir), Readable(i)
    PROVE  /\ \A k \in 1 .. Len(TextOf[i]) : TextOf[i][k] # NUL
           /\ \A k \in Starts(TextOf[i]) : Len(LineAt(TextOf[i], k)) <= BUFSIZE
<1>1. CASE i \in Searched
  <2>1. TextOf[i] = Chars(image.dir[i].inode)
    BY <1>1 DEF TextOf
  <2>2. QED
    BY <1>1, <2>1 DEF Readable, TextFile
<1>2. CASE i \notin Searched
  <2>1. 1 .. Len(TextOf[i]) = {}
    BY <1>2, TextShape
  <2>2. QED
    BY <2>1 DEF Starts
<1>3. QED
  BY <1>1, <1>2

\* Before its first character there is nothing to be written of an entry; of a text
\* all that is to be written is what the property asks for.
LEMMA PartIs ==
    ASSUME image \in Images, NEW i \in 1 .. Len(image.dir)
    PROVE  /\ Part[i][0] = << >>
           /\ i \notin Searched => Part[i][Len(TextOf[i])] = << >>
           /\ i \in Searched =>
                Part[i][Len(TextOf[i])] =
                    LinesWith(image.dir[i].name, Chars(image.dir[i].inode), arg)
<1>1. Len(TextOf[i]) \in Nat
  BY TextShape
<1>2. /\ Part[i][0] = Flat(LinesOf[i], 0)
      /\ Part[i][Len(TextOf[i])] = Flat(LinesOf[i], Len(TextOf[i]))
  BY <1>1 DEF Part
<1>3. Part[i][0] = << >>
  BY <1>2, FlatEmpty
<1>4. CASE i \in Searched
  <2>1. TextOf[i] = Chars(image.dir[i].inode)
    BY <1>4 DEF TextOf
  <2>2. PICK c, name : c = TextOf[i] /\ name = image.dir[i].name
    OBVIOUS
  <2>3. LinesOf[i] = [k \in 1 .. Len(c) |-> LineFrom(name, c, arg, k)]
    BY <2>2 DEF LinesOf
  <2>4. \A k \in 1 .. Len(c) : LinesOf[i][k] = LineFrom(name, c, arg, k)
    BY <2>3
  <2>5. [k \in 1 .. Len(c) |-> LinesOf[i][k]]
            = [k \in 1 .. Len(c) |-> LineFrom(name, c, arg, k)]
    BY <2>4
  <2>6. Flat(LinesOf[i], Len(c)) = LinesWith(name, c, arg)
    BY <2>5 DEF Flat, LinesWith
  <2>7. QED
    BY <1>2, <1>3, <1>4, <2>1, <2>2, <2>6
<1>5. CASE i \notin Searched
  <2>1. Len(TextOf[i]) = 0
    BY <1>5, TextShape
  <2>2. QED
    BY <1>3, <1>5, <2>1
<1>6. QED
  BY <1>4, <1>5

\* One line more of an entry
LEMMA LineFound ==
    ASSUME image \in Images, arg \in Patterns,
           NEW i \in 1 .. Len(image.dir), NEW p \in Breaks[i],
           NEW e \in p .. Len(TextOf[i]), \A k \in p + 1 .. e : TextOf[i][k] # NL,
           e = Len(TextOf[i]) \/ TextOf[i][e + 1] = NL
    PROVE  LET name == image.dir[i].name
               line == SubSeq(TextOf[i], p + 1, e)
               now  == IF Holds(line, arg) THEN Append(Part[i][p], <<name, line>>)
                       ELSE Part[i][p]
           IN  /\ e \in Breaks[i] /\ Part[i][e] = now
               /\ e < Len(TextOf[i]) => e + 1 \in Breaks[i] /\ Part[i][e + 1] = now
<1> DEFINE c    == TextOf[i]
           n    == Len(c)
           name == image.dir[i].name
           line == SubSeq(c, p + 1, e)
           hit  == Hit(name, line, arg)
<1>1. n \in Nat
  BY TextShape
<1>2. p \in 0 .. n /\ Begins(c, p) /\ e \in Nat /\ e \in 0 .. n /\ p \in Nat
  BY <1>1 DEF Breaks
<1>3. Len(arg) \in Nat /\ Len(arg) > 0
  BY ProgramsAssumption
<1>4. LinesOf[i] = [k \in 1 .. n |-> LineFrom(name, c, arg, k)]
  BY DEF LinesOf
<1>5. /\ Flat(LinesOf[i], e) = Flat(LinesOf[i], p) \o hit
      /\ e < n => Flat(LinesOf[i], e + 1) = Flat(LinesOf[i], p) \o hit
  <2>1. PICK d, nm, ptn, s : d = c /\ nm = name /\ ptn = arg /\ s = LinesOf[i]
    OBVIOUS
  <2>2. Span(d, p, e) /\ Len(d) \in Nat
    BY <1>1, <1>2, <2>1 DEF Span
  <2>3. AreLines(s, nm, d, ptn)
    BY <1>4, <2>1 DEF AreLines
  <2>4. Len(ptn) \in Nat /\ Len(ptn) > 0
    BY <1>3, <2>1
  <2>5. /\ Flat(s, e) = Flat(s, p) \o Hit(nm, SubSeq(d, p + 1, e), ptn)
        /\ e < Len(d) => Flat(s, e + 1) = Flat(s, p) \o Hit(nm, SubSeq(d, p + 1, e), ptn)
    <3>1. Searching(s, nm, d, ptn, p, e)
      BY <2>2, <2>3, <2>4 DEF Searching
    <3>2. QED
      BY <3>1, SearchLine
  <2>6. QED
    BY <2>1, <2>5
<1>6. PICK M : M = {<<name, LineAt(c, k)>> : k \in 1 .. n}
                       \cup {<<name, SubSeq(c, p + 1, e)>>}
  OBVIOUS
<1>7. \A k \in 1 .. n : LinesOf[i][k] \in Seq(M)
  <2> SUFFICES ASSUME NEW k \in 1 .. n PROVE LinesOf[i][k] \in Seq(M)
    OBVIOUS
  <2>1. <<name, LineAt(c, k)>> \in M
    BY <1>6
  <2>2. LinesOf[i][k] = << >> \/ LinesOf[i][k] = <<<<name, LineAt(c, k)>>>>
    BY <1>4 DEF LineFrom
  <2>3. << >> \in Seq(M) /\ <<<<name, LineAt(c, k)>>>> \in Seq(M)
    BY <2>1
  <2>4. QED
    BY <2>2, <2>3
<1>8. Flat(LinesOf[i], p) \in Seq(M)
  <2>1. \A k \in 1 .. p : LinesOf[i][k] \in Seq(M)
    BY <1>1, <1>2, <1>7
  <2>2. QED
    BY <1>2, <2>1, FlatSeq
<1>9. /\ Part[i][p] = Flat(LinesOf[i], p) /\ Part[i][e] = Flat(LinesOf[i], e)
      /\ e < n => Part[i][e + 1] = Flat(LinesOf[i], e + 1)
  <2>1. e < n => e + 1 \in 0 .. n
    BY <1>1, <1>2
  <2>2. QED
    BY <1>2, <2>1 DEF Part
<1>10. e \in Breaks[i] /\ (e < n => e + 1 \in Breaks[i])
  <2>1. Begins(c, e)
    BY DEF Begins
  <2>2. ASSUME e < n PROVE e + 1 \in 0 .. n /\ Begins(c, e + 1)
    <3>1. e # n /\ e + 1 \in 0 .. n
      BY <1>1, <1>2, <2>2
    <3>2. QED
      BY <3>1 DEF Begins
  <2>3. QED
    BY <1>2, <2>1, <2>2 DEF Breaks
<1> HIDE DEF hit
<1>11. Part[i][p] \o hit =
           IF Holds(line, arg) THEN Append(Part[i][p], <<name, line>>) ELSE Part[i][p]
  <2>1. PICK sofar \in Seq(M) : sofar = Part[i][p]
    BY <1>8, <1>9
  <2>2. sofar \o << >> = sofar
    BY ConcatEmptySeq
  <2>3. <<name, line>> \in M
    BY <1>6
  <2> HIDE DEF line, name
  <2>4. sofar \o <<<<name, line>>>> = Append(sofar, <<name, line>>)
    BY <2>3
  <2>5. QED
    BY <2>1, <2>2, <2>4 DEF hit, Hit
<1>12. QED
  BY <1>5, <1>9, <1>10, <1>11 DEF hit

\* All of this is of the image, the text and the pattern.
LEMMA SameTexts ==
    ASSUME image' = image, text' = text, arg' = arg
    PROVE  /\ TextOf' = TextOf /\ Breaks' = Breaks /\ Part' = Part
           /\ \A i : Readable(i)' <=> Readable(i)
<1>1. Searched' = Searched
  BY DEF Searched
<1>2. TextOf' = TextOf
  BY <1>1 DEF TextOf, Chars, Content
<1>3. LinesOf' = LinesOf
  BY <1>2 DEF LinesOf, LineFrom
<1>4. Breaks' = Breaks
  BY <1>2 DEF Breaks, Begins
<1>5. Part' = Part
  BY <1>2, <1>3 DEF Part, Flat
<1>6. \A i : Readable(i)' <=> Readable(i)
  BY <1>1 DEF Readable, TextFile, Chars, Content
<1>7. QED
  BY <1>2, <1>4, <1>5, <1>6

\* The open of an entry that is not named twice, while a descriptor is free
LEMMA OpenNamed ==
    ASSUME PlainFiles, FilesInv, NEW j \in 1 .. Len(image.dir), FreeFds # {},
           sys_open(image.dir[j].name)
    PROVE  /\ image' = image /\ ret' = find_next_fd /\ find_next_fd \in FreeFds
           /\ ret' # FAIL
           /\ fd_entry' = [fd_entry EXCEPT ![find_next_fd] =
                              [flag |-> 1, inode |-> image.dir[j].inode, file_pos |-> 0,
                               filetype |-> image.dir[j].type]]
<1> DEFINE f == find_next_fd
           name == image.dir[j].name
           i == read_dentry_by_name(name)
           d == image.dir[i]
<1>1. f \in FreeFds /\ f \in Fds /\ image \in Images
  BY NextFdFree DEF FreeFds, FilesInv, DescriptorsOK
<1>2. /\ name \in Seq(Range(name)) /\ Len(name) \in Nat /\ Len(name) \in 1 .. FILENAME_LEN
      /\ FILENAME_LEN \in Nat
  BY <1>1, ImageShape, FileSystemAssumption
<1>3. name # << >> /\ ~(Len(name) > FILENAME_LEN)
  BY <1>2
<1>4. \A x : SameName(name, x) <=> x = name
  BY <1>3 DEF SameName
<1>5. i # 0 /\ i \in 1 .. Len(image.dir) /\ d.name = name
  BY <1>1, <1>4, DentryFound
<1>6. i = j
  BY <1>1, <1>5 DEF PlainFiles
<1>7. /\ fd_entry' = [fd_entry EXCEPT ![f] = NewEntry(f, d)]
      /\ ret' = IF d.type \notin {RtcType, DirType} /\ file_open(name) = FAIL
                THEN FAIL ELSE f
      /\ image' = image
  BY <1>3, <1>5 DEF sys_open
<1>8. file_open(name) # FAIL
  BY <1>3 DEF file_open, FAIL
<1> HIDE DEF f, d, i
<1>9. ret' = f
  BY <1>7, <1>8
<1>10. f # FAIL
  BY <1>1, FileSystemAssumption DEF Fds, FD_MIN, FAIL
<1>11. NewEntry(f, d) = [flag |-> 1, inode |-> image.dir[j].inode, file_pos |-> 0,
                         filetype |-> image.dir[j].type]
  BY <1>6 DEF NewEntry, d
<1>12. QED
  BY <1>1, <1>7, <1>9, <1>10, <1>11 DEF f

\* The entry that grep is at, from 1, and what it has read of its file
Current   == fd_entry[dfd].file_pos
ReadSoFar == fd_entry[fd].file_pos

\* grep holds the directory open, is at an entry that is to be searched, and has
\* its file open; it has no other descriptor.
DirOpen ==
    /\ dfd \in Fds /\ fd_entry[dfd].flag = 1 /\ fd_entry[dfd].filetype = DirType
    /\ Current \in 0 .. Len(image.dir)
Alone == \A f \in Fds \ {dfd} : fd_entry[f].flag = 0
InEntry ==
    /\ Current \in 1 .. Len(image.dir)
    /\ fname = image.dir[Current].name /\ Head(fname) # "."
FileOpen ==
    /\ DirOpen /\ InEntry
    /\ fd \in Fds \ {dfd} /\ fd_entry[fd].flag = 1
    /\ fd_entry[fd].inode = image.dir[Current].inode
    /\ fd_entry[fd].filetype = image.dir[Current].type
    /\ ReadSoFar \in 0 .. Len(TextOf[Current])
    /\ \A f \in Fds \ {dfd, fd} : fd_entry[f].flag = 0

\* Of every entry up to the n-th grep has written what it is to write, and of those
\* in front of the one it is at.
Wrote(n) ==
    /\ \E S : out \in Seq(S)
    /\ Len(out) = n
    /\ \A j \in 1 .. n : Readable(j) => out[j] = Part[j][Len(TextOf[j])]
Before ==
    /\ \E S : out \in Seq(S)
    /\ Len(out) = Current
    /\ \A j \in 1 .. Current - 1 : Readable(j) => out[j] = Part[j][Len(TextOf[j])]

\* While a text is open the buffer holds what has been read of it last, and what is in
\* front of that, and of line_start in it, has been searched.
TextFill ==
    /\ last <= ReadSoFar
    /\ \A i \in 0 .. last - 1 : data[i] = TextOf[Current][(ReadSoFar - last) + i + 1]
    /\ ReadSoFar - last \in Breaks[Current]
    /\ out[Current] = Part[Current][ReadSoFar - last]
TextLine ==
    /\ last <= ReadSoFar
    /\ \A i \in line_start .. last - 1 :
          data[i] = TextOf[Current][(ReadSoFar - last) + i + 1]
    /\ (ReadSoFar - last) + line_start \in Breaks[Current]
    /\ out[Current] = Part[Current][(ReadSoFar - last) + line_start]
    /\ last = BUFSIZE \/ ReadSoFar = Len(TextOf[Current])
    /\ IF cnt = 0 THEN ReadSoFar = Len(TextOf[Current]) ELSE data[last] # NL

\* What grep has written, by where it is.
AtStart == out = << >> /\ \A f \in Fds : fd_entry[f].flag = 0
AtDir   == DirOpen /\ Alone /\ Wrote(Current)
AtOpen  ==
    /\ DirOpen /\ Alone /\ InEntry /\ Before
    /\ Readable(Current) => out[Current] = << >>
AtFill  ==
    /\ FileOpen /\ last < BUFSIZE /\ Before
    /\ Readable(Current) => TextFill
AtLine  == FileOpen /\ Before /\ (Readable(Current) => TextLine)
AtClose == FileOpen /\ Wrote(Current)
AtExit  == code = 0 /\ Wrote(Len(image.dir))

BufferOK ==
    /\ text \in Texts(image) /\ arg \in Patterns
    /\ DOMAIN data = 0 .. BUFSIZE /\ data[BUFSIZE] # NL

FoundInv ==
    client = "grep" =>
        /\ BufferOK
        /\ pc = "start" => AtStart
        /\ pc = "dir"   => AtDir
        /\ pc = "open"  => AtOpen
        /\ pc = "fill"  => AtFill
        /\ pc = "line"  => AtLine
        /\ pc = "close" => AtClose
        /\ pc = "exit"  => AtExit

\* What is written stays written.
LEMMA SameOutput ==
    ASSUME image' = image, text' = text, arg' = arg, out' = out
    PROVE  /\ \A n : Wrote(n)' <=> Wrote(n)
           /\ Current' = Current => (Before' <=> Before)
<1>1. TextOf' = TextOf /\ Part' = Part /\ \A i : Readable(i)' <=> Readable(i)
  BY SameTexts
<1>2. QED
  BY <1>1 DEF Wrote, Before

\* grep opens the directory.
LEMMA StartFound ==
    ASSUME PlainFiles, RootListed, FilesInv, AtStart, GrepStart
    PROVE  pc' = "dir" /\ AtDir'
<1>1. image \in Images /\ fd_entry \in [Fds -> Descriptor]
  BY DEF FilesInv, DescriptorsOK
<1>2. PICK j \in 1 .. Len(image.dir) :
          image.dir[j].name = <<".">> /\ image.dir[j].type = DirType
  BY <1>1 DEF RootListed
<1>3. FreeFds # {}
  <2>1. FD_MIN \in Fds
    BY FileSystemAssumption DEF RootListed, Fds, FD_MIN
  <2>2. QED
    BY <2>1 DEF AtStart, FreeFds
<1>4. sys_open(image.dir[j].name)
  BY <1>2 DEF GrepStart
<1>5. PICK f \in FreeFds :
          /\ image' = image /\ ret' = f /\ f # FAIL
          /\ fd_entry' = [fd_entry EXCEPT ![f] =
                             [flag |-> 1, inode |-> image.dir[j].inode, file_pos |-> 0,
                              filetype |-> image.dir[j].type]]
  BY <1>3, <1>4, OpenNamed
<1>6. pc' = "dir" /\ dfd' = f /\ out' = << >> /\ text' = text /\ arg' = arg
  BY <1>5 DEF GrepStart, Goto, AtStart
<1>7. /\ f \in Fds /\ fd_entry'[f].flag = 1 /\ fd_entry'[f].filetype = DirType
      /\ fd_entry'[f].file_pos = 0
      /\ \A g \in Fds \ {f} : fd_entry'[g].flag = 0
  BY <1>1, <1>2, <1>5 DEF FreeFds, AtStart
<1>8. Wrote(0)' /\ Len(image.dir) \in Nat
  <2>1. out' \in Seq({}) /\ Len(out') = 0 /\ 1 .. 0 = {}
    BY <1>6
  <2>2. QED
    BY <1>1, <2>1, ImageShape DEF Wrote
<1>9. DirOpen' /\ Current' = 0
  BY <1>5, <1>6, <1>7, <1>8 DEF DirOpen, Current
<1>10. QED
  BY <1>6, <1>7, <1>8, <1>9 DEF AtDir, Alone

\* It writes nothing yet of an entry whose name it has just read.
LEMMA NewEntryWritten ==
    ASSUME NEW n \in Nat, Wrote(n), out' = Append(out, << >>), Current' = n + 1,
           image' = image, text' = text, arg' = arg
    PROVE  Before' /\ out'[n + 1] = << >>
<1>1. PICK S : out \in Seq(S)
  BY DEF Wrote
<1>2. PICK T : T = S \cup {<< >>}
  OBVIOUS
<1>3. out \in Seq(T) /\ << >> \in T /\ Len(out) = n
  <2>1. S \subseteq T /\ << >> \in T
    BY <1>2
  <2>2. out \in Seq(T)
    BY <1>1, <2>1
  <2>3. QED
    BY <2>1, <2>2 DEF Wrote
<1>4. PICK w : w = << >>
  OBVIOUS
<1>5. w \in T /\ out' = Append(out, w)
  BY <1>3, <1>4
<1>6. /\ out' \in Seq(T) /\ Len(out') = n + 1 /\ out'[n + 1] = w
      /\ \A j \in 1 .. n : out'[j] = out[j]
  BY <1>3, <1>5
<1>7. TextOf' = TextOf /\ Part' = Part /\ \A i : Readable(i)' <=> Readable(i)
  BY SameTexts
<1>8. \A j \in 1 .. n : Readable(j)' => out'[j] = Part'[j][Len(TextOf'[j])]
  BY <1>6, <1>7 DEF Wrote
<1>9. Current' - 1 = n
  OBVIOUS
<1>10. QED
  BY <1>4, <1>6, <1>8, <1>9 DEF Before

\* grep takes the next name.
LEMMA NextFound ==
    ASSUME SoundImages, PlainFiles, FilesInv, AtDir, GrepNext
    PROVE  \/ pc' = "dir"  /\ AtDir'
           \/ pc' = "open" /\ AtOpen'
           \/ pc' = "exit" /\ AtExit'
<1> DEFINE name == image.dir[Current + 1].name
<1>1. /\ image \in Images /\ fd_entry \in [Fds -> Descriptor] /\ Current \in Nat
      /\ dfd \in Fds /\ fd_entry[dfd].flag = 1 /\ fd_entry[dfd].filetype = DirType
  BY DEF FilesInv, DescriptorsOK, AtDir, DirOpen, Current, Descriptor
<1>2. sys_read(dfd, FILENAME_LEN) /\ UNCHANGED <<dfd, text, arg>>
  BY DEF GrepNext
<1>3. /\ image' = image
      /\ \/ /\ Current + 1 \in 1 .. Len(image.dir)
            /\ ret' = Len(name) /\ Len(name) \in Nat \ {0}
            /\ fd_entry' = [fd_entry EXCEPT ![dfd].file_pos = Current + 1]
            /\ SubSeq(Received(dfd)[1], 1, ret') = name
         \/ Current = Len(image.dir) /\ ret' = 0 /\ fd_entry' = fd_entry
  BY <1>1, <1>2, NextName DEF Current
<1>4. TextOf' = TextOf /\ Part' = Part /\ \A i : Readable(i)' <=> Readable(i)
  BY <1>2, <1>3, SameTexts
<1>5. CASE /\ Current + 1 \in 1 .. Len(image.dir)
           /\ ret' = Len(name) /\ Len(name) \in Nat \ {0}
           /\ fd_entry' = [fd_entry EXCEPT ![dfd].file_pos = Current + 1]
           /\ SubSeq(Received(dfd)[1], 1, ret') = name
  <2>1. ret' \notin {0, FAIL}
    BY <1>5 DEF FAIL
  <2>2. /\ fname' = name /\ pc' = IF Head(name) = "." THEN "dir" ELSE "open"
        /\ out' = Append(out, << >>)
    BY <1>5, <2>1, Zenon DEF GrepNext, Goto
  <2>3. /\ fd_entry'[dfd].flag = 1 /\ fd_entry'[dfd].filetype = DirType
        /\ fd_entry'[dfd].file_pos = Current + 1
        /\ \A g \in Fds \ {dfd} : fd_entry'[g].flag = 0
    BY <1>1, <1>5 DEF AtDir, Alone, Descriptor
  <2>4. PICK i \in 1 .. Len(image.dir) : i = Current + 1 /\ i - 1 = Current
                                         /\ i \in 0 .. Len(image.dir)
    BY <1>1, <1>5
  <2>5. Current' = i
    BY <1>2, <2>3, <2>4 DEF Current
  <2>6. DirOpen' /\ Alone'
    BY <1>1, <1>2, <1>3, <2>3, <2>4, <2>5 DEF DirOpen, Alone
  <2>7. Before' /\ out'[i] = << >>
    <3>1. Wrote(Current) /\ Current' = Current + 1
      BY <2>4, <2>5 DEF AtDir
    <3>2. QED
      BY <1>1, <1>2, <1>3, <2>2, <2>4, <3>1, NewEntryWritten
  <2>8. CASE Head(name) = "."
    <3>1. Part[i][Len(TextOf[i])] = << >>
      <4>1. i \notin Searched
        BY <2>4, <2>8 DEF Searched
      <4>2. QED
        BY <1>1, <2>4, <4>1, PartIs
    <3>2. Wrote(i)'
      <4>1. \A j \in 1 .. i : j = i \/ j \in 1 .. i - 1
        BY <2>4
      <4>2. QED
        BY <1>4, <2>5, <2>7, <3>1, <4>1 DEF Before, Wrote
    <3>3. QED
      BY <2>2, <2>5, <2>6, <2>8, <3>2 DEF AtDir
  <2>9. CASE Head(name) # "."
    <3>1. InEntry'
      BY <1>3, <2>2, <2>4, <2>5, <2>9 DEF InEntry
    <3>2. QED
      BY <2>2, <2>5, <2>6, <2>7, <2>9, <3>1 DEF AtOpen
  <2>10. QED
    BY <2>8, <2>9
<1>6. CASE Current = Len(image.dir) /\ ret' = 0 /\ fd_entry' = fd_entry
  <2>1. pc' = "exit" /\ code' = 0 /\ out' = out
    BY <1>6 DEF GrepNext, Exit
  <2>2. Wrote(Len(image.dir))'
    BY <1>2, <1>3, <1>6, <2>1, SameOutput DEF AtDir
  <2>3. QED
    BY <2>1, <2>2 DEF AtExit
<1>7. QED
  BY <1>3, <1>5, <1>6

\* grep opens a file.
LEMMA OpenFound ==
    ASSUME PlainFiles, FilesInv, AtOpen, GrepOpen
    PROVE  pc' = "fill" /\ AtFill'
<1> DEFINE i == Current
<1>1. /\ image \in Images /\ fd_entry \in [Fds -> Descriptor] /\ dfd \in Fds
      /\ i \in 1 .. Len(image.dir) /\ fname = image.dir[i].name /\ Head(fname) # "."
      /\ fd_entry[dfd].flag = 1 /\ fd_entry[dfd].filetype = DirType
  BY DEF FilesInv, DescriptorsOK, AtOpen, DirOpen, InEntry
<1>2. FreeFds # {}
  <2>1. PICK g \in Fds : g # dfd
    <3>1. FD_MIN \in Fds /\ FD_MIN + 1 \in Fds /\ FD_MIN # FD_MIN + 1
      BY FileSystemAssumption DEF PlainFiles, Fds, FD_MIN
    <3>2. QED
      BY <3>1
  <2>2. QED
    BY <2>1 DEF AtOpen, Alone, FreeFds
<1>3. sys_open(image.dir[i].name)
  BY <1>1 DEF GrepOpen
<1>4. PICK f \in FreeFds :
          /\ image' = image /\ ret' = f /\ f # FAIL
          /\ fd_entry' = [fd_entry EXCEPT ![f] =
                             [flag |-> 1, inode |-> image.dir[i].inode, file_pos |-> 0,
                              filetype |-> image.dir[i].type]]
  <2>1. PICK j \in 1 .. Len(image.dir) : j = i
    BY <1>1
  <2>2. sys_open(image.dir[j].name)
    BY <1>3, <2>1
  <2>3. QED
    BY <1>2, <2>1, <2>2, OpenNamed
<1>5. /\ pc' = "fill" /\ fd' = f /\ last' = 0
      /\ UNCHANGED <<out, text, arg, dfd, fname>>
  BY <1>4 DEF GrepOpen, Goto
<1>6. /\ f \in Fds \ {dfd} /\ fd_entry'[dfd] = fd_entry[dfd]
      /\ fd_entry'[f].flag = 1 /\ fd_entry'[f].inode = image.dir[i].inode
      /\ fd_entry'[f].file_pos = 0 /\ fd_entry'[f].filetype = image.dir[i].type
      /\ \A g \in Fds \ {dfd, f} : fd_entry'[g].flag = 0
  BY <1>1, <1>4 DEF FreeFds, AtOpen, Alone
<1>7. /\ TextOf' = TextOf /\ Part' = Part /\ Breaks' = Breaks
      /\ \A j : Readable(j)' <=> Readable(j)
  BY <1>4, <1>5, SameTexts
<1>8. Current' = i /\ ReadSoFar' = 0
  BY <1>5, <1>6 DEF Current, ReadSoFar
<1>9. DirOpen' /\ InEntry'
  BY <1>1, <1>4, <1>5, <1>6, <1>8 DEF DirOpen, InEntry, AtOpen
<1>10. Len(TextOf[i]) \in Nat /\ 0 \in Breaks[i]
  <2>1. Len(TextOf[i]) \in Nat
    BY <1>1, TextShape
  <2>2. QED
    BY <1>1, <2>1 DEF Breaks, Begins
<1>11. FileOpen'
  BY <1>4, <1>5, <1>6, <1>7, <1>8, <1>9, <1>10 DEF FileOpen
<1>12. Before' /\ (Readable(i) => out'[i] = Part[i][0])
  <2>1. Before'
    BY <1>4, <1>5, <1>8, SameOutput DEF AtOpen
  <2>2. Readable(i) => out[i] = << >>
    BY DEF AtOpen
  <2>3. QED
    BY <1>1, <1>5, <2>1, <2>2, PartIs
<1>13. last' < BUFSIZE /\ last' <= ReadSoFar' /\ ReadSoFar' - last' = 0
  BY <1>5, <1>8, ProgramsAssumption
<1>14. 0 .. last' - 1 = {}
  BY <1>5
<1> HIDE DEF i
<1>15. Readable(i) => TextFill'
  BY <1>5, <1>7, <1>8, <1>10, <1>12, <1>13, <1>14 DEF TextFill
<1>16. QED
  BY <1>5, <1>7, <1>8, <1>11, <1>12, <1>13, <1>15 DEF AtFill

\* grep closes it.
LEMMA CloseFound ==
    ASSUME FilesInv, AtClose, GrepClose
    PROVE  pc' = "dir" /\ AtDir'
<1>1. /\ fd_entry \in [Fds -> Descriptor] /\ dfd \in Fds /\ fd \in Fds \ {dfd}
      /\ fd_entry[fd].flag = 1 /\ DirOpen
      /\ \A f \in Fds \ {dfd, fd} : fd_entry[f].flag = 0
  BY DEF FilesInv, DescriptorsOK, AtClose, FileOpen, DirOpen
<1>2. /\ fd_entry' = [fd_entry EXCEPT ![fd].flag = 0] /\ ret' = 0 /\ image' = image
  BY <1>1 DEF GrepClose, sys_close
<1>3. pc' = "dir" /\ UNCHANGED <<out, text, arg, dfd>>
  BY <1>2 DEF GrepClose, Goto, FAIL
<1>4. fd_entry'[dfd] = fd_entry[dfd] /\ \A f \in Fds \ {dfd} : fd_entry'[f].flag = 0
  BY <1>1, <1>2 DEF Descriptor
<1>6. Current' = Current
  BY <1>3, <1>4 DEF Current
<1>7. DirOpen' /\ Alone'
  BY <1>1, <1>2, <1>3, <1>4, <1>6 DEF DirOpen, Alone
<1>8. Wrote(Current)'
  BY <1>2, <1>3, <1>6, SameOutput DEF AtClose
<1>9. QED
  BY <1>3, <1>6, <1>7, <1>8 DEF AtDir

\* What a read of grep brings: the next characters of the file, as many as there is
\* room for or as are left.
LEMMA FillResult ==
    ASSUME SoundImages, PlainFiles, FilesInv, FileOpen, NEW n \in Nat, n > 0,
           sys_read(fd, n)
    PROVE  /\ image' = image /\ ret' \in 0 .. n
           /\ ReadSoFar + ret' <= Len(TextOf[Current])
           /\ ret' = n \/ ReadSoFar + ret' = Len(TextOf[Current])
           /\ fd_entry'[fd].file_pos = ReadSoFar + ret'
           /\ fd_entry'[fd].flag = 1 /\ fd_entry'[fd].inode = fd_entry[fd].inode
           /\ fd_entry'[fd].filetype = fd_entry[fd].filetype
           /\ \A g \in Fds \ {fd} : fd_entry'[g] = fd_entry[g]
           /\ \A j \in 1 .. ret' :
                 text[Received(fd)[j]] = TextOf[Current][ReadSoFar + j]
<1>1. PICK i \in 1 .. Len(image.dir) : i = Current
  BY DEF FileOpen, InEntry
<1>2. PICK pos \in Nat : pos = ReadSoFar /\ pos = fd_entry[fd].file_pos
  BY DEF FilesInv, DescriptorsOK, FileOpen, ReadSoFar, Descriptor
<1>3. PICK len \in Nat : len = Len(TextOf[i])
  <2>1. image \in Images
    BY DEF FilesInv, DescriptorsOK
  <2>2. QED
    BY <2>1, TextShape
<1>4. /\ image \in Images /\ fd \in Fds /\ fd_entry[fd].flag = 1
      /\ fd_entry \in [Fds -> Descriptor] /\ DOMAIN got = Fds
      /\ fd_entry[fd].inode = image.dir[i].inode
      /\ fd_entry[fd].filetype = image.dir[i].type
      /\ pos <= len /\ Head(image.dir[i].name) # "."
  BY <1>1, <1>2, <1>3 DEF FilesInv, DescriptorsOK, FileOpen, InEntry
<1>5. fd_entry[fd].filetype \in {RtcType, FileType}
  <2>1. image.dir[i].type \in {RtcType, DirType, FileType}
    BY <1>4, ImageShape
  <2>2. image.dir[i].type # DirType
    BY <1>4 DEF PlainFiles
  <2>3. QED
    BY <1>4, <2>1, <2>2
<1>6. image' = image
  BY ReadKeeps
<1>7. CASE ret' = 0 /\ fd_entry' = fd_entry /\ pos = len
  BY <1>1, <1>2, <1>3, <1>4, <1>6, <1>7
<1>8. CASE fd_entry[fd].filetype = RtcType
  <2>1. ret' = 0 /\ fd_entry' = fd_entry
    BY <1>4, <1>8 DEF sys_read, RtcType, DirType, Failed
  <2>2. len = 0
    <3>0. image.dir[i].type # FileType
      BY <1>4, <1>8 DEF RtcType, FileType
    <3>1. i \notin Searched
      BY <3>0 DEF Searched
    <3>2. QED
      BY <1>3, <1>4, <3>1, TextShape
  <2>3. QED
    BY <1>4, <1>7, <2>1, <2>2
<1>9. CASE fd_entry[fd].filetype = FileType
  <2>1. file_read(fd, n)
    BY <1>4, <1>9 DEF sys_read, RtcType, DirType, FileType, Failed
  <2>2. PICK m \in Nat : m = fd_entry[fd].inode /\ m \in DOMAIN image.inode
    BY <1>4, ImageShape
  <2>3. /\ len = image.inode[m].length
        /\ \A k \in 1 .. len : TextOf[i][k] = text[Byte(m, k - 1)]
    <3>1. i \in Searched
      BY <1>4, <1>9 DEF Searched
    <3>2. QED
      BY <1>3, <1>4, <2>2, <3>1, TextShape
  <2>4. CASE pos >= len
    <3>1. ret' = 0 /\ fd_entry' = fd_entry
      BY <1>2, <2>1, <2>2, <2>3, <2>4 DEF file_read
    <3>2. QED
      BY <1>4, <1>7, <2>4, <3>1
  <2>5. CASE pos < len
    <3>1. PICK stop \in Nat : stop = ReadStop(fd, n) /\ pos <= stop
              /\ ret' = stop - pos
              /\ fd_entry' = [fd_entry EXCEPT ![fd].file_pos = stop]
              /\ got' = [got EXCEPT ![fd] = @ \o Slice(m, pos, stop)]
      <4>1. fd_entry[fd].file_pos < image.inode[fd_entry[fd].inode].length
        BY <1>2, <2>2, <2>3, <2>5
      <4>2. /\ ReadStop(fd, n) \in Nat /\ pos <= ReadStop(fd, n)
            /\ ret' = ReadStop(fd, n) - pos
            /\ fd_entry' = [fd_entry EXCEPT ![fd].file_pos = ReadStop(fd, n)]
            /\ got' = [got EXCEPT ![fd] = @ \o Slice(m, pos, ReadStop(fd, n))]
        <5>1. PICK f \in Fds : f = fd
          BY <1>4
        <5>2. /\ fd_entry[f].flag = 1 /\ file_read(f, n)
              /\ fd_entry[f].file_pos < image.inode[fd_entry[f].inode].length
          BY <1>4, <2>1, <4>1, <5>1
        <5>3. /\ ReadStop(f, n) \in Nat /\ fd_entry[f].file_pos <= ReadStop(f, n)
              /\ ret' = ReadStop(f, n) - fd_entry[f].file_pos
              /\ fd_entry' = [fd_entry EXCEPT ![f].file_pos = ReadStop(f, n)]
              /\ got' = [got EXCEPT ![f] = @ \o Slice(fd_entry[f].inode,
                                    fd_entry[f].file_pos, ReadStop(f, n))]
          BY <5>2, FileReadResult
        <5>4. QED
          BY <1>2, <2>2, <5>1, <5>3
      <4>3. QED
        BY <4>2
    <3>2. stop = IF pos + n < len THEN pos + n ELSE len
      BY <1>2, <2>2, <2>3, <3>1 DEF ReadStop
    <3>3. /\ ret' \in 0 .. n /\ pos + ret' = stop /\ stop <= len
          /\ ret' = n \/ pos + ret' = len
      BY <1>2, <2>5, <3>1, <3>2
    <3>4. /\ fd_entry'[fd].file_pos = stop
          /\ fd_entry'[fd].flag = 1 /\ fd_entry'[fd].inode = fd_entry[fd].inode
          /\ fd_entry'[fd].filetype = fd_entry[fd].filetype
          /\ \A g \in Fds \ {fd} : fd_entry'[g] = fd_entry[g]
      BY <1>4, <3>1 DEF Descriptor
    <3>5. Received(fd) = Slice(m, pos, stop)
      <4>1. got[fd] = Slice(m, 0, pos)
        BY <1>2, <1>4, <1>9, <2>2 DEF FilesInv, FileAt
      <4> DEFINE S == {Byte(m, q) : q \in Int}
      <4>2. Slice(m, 0, pos) \in Seq(S) /\ Slice(m, pos, stop) \in Seq(S)
        <5>1. /\ 0 \in Int /\ pos \in Int /\ stop \in Int
              /\ 0 <= pos /\ pos <= stop
          BY <1>2, <3>1
        <5>2. QED
          BY <5>1, SliceSeq
      <4> HIDE DEF S
      <4>3. got'[fd] = got[fd] \o Slice(m, pos, stop)
        BY <1>4, <3>1
      <4>4. QED
        BY <4>1, <4>2, <4>3, AppendedPart DEF Received
    <3>6. ASSUME NEW j \in 1 .. ret'
          PROVE  text[Received(fd)[j]] = TextOf[i][pos + j]
      <4>1. j \in 1 .. stop - pos /\ pos + j \in 1 .. len
        BY <3>1, <3>3
      <4>2. Slice(m, pos, stop)[j] = Byte(m, pos + j - 1)
        BY <4>1 DEF Slice
      <4>3. TextOf[i][pos + j] = text[Byte(m, pos + j - 1)]
        BY <2>3, <4>1
      <4>4. QED
        BY <3>5, <4>2, <4>3
    <3>7. QED
      BY <1>1, <1>2, <1>3, <1>6, <3>3, <3>4, <3>6
  <2>6. QED
    BY <1>2, <1>3, <2>4, <2>5
<1>10. QED
  BY <1>5, <1>8, <1>9

\* grep fills its buffer.
LEMMA FillFound ==
    ASSUME SoundImages, PlainFiles, FilesInv, BufferOK, last \in Nat, AtFill, GrepFill
    PROVE  pc' = "line" /\ AtLine' /\ BufferOK'
<1> DEFINE c == TextOf[Current]
<1>1. PICK size \in Nat : size = BUFSIZE /\ size > 0
  BY ProgramsAssumption
<1>2. PICK pos \in Nat, l \in Nat : pos = ReadSoFar /\ l = last /\ l < size
  BY <1>1 DEF AtFill, FilesInv, DescriptorsOK, FileOpen, ReadSoFar, Descriptor
<1>3. FileOpen /\ fd \in Fds \ {dfd} /\ dfd \in Fds
  BY DEF AtFill, FileOpen, DirOpen
<1>4. PICK room \in Nat : room = size - l /\ room > 0
  BY <1>2
<1>5. sys_read(fd, room)
  BY <1>1, <1>2, <1>4 DEF GrepFill
<1>6. PICK r \in 0 .. room :
        /\ r = ret' /\ image' = image /\ pos + r <= Len(c)
        /\ r = room \/ pos + r = Len(c)
        /\ fd_entry'[fd].file_pos = pos + r
        /\ fd_entry'[fd].flag = 1 /\ fd_entry'[fd].inode = fd_entry[fd].inode
        /\ fd_entry'[fd].filetype = fd_entry[fd].filetype
        /\ \A g \in Fds \ {fd} : fd_entry'[g] = fd_entry[g]
        /\ \A j \in 1 .. r : text[Received(fd)[j]] = c[pos + j]
  BY <1>2, <1>3, <1>4, <1>5, FillResult
<1>20. r \in Nat /\ r <= room
  BY <1>6
<1>7. /\ pc' = "line" /\ last' = l + r /\ line_start' = 0 /\ cnt' = r
      /\ UNCHANGED <<arg, out, fd, dfd, fname, text>>
      /\ data' = [i \in 0 .. size |->
                    IF r = 0 \/ i < l \/ i = size THEN data[i]
                    ELSE IF i < l + r THEN text[Received(fd)[i - l + 1]] ELSE NUL]
  <2>1. ret' # FAIL
    BY <1>6 DEF FAIL
  <2>2. QED
    BY <1>1, <1>2, <1>6, <2>1 DEF GrepFill, Goto
<1>8. /\ TextOf' = TextOf /\ Part' = Part /\ Breaks' = Breaks
      /\ \A j : Readable(j)' <=> Readable(j)
  BY <1>6, <1>7, SameTexts
<1>9. Current' = Current /\ ReadSoFar' = pos + r
  BY <1>3, <1>6, <1>7 DEF Current, ReadSoFar
<1>10. Len(c) \in Nat /\ Current \in 1 .. Len(image.dir)
  BY <1>3, TextShape DEF FileOpen, InEntry, FilesInv, DescriptorsOK
<1>11. FileOpen'
  <2>1. DirOpen' /\ InEntry'
    BY <1>3, <1>6, <1>7, <1>9 DEF FileOpen, DirOpen, InEntry
  <2>2. ReadSoFar' \in 0 .. Len(TextOf'[Current'])
    BY <1>6, <1>8, <1>9, <1>10
  <2>3. QED
    BY <1>3, <1>6, <1>7, <1>9, <2>1, <2>2 DEF FileOpen
<1>12. Before'
  BY <1>6, <1>7, <1>9, SameOutput DEF AtFill
<1>13. BufferOK'
  <2>1. DOMAIN data' = 0 .. BUFSIZE /\ data'[BUFSIZE] = data[BUFSIZE]
    BY <1>1, <1>7
  <2>2. QED
    BY <1>6, <1>7, <2>1 DEF BufferOK
<1>14. r # 0 => data'[l + r] # NL
  <2>1. CASE l + r = size
    BY <1>1, <1>13, <2>1 DEF BufferOK
  <2>2. CASE l + r # size /\ r # 0
    <3>1. l + r \in 0 .. size /\ ~(l + r < l) /\ ~(l + r < l + r)
      BY <1>2, <1>4, <1>20, <2>2
    <3>2. data'[l + r] = NUL
      BY <1>7, <2>2, <3>1
    <3>3. QED
      BY <3>2 DEF NUL, NL
  <2>3. QED
    BY <2>1, <2>2
<1>15. /\ last' = size \/ pos + r = Len(c)
       /\ r = 0 => pos + r = Len(c)
  <2>1. r = room => l + r = size
    BY <1>2, <1>4, <1>20
  <2>2. r = 0 => r # room
    BY <1>4
  <2>3. QED
    BY <1>6, <1>7, <2>1, <2>2
<1>16. ASSUME Readable(Current)
       PROVE  TextLine'
  <2>0. TextFill /\ l <= pos
    BY <1>2, <1>16 DEF AtFill, TextFill
  <2>1. \A i \in 0 .. l + r - 1 : data'[i] = c[(pos - l) + i + 1]
    <3> SUFFICES ASSUME NEW i \in 0 .. l + r - 1 PROVE data'[i] = c[(pos - l) + i + 1]
      OBVIOUS
    <3>1. i \in 0 .. size /\ i # size
      BY <1>2, <1>4, <1>20
    <3>2. CASE i < l
      <4>1. data'[i] = data[i] /\ i \in 0 .. l - 1
        BY <1>7, <3>1, <3>2
      <4>2. data[i] = c[(pos - l) + i + 1]
        BY <1>2, <2>0, <4>1 DEF TextFill
      <4>3. QED
        BY <4>1, <4>2
    <3>3. CASE ~(i < l)
      <4>1. r # 0 /\ i < l + r /\ i - l + 1 \in 1 .. r
        BY <1>2, <1>20, <3>1, <3>3
      <4>2. data'[i] = text[Received(fd)[i - l + 1]]
        BY <1>7, <3>1, <3>3, <4>1
      <4>3. text[Received(fd)[i - l + 1]] = c[pos + (i - l + 1)]
        BY <1>6, <4>1
      <4>4. pos + (i - l + 1) = (pos - l) + i + 1
        BY <1>2, <3>1
      <4>5. QED
        BY <4>2, <4>3, <4>4
    <3>4. QED
      BY <3>2, <3>3
  <2>2. /\ (pos + r) - (l + r) = pos - l /\ (pos - l) + 0 = pos - l
        /\ l + r <= pos + r
    BY <1>2, <1>20, <2>0
  <2>3. pos - l \in Breaks[Current] /\ out[Current] = Part[Current][pos - l]
    BY <1>2, <2>0 DEF TextFill
  <2>4. /\ ReadSoFar' = pos + r /\ last' = l + r /\ line_start' = 0 /\ cnt' = r
        /\ Current' = Current /\ TextOf' = TextOf
    BY <1>7, <1>8, <1>9
  <2>5. ReadSoFar' - last' = pos - l /\ last' <= ReadSoFar'
    BY <2>2, <2>4
  <2>6. \A i \in line_start' .. last' - 1 :
            data'[i] = TextOf'[Current'][(ReadSoFar' - last') + i + 1]
    BY <2>1, <2>4, <2>5
  <2>7. /\ (ReadSoFar' - last') + line_start' \in Breaks'[Current']
        /\ out'[Current'] = Part'[Current'][(ReadSoFar' - last') + line_start']
    BY <1>7, <1>8, <2>2, <2>3, <2>4, <2>5
  <2>8. /\ last' = BUFSIZE \/ ReadSoFar' = Len(TextOf'[Current'])
        /\ IF cnt' = 0 THEN ReadSoFar' = Len(TextOf'[Current']) ELSE data'[last'] # NL
    BY <1>1, <1>14, <1>15, <2>4
  <2>9. QED
    BY <2>5, <2>6, <2>7, <2>8 DEF TextLine
<1>17. AtLine'
  BY <1>8, <1>9, <1>11, <1>12, <1>16 DEF AtLine
<1>18. QED
  BY <1>7, <1>13, <1>17

\* From line_start to line_end the buffer holds what c has behind character base,
\* and no NUL.
ReadAt(c, base, s, x) ==
    /\ base \in Nat /\ s \in Nat /\ x \in Nat /\ s <= x
    /\ s = line_start /\ x = line_end /\ x = LineStop
    /\ \A j \in s .. x - 1 : data[j] = c[base + j + 1]

\* The search finds a line that holds the pattern, and writes it as it is.
LEMMA FoundIs ==
    ASSUME arg \in Patterns, NEW c, NEW base, NEW s, NEW x, ReadAt(c, base, s, x)
    PROVE  LET l == SubSeq(c, base + s + 1, base + x)
           IN  Line = l /\ (Found <=> Holds(l, arg))
<1> SUFFICES ASSUME base \in Nat, s \in Nat, x \in Nat, s <= x,
                    s = line_start, x = line_end, x = LineStop,
                    \A j \in s .. x - 1 : data[j] = c[base + j + 1]
             PROVE  LET l == SubSeq(c, base + s + 1, base + x)
                    IN  Line = l /\ (Found <=> Holds(l, arg))
  BY DEF ReadAt
<1>1. PICK a : a = arg
  OBVIOUS
<1>2. PICK A : a \in Seq(A) /\ Len(a) > 0
  BY <1>1, ProgramsAssumption
<1>3. PICK len \in Nat : len = x - s
  OBVIOUS
<1>4. PICK l : l = SubSeq(c, base + s + 1, base + x)
  OBVIOUS
<1>5. PICK S : S = {c[i] : i \in Int} \cup A
  OBVIOUS
<1>6. l \in Seq(S) /\ Len(l) = len /\ \A k \in 1 .. len : l[k] = c[base + s + k]
  <2>1. PICK m \in Int, n \in Int : m = base + s + 1 /\ n = base + x
    OBVIOUS
  <2>2. \A i \in m .. n : c[i] \in S
    BY <1>5
  <2>3. /\ SubSeq(c, m, n) \in Seq(S)
        /\ Len(SubSeq(c, m, n)) = IF m <= n THEN n - m + 1 ELSE 0
        /\ \A k \in 1 .. n - m + 1 : SubSeq(c, m, n)[k] = c[m + k - 1]
    BY <2>2, SubSeqProperties
  <2>4. l = SubSeq(c, m, n)
    BY <1>4, <2>1
  <2>5. /\ n - m + 1 = len /\ (~(m <= n) => len = 0)
        /\ \A k \in Nat : m + k - 1 = base + s + k
    BY <1>3, <2>1
  <2>6. Len(l) = len
    BY <2>1, <2>3, <2>4, <2>5
  <2>7. ASSUME NEW k \in 1 .. len PROVE l[k] = c[base + s + k]
    <3>1. k \in 1 .. n - m + 1 /\ m + k - 1 = base + s + k
      BY <2>5
    <3>2. QED
      BY <2>3, <2>4, <3>1
  <2>8. QED
    BY <2>3, <2>4, <2>6, <2>7
<1>7. \A k \in 1 .. len : data[s + k - 1] = l[k]
  <2> SUFFICES ASSUME NEW k \in 1 .. len PROVE data[s + k - 1] = l[k]
    OBVIOUS
  <2>1. s + k - 1 \in s .. x - 1 /\ base + (s + k - 1) + 1 = base + s + k
    BY <1>3
  <2>2. data[s + k - 1] = c[base + (s + k - 1) + 1]
    BY <2>1
  <2>3. QED
    BY <1>6, <2>1, <2>2
<1>8. Line = l
  <2>1. Line = [k \in 1 .. len |-> data[s + k - 1]]
    BY <1>3 DEF Line
  <2>2. Line = [k \in 1 .. len |-> l[k]]
    BY <1>7, <2>1
  <2>3. QED
    BY <1>6, <2>2
<1>9. PICK n \in Nat : n = Len(a) /\ n > 0
  BY <1>2
<1>10. Found <=> \E check \in s .. x - n : \A k \in 1 .. n : data[check + k - 1] = a[k]
  BY <1>1, <1>9 DEF Found
<1>11. Holds(l, arg) <=> \E i \in 0 .. len - n : SubSeq(l, i + 1, i + n) = a
  BY <1>1, <1>6, <1>9 DEF Holds
<1>12. ASSUME NEW i \in 0 .. len - n
       PROVE  SubSeq(l, i + 1, i + n) = a
                  <=> \A k \in 1 .. n : data[(s + i) + k - 1] = a[k]
  <2>1. i \in Nat /\ i + n <= len
    BY <1>3, <1>9, <1>12
  <2>2. PICK t : t = SubSeq(l, i + 1, i + n)
    OBVIOUS
  <2>3. t \in Seq(S) /\ Len(t) = n /\ \A k \in 1 .. n : t[k] = l[i + k]
    <3>1. PICK u \in Int, v \in Int : u = i + 1 /\ v = i + n
      BY <1>9, <2>1
    <3>2. \A j \in u .. v : l[j] \in S
      <4>1. \A j \in u .. v : j \in 1 .. len
        BY <1>9, <2>1, <3>1
      <4>2. \A j \in 1 .. len : l[j] \in S
        BY <1>6
      <4>3. QED
        BY <4>1, <4>2
    <3>3. /\ SubSeq(l, u, v) \in Seq(S)
          /\ Len(SubSeq(l, u, v)) = IF u <= v THEN v - u + 1 ELSE 0
          /\ \A k \in 1 .. v - u + 1 : SubSeq(l, u, v)[k] = l[u + k - 1]
      BY <3>2, SubSeqProperties
    <3>4. v - u + 1 = n /\ u <= v /\ \A k \in Nat : u + k - 1 = i + k
      BY <1>9, <2>1, <3>1
    <3>5. t = SubSeq(l, u, v)
      BY <2>2, <3>1
    <3>6. t \in Seq(S) /\ Len(t) = n
      BY <3>3, <3>4, <3>5
    <3>7. ASSUME NEW k \in 1 .. n PROVE t[k] = l[i + k]
      <4>1. k \in 1 .. v - u + 1 /\ u + k - 1 = i + k
        BY <3>4
      <4>2. QED
        BY <3>3, <3>5, <4>1
    <3>8. QED
      BY <3>6, <3>7
  <2>4. \A k \in 1 .. n : data[(s + i) + k - 1] = t[k]
    <3> SUFFICES ASSUME NEW k \in 1 .. n PROVE data[(s + i) + k - 1] = t[k]
      OBVIOUS
    <3>1. i + k \in 1 .. len /\ s + (i + k) - 1 = (s + i) + k - 1
      BY <1>9, <2>1
    <3>2. data[s + (i + k) - 1] = l[i + k]
      BY <1>7, <3>1
    <3>3. QED
      BY <2>3, <3>1, <3>2
  <2>5. a \in Seq(S) /\ Len(a) = n
    BY <1>2, <1>5, <1>9
  <2>6. t = a <=> \A k \in 1 .. n : t[k] = a[k]
    BY <2>3, <2>5
  <2>7. QED
    BY <2>2, <2>4, <2>6
<1>13. ASSUME Found PROVE Holds(l, arg)
  <2>1. PICK check \in s .. x - n : \A k \in 1 .. n : data[check + k - 1] = a[k]
    BY <1>10, <1>13
  <2>2. PICK i \in 0 .. len - n : s + i = check
    <3>1. check - s \in 0 .. len - n /\ s + (check - s) = check
      BY <1>3, <1>9
    <3>2. QED
      BY <3>1
  <2>3. SubSeq(l, i + 1, i + n) = a
    BY <1>12, <2>1, <2>2
  <2>4. QED
    BY <1>11, <2>3
<1>14. ASSUME Holds(l, arg) PROVE Found
  <2>1. PICK i \in 0 .. len - n : SubSeq(l, i + 1, i + n) = a
    BY <1>11, <1>14
  <2>2. \A k \in 1 .. n : data[(s + i) + k - 1] = a[k]
    BY <1>12, <2>1
  <2>3. s + i \in s .. x - n
    BY <1>3, <1>9
  <2>4. QED
    BY <1>10, <2>2, <2>3
<1>15. QED
  BY <1>4, <1>8, <1>13, <1>14

\* The mark at the end of the line is no NL and changes nothing behind it.
LEMMA MarkedIs ==
    ASSUME BufferOK, line_end \in 0 .. BUFSIZE
    PROVE  /\ DOMAIN EndMarked = 0 .. BUFSIZE /\ EndMarked[line_end] = NUL
           /\ \A j \in 0 .. BUFSIZE : j # line_end => EndMarked[j] = data[j]
           /\ EndMarked[BUFSIZE] # NL
<1>1. PICK x \in 0 .. BUFSIZE : x = line_end
  OBVIOUS
<1>2. PICK m : m = EndMarked /\ m = [data EXCEPT ![x] = NUL]
  BY <1>1 DEF EndMarked
<1>3. DOMAIN data = 0 .. BUFSIZE /\ data[BUFSIZE] # NL
  BY DEF BufferOK
<1>4. /\ DOMAIN m = 0 .. BUFSIZE /\ m[x] = NUL
      /\ \A j \in 0 .. BUFSIZE : j # x => m[j] = data[j]
  BY <1>2, <1>3
<1>5. m[BUFSIZE] # NL
  <2>1. BUFSIZE \in 0 .. BUFSIZE
    BY ProgramsAssumption
  <2>2. NUL # NL
    BY DEF NUL, NL
  <2>3. QED
    BY <1>3, <1>4, <2>1, <2>2
<1>6. QED
  BY <1>1, <1>2, <1>4, <1>5

\* The string at line_start ends at the end of the line at the latest, and there if
\* the line holds no NUL.
LEMMA LineStopIs ==
    ASSUME BufferOK, last \in 0 .. BUFSIZE, line_start \in 0 .. last
    PROVE  /\ LineStop \in line_start .. line_end
           /\ (\A j \in line_start .. line_end - 1 : data[j] # NUL) => LineStop = line_end
<1>0. PICK size \in Nat, l \in Nat, s \in Nat :
         size = BUFSIZE /\ l = last /\ s = line_start /\ s <= l /\ l <= size
  BY ProgramsAssumption
<1>1. PICK x \in Nat :
         size = BUFSIZE /\ s = line_start /\ x = line_end /\ s <= x /\ x <= size
  <2>1. line_end \in s .. l
    BY <1>0, LineEndIs
  <2>2. QED
    BY <1>0, <2>1
<1>2. PICK m : m = EndMarked /\ m[x] = NUL
               /\ \A j \in 0 .. size : j # x => m[j] = data[j]
  BY <1>1, MarkedIs
<1> DEFINE T == {i \in s .. size : m[i] = NUL}
<1>3. x \in T /\ T \subseteq Nat
  BY <1>1, <1>2
<1>4. PICK y \in T : \A z \in T : y <= z
  <2> HIDE DEF T
  <2>1. QED
    BY <1>3, LeastElement
<1>5. y \in s .. size /\ m[y] = NUL /\ \A j \in s .. y - 1 : ~(m[j] = NUL)
  <2>1. y \in s .. size /\ m[y] = NUL
    OBVIOUS
  <2>2. ASSUME NEW j \in s .. y - 1
        PROVE  ~(m[j] = NUL)
    <3>1. j \in s .. size /\ ~(y <= j)
      BY <1>1, <2>1
    <3>2. QED
      BY <1>4, <3>1
  <2>3. QED
    BY <2>1, <2>2
<1>6. LineStop = CHOOSE i \in s .. size : m[i] = NUL /\ \A j \in s .. i - 1 : ~(m[j] = NUL)
  BY <1>1, <1>2 DEF LineStop, LeastFrom
<1>7. PICK stop \in s .. size : /\ stop = LineStop /\ m[stop] = NUL
                                /\ \A j \in s .. stop - 1 : ~(m[j] = NUL)
  BY <1>5, <1>6
<1>8. stop <= x
  <2>1. CASE stop > x
    <3>1. x \in s .. stop - 1
      BY <1>1, <2>1
    <3>2. QED
      BY <1>2, <1>7, <3>1
  <2>2. QED
    BY <1>1, <2>1
<1>9. ASSUME \A j \in s .. x - 1 : data[j] # NUL PROVE stop = x
  <2>1. CASE stop < x
    <3>1. stop \in s .. x - 1 /\ stop \in 0 .. size /\ stop # x
      BY <1>1, <2>1
    <3>2. QED
      BY <1>2, <1>7, <1>9, <3>1
  <2>2. QED
    BY <1>1, <1>8, <2>1
<1>10. QED
  BY <1>1, <1>7, <1>8, <1>9

\* What grep's position in the buffer and in the file have to do with each other:
\* the line from s to x of the l bytes read of entry i, which lie behind character
\* base of its text and end at pos
Place(size, l, s, x, pos, len, base, i) ==
    /\ size \in Nat /\ l \in Nat /\ s \in Nat /\ x \in Nat /\ pos \in Nat
    /\ len \in Nat /\ base \in Nat /\ i \in 1 .. Len(image.dir)
    /\ size = BUFSIZE /\ l = last /\ s = line_start /\ x = line_end
    /\ pos = ReadSoFar /\ i = Current /\ len = Len(TextOf[i])
    /\ base = pos - l /\ base + l = pos /\ image \in Images
    /\ size > 0 /\ l <= size /\ s <= x /\ x <= l /\ l <= pos /\ pos <= len
    /\ x = l \/ data[x] = NL
    /\ \A j \in s .. x - 1 : data[j] # NL
    /\ \A j \in s .. l - 1 : data[j] = TextOf[i][base + j + 1]
    /\ base + s \in Breaks[i]
    /\ out[i] = Part[i][base + s]
    /\ Readable(i) /\ x = LineStop

\* Such places there are.
LEMMA LinePlace ==
    ASSUME FilesInv, BufferOK, AtLine, last \in 0 .. BUFSIZE, line_start \in 0 .. last,
           Readable(Current)
    PROVE  \E size, l, s, x, pos, len, base, i : Place(size, l, s, x, pos, len, base, i)
<1>0. FileOpen /\ TextLine
  BY DEF AtLine
<1>1. PICK i \in 1 .. Len(image.dir) : i = Current
  BY <1>0 DEF FileOpen, InEntry
<1>2. PICK size, l, s \in Nat : /\ size = BUFSIZE /\ l = last /\ s = line_start
                                /\ size > 0 /\ l <= size /\ s <= l
  BY ProgramsAssumption
<1>3. PICK x \in Nat : /\ x = line_end /\ s <= x /\ x <= l
                       /\ (x = l \/ data[x] = NL) /\ \A j \in s .. x - 1 : data[j] # NL
  BY <1>2, LineEndIs
<1>4. image \in Images
  BY DEF FilesInv, DescriptorsOK
<1>5. PICK len \in Nat : len = Len(TextOf[i])
  BY <1>4, TextShape
<1>6. PICK pos \in Nat : pos = ReadSoFar /\ pos <= len /\ l <= pos
  BY <1>0, <1>1, <1>2, <1>5 DEF TextLine, FileOpen
<1>7. PICK base \in Nat : base = pos - l /\ base + l = pos
  BY <1>6
<1>8. /\ \A j \in s .. l - 1 : data[j] = TextOf[i][base + j + 1]
      /\ base + s \in Breaks[i]
      /\ out[i] = Part[i][base + s]
  BY <1>0, <1>1, <1>2, <1>6, <1>7 DEF TextLine
<1>9. x = LineStop
  <2>1. ASSUME NEW j \in s .. x - 1
        PROVE  data[j] # NUL
    <3>1. j \in s .. l - 1 /\ base + j + 1 \in 1 .. len
      BY <1>2, <1>3, <1>6, <1>7
    <3>2. TextOf[i][base + j + 1] # NUL
      BY <1>1, <1>4, <1>5, <3>1, PlainText
    <3>3. QED
      BY <1>8, <3>1, <3>2
  <2>2. QED
    BY <1>2, <1>3, <2>1, LineStopIs
<1>10. Place(size, l, s, x, pos, len, base, i)
  BY <1>1, <1>2, <1>3, <1>4, <1>5, <1>6, <1>7, <1>8, <1>9 DEF Place
<1>11. QED
  BY <1>10

\* A step of grep in its buffer leaves the files as they are.
LEMMA SameFiles ==
    ASSUME FileOpen, GrepLine
    PROVE  /\ FileOpen' /\ Current' = Current /\ ReadSoFar' = ReadSoFar
           /\ TextOf' = TextOf /\ Part' = Part /\ Breaks' = Breaks
           /\ \A i : Readable(i)' <=> Readable(i)
<1>1. UNCHANGED <<image, fd_entry, fd, dfd, fname, text, arg>>
  BY DEF GrepLine, vars
<1>2. /\ TextOf' = TextOf /\ Part' = Part /\ Breaks' = Breaks
      /\ \A i : Readable(i)' <=> Readable(i)
  BY <1>1, SameTexts
<1>3. Current' = Current /\ ReadSoFar' = ReadSoFar
  BY <1>1 DEF Current, ReadSoFar
<1>4. DirOpen' /\ InEntry'
  BY <1>1, <1>3 DEF FileOpen, DirOpen, InEntry
<1>5. QED
  BY <1>1, <1>2, <1>3, <1>4 DEF FileOpen

\* Of the line that it searches grep writes at most one entry more.
LEMMA OutputGrows ==
    ASSUME FileOpen, Before, GrepLine
    PROVE  /\ Before'
           /\ Incomplete => out' = out
           /\ ~Incomplete =>
                out'[Current] = IF Found THEN Append(out[Current], <<fname, Line>>)
                                ELSE out[Current]
<1>1. /\ Current' = Current /\ TextOf' = TextOf /\ Part' = Part
      /\ \A i : Readable(i)' <=> Readable(i)
  BY SameFiles
<1>2. PICK n \in Nat : n = Current /\ n > 0
  <2>1. Current \in 0 .. Len(image.dir) /\ Current \in 1 .. Len(image.dir)
    BY DEF FileOpen, DirOpen, InEntry
  <2>2. QED
    BY <2>1
<1>3. CASE Incomplete \/ ~Found
  <2>1. out' = out
    BY <1>3 DEF GrepLine
  <2>2. Before'
    BY <1>1, <2>1 DEF Before
  <2>3. QED
    BY <1>3, <2>1, <2>2
<1>4. CASE ~Incomplete /\ Found
  <2>1. PICK w : w = Append(out[n], <<fname, Line>>)
    OBVIOUS
  <2>2. PICK S : out \in Seq(S)
    BY DEF Before
  <2>3. PICK T : T = S \cup {w}
    OBVIOUS
  <2>4. out \in Seq(T) /\ w \in T /\ Len(out) = n /\ n \in DOMAIN out
    <3>1. S \subseteq T /\ w \in T
      BY <2>3
    <3>2. out \in Seq(T) /\ Len(out) = n
      BY <1>2, <2>2, <3>1 DEF Before
    <3>3. QED
      BY <1>2, <3>1, <3>2
  <2>5. out' = [out EXCEPT ![n] = w]
    BY <1>4, <2>1, <2>4 DEF GrepLine
  <2>6. /\ out' \in Seq(T) /\ Len(out') = n /\ out'[n] = w
        /\ \A j \in 1 .. n - 1 : out'[j] = out[j]
    BY <2>4, <2>5
  <2>7. \A j \in 1 .. n - 1 : Readable(j)' => out'[j] = Part'[j][Len(TextOf'[j])]
    BY <1>1, <1>2, <2>6 DEF Before
  <2>8. Before'
    BY <1>1, <1>2, <2>6, <2>7 DEF Before
  <2>9. QED
    BY <1>2, <1>4, <2>1, <2>6, <2>8
<1>5. QED
  BY <1>3, <1>4

\* grep keeps an incomplete line at the front of its buffer.
LEMMA MoveFound ==
    ASSUME FilesInv, BufferOK, AtLine, GrepLine, Incomplete,
           last \in 0 .. BUFSIZE, line_start \in 0 .. last
    PROVE  pc' = "fill" /\ AtFill' /\ BufferOK'
<1>0. PICK size \in Nat, l \in Nat, s \in Nat :
         size = BUFSIZE /\ l = last /\ s = line_start /\ s <= l /\ l <= size
  BY ProgramsAssumption
<1>12. PICK e \in Nat : e = line_end /\ s <= e /\ e <= l
  <2>1. line_end \in s .. l
    BY <1>0, LineEndIs
  <2>2. QED
    BY <1>0, <2>1
<1>1. PICK stop \in Nat :
         /\ size = BUFSIZE /\ l = last /\ s = line_start /\ stop = LineStop
         /\ l <= size /\ s <= l /\ stop <= line_end /\ line_end <= l
         /\ line_end \in Nat
  <2>1. LineStop \in s .. e
    BY <1>0, <1>12, LineStopIs
  <2>2. QED
    BY <1>0, <1>12, <2>1
<1>2. s # 0
  BY <1>1 DEF Incomplete
<1>3. /\ pc' = "fill" /\ data' = Moved /\ last' = l - s
      /\ UNCHANGED <<text, arg, image>>
  BY <1>1 DEF GrepLine, Goto, vars
<1>4. /\ DOMAIN EndMarked = 0 .. size /\ EndMarked[size] # NL
      /\ \A j \in 0 .. size : j # line_end => EndMarked[j] = data[j]
  <2>1. line_end \in 0 .. BUFSIZE
    BY <1>1
  <2>2. QED
    BY <1>1, <2>1, MarkedIs
<1>5. data' = [k \in 0 .. size |->
                  IF k <= stop - s THEN EndMarked[s + k] ELSE EndMarked[k]]
  BY <1>1, <1>3 DEF Moved
<1>6. /\ Current' = Current /\ ReadSoFar' = ReadSoFar /\ FileOpen' /\ Before'
      /\ TextOf' = TextOf /\ Part' = Part /\ Breaks' = Breaks /\ out' = out
      /\ \A j : Readable(j)' <=> Readable(j)
  BY SameFiles, OutputGrows DEF AtLine
<1>7. BufferOK'
  <2>1. size \in 0 .. size /\ ~(size <= stop - s)
    BY <1>1, <1>2
  <2>2. DOMAIN data' = 0 .. size /\ data'[size] # NL
    BY <1>4, <1>5, <2>1
  <2>3. QED
    BY <1>1, <1>3, <2>2 DEF BufferOK
<1>8. last' < BUFSIZE
  BY <1>1, <1>2, <1>3
<1>9. ASSUME Readable(Current)
      PROVE  TextFill'
  <2>0. PICK s1, l1, s2, x, pos, len, base, i :
           Place(s1, l1, s2, x, pos, len, base, i)
    BY <1>9, LinePlace
  <2>1. /\ x \in Nat /\ pos \in Nat /\ len \in Nat /\ base \in Nat
        /\ i \in 1 .. Len(image.dir) /\ x = line_end /\ x = LineStop
        /\ pos = ReadSoFar /\ i = Current
        /\ base = pos - l /\ base + l = pos /\ l <= pos
        /\ x = l \/ data[x] = NL
        /\ \A j \in s .. l - 1 : data[j] = TextOf[i][base + j + 1]
        /\ base + s \in Breaks[i] /\ out[i] = Part[i][base + s]
    BY <1>1, <2>0 DEF Place
  <2>2. x = l /\ stop = l
    BY <1>1, <2>1 DEF Incomplete
  <2>3. \A k \in 0 .. (l - s) - 1 : data'[k] = TextOf[i][(base + s) + k + 1]
    <3> SUFFICES ASSUME NEW k \in 0 .. (l - s) - 1
                 PROVE  data'[k] = TextOf[i][(base + s) + k + 1]
      OBVIOUS
    <3>1. /\ k \in 0 .. size /\ k <= stop - s /\ s + k \in s .. l - 1
          /\ s + k \in 0 .. size /\ s + k # line_end
          /\ base + (s + k) + 1 = (base + s) + k + 1
      BY <1>1, <2>1, <2>2
    <3>2. data'[k] = EndMarked[s + k]
      BY <1>5, <3>1
    <3>3. EndMarked[s + k] = data[s + k]
      BY <1>4, <3>1
    <3>4. QED
      BY <2>1, <3>1, <3>2, <3>3
  <2>4. last' <= pos /\ pos - last' = base + s
    BY <1>1, <1>3, <2>1
  <2>5. \A k \in 0 .. last' - 1 : data'[k] = TextOf[i][(pos - last') + k + 1]
    BY <1>3, <2>3, <2>4
  <2>6. QED
    BY <1>6, <2>1, <2>4, <2>5 DEF TextFill
<1>10. AtFill'
  BY <1>6, <1>8, <1>9 DEF AtFill
<1>11. QED
  BY <1>3, <1>7, <1>10

\* A line that is not kept for the next read ends with an NL or the file.
LEMMA WholeLine ==
    ASSUME AtLine, ~Incomplete,
           NEW size, NEW l, NEW s, NEW x, NEW pos, NEW len, NEW base, NEW i,
           Place(size, l, s, x, pos, len, base, i)
    PROVE  /\ base + s \in Breaks[i] /\ base + x \in base + s .. len
           /\ \A k \in base + s + 1 .. base + x : TextOf[i][k] # NL
           /\ base + x = len \/ TextOf[i][base + x + 1] = NL
<1>0. /\ size \in Nat /\ l \in Nat /\ s \in Nat /\ x \in Nat /\ pos \in Nat
      /\ len \in Nat /\ base \in Nat /\ i \in 1 .. Len(image.dir)
  BY DEF Place
<1>1. /\ size = BUFSIZE /\ l = last /\ s = line_start /\ x = line_end
      /\ pos = ReadSoFar /\ i = Current /\ len = Len(TextOf[i])
      /\ base + l = pos /\ image \in Images
      /\ size > 0 /\ l <= size /\ s <= x /\ x <= l /\ l <= pos /\ pos <= len
      /\ x = l \/ data[x] = NL
      /\ \A j \in s .. x - 1 : data[j] # NL
      /\ \A j \in s .. l - 1 : data[j] = TextOf[i][base + j + 1]
      /\ base + s \in Breaks[i] /\ Readable(i) /\ TextLine
  BY DEF Place, AtLine
<1>2. \A k \in base + s + 1 .. base + x : TextOf[i][k] # NL
  <2> SUFFICES ASSUME NEW k \in base + s + 1 .. base + x PROVE TextOf[i][k] # NL
    OBVIOUS
  <2>1. PICK j \in Nat : base + j + 1 = k /\ j \in s .. x - 1 /\ j \in s .. l - 1
    <3>1. /\ base + (k - 1 - base) + 1 = k /\ k - 1 - base \in Nat
          /\ k - 1 - base \in s .. x - 1 /\ k - 1 - base \in s .. l - 1
      BY <1>0, <1>1
    <3>2. QED
      BY <3>1
  <2>2. QED
    BY <1>0, <1>1, <2>1
<1>3. base + x = len \/ TextOf[i][base + x + 1] = NL
  <2>1. CASE x # l
    <3>1. x \in s .. l - 1
      BY <1>0, <1>1, <2>1
    <3>2. QED
      BY <1>0, <1>1, <2>1, <3>1
  <2>2. CASE x = l /\ cnt = 0
    BY <1>0, <1>1, <2>2 DEF TextLine
  <2>3. CASE x = l /\ cnt # 0
    <3>1. s = 0 /\ (l = size \/ pos = len)
      BY <1>0, <1>1, <2>3 DEF TextLine, Incomplete
    <3>2. CASE pos = len
      BY <1>0, <1>1, <2>3, <3>2
    <3>3. CASE l = size
      <4>4. \A k \in Starts(TextOf[i]) : Len(LineAt(TextOf[i], k)) <= size
        BY <1>0, <1>1, PlainText
      <4>5. PICK c, M, p, e : /\ c = TextOf[i] /\ M = Range(TextOf[i])
                              /\ p = base + s /\ e = base + x
        OBVIOUS
      <4>11. e - p = size /\ p \in 0 .. len /\ e \in p + 1 .. len /\ e \in Nat
        <5>1. s = 0 /\ x = size /\ base + size <= len /\ size > 0
          BY <1>1, <2>3, <3>1, <3>3
        <5>2. p = base /\ e = base + size
          BY <1>0, <4>5, <5>1
        <5>3. QED
          BY <1>0, <5>1, <5>2
      <4>6. c \in Seq(M) /\ len = Len(c)
        BY <1>0, <1>1, <4>5, TextShape
      <4>7. Begins(c, p)
        BY <1>0, <1>1, <4>5 DEF Breaks
      <4>8. /\ \A k \in p + 1 .. e : c[k] # NL
            /\ \A k \in Starts(c) : Len(LineAt(c, k)) <= e - p
        BY <1>2, <4>4, <4>5, <4>11
      <4>9. e = Len(c) \/ c[e + 1] = NL
        BY <4>6, <4>7, <4>8, <4>11, FullLine
      <4>10. QED
        BY <4>5, <4>6, <4>9
    <3>4. QED
      BY <3>1, <3>2, <3>3
  <2>4. QED
    BY <2>1, <2>2, <2>3
<1>4. base + x \in base + s .. len
  BY <1>0, <1>1
<1>5. QED
  BY <1>0, <1>1, <1>2, <1>3, <1>4

\* What grep writes of the line that it searches
LEMMA LineWritten ==
    ASSUME FilesInv, BufferOK, AtLine, GrepLine, ~Incomplete,
           NEW size, NEW l, NEW s, NEW x, NEW pos, NEW len, NEW base, NEW i,
           Place(size, l, s, x, pos, len, base, i)
    PROVE  /\ base + x \in Breaks[i] /\ out'[i] = Part[i][base + x]
           /\ base + x < len => /\ base + x + 1 \in Breaks[i]
                                /\ out'[i] = Part[i][base + x + 1]
<1>1. /\ base + s \in Breaks[i] /\ base + x \in base + s .. len
      /\ \A k \in base + s + 1 .. base + x : TextOf[i][k] # NL
      /\ base + x = len \/ TextOf[i][base + x + 1] = NL
  BY WholeLine
<1>2. /\ l \in Nat /\ s \in Nat /\ x \in Nat /\ base \in Nat /\ i \in 1 .. Len(image.dir)
      /\ s = line_start /\ x = line_end /\ x = LineStop /\ i = Current
      /\ len = Len(TextOf[i]) /\ image \in Images /\ s <= x /\ x <= l /\ arg \in Patterns
      /\ \A j \in s .. l - 1 : data[j] = TextOf[i][base + j + 1]
      /\ out[i] = Part[i][base + s]
  BY DEF Place, BufferOK
<1>3. PICK c, line, name, p, e :
         /\ c = TextOf[i] /\ p = base + s /\ e = base + x
         /\ line = SubSeq(c, p + 1, e) /\ name = image.dir[i].name
  OBVIOUS
<1>4. Line = line /\ (Found <=> Holds(line, arg))
  <2>1. \A j \in s .. x - 1 : data[j] = c[base + j + 1]
    BY <1>2, <1>3
  <2>3. ReadAt(c, base, s, x)
    BY <1>2, <2>1 DEF ReadAt
  <2>2. LET m == SubSeq(c, base + s + 1, base + x)
        IN  Line = m /\ (Found <=> Holds(m, arg))
    BY <1>2, <2>3, FoundIs
  <2>4. QED
    BY <1>3, <2>2
<1>5. LET now == IF Holds(line, arg) THEN Append(out[i], <<name, line>>) ELSE out[i]
      IN  /\ e \in Breaks[i] /\ Part[i][e] = now
          /\ e < len => e + 1 \in Breaks[i] /\ Part[i][e + 1] = now
  <2>1. /\ p \in Breaks[i] /\ e \in p .. Len(TextOf[i])
        /\ \A k \in p + 1 .. e : TextOf[i][k] # NL
        /\ e = Len(TextOf[i]) \/ TextOf[i][e + 1] = NL
    BY <1>1, <1>2, <1>3
  <2>2. LET m   == SubSeq(TextOf[i], p + 1, e)
            now == IF Holds(m, arg) THEN Append(Part[i][p], <<image.dir[i].name, m>>)
                   ELSE Part[i][p]
        IN  /\ e \in Breaks[i] /\ Part[i][e] = now
            /\ e < Len(TextOf[i]) => e + 1 \in Breaks[i] /\ Part[i][e + 1] = now
    BY <1>2, <2>1, LineFound
  <2>3. QED
    BY <1>2, <1>3, <2>2
<1>6. out'[i] = IF Holds(line, arg) THEN Append(out[i], <<name, line>>) ELSE out[i]
  <2>1. out'[i] = IF Found THEN Append(out[i], <<fname, Line>>) ELSE out[i]
    BY <1>2, OutputGrows DEF AtLine
  <2>2. fname = name
    BY <1>2, <1>3 DEF AtLine, FileOpen, InEntry
  <2>3. QED
    BY <1>4, <2>1, <2>2
<1>7. QED
  BY <1>3, <1>5, <1>6

\* Of a text it goes on behind the line, or is done with what it has read.
LEMMA TextSearched ==
    ASSUME FilesInv, BufferOK, AtLine, GrepLine, ~Incomplete,
           last \in 0 .. BUFSIZE, line_start \in 0 .. last, Readable(Current)
    PROVE  /\ pc' = "line" => TextLine'
           /\ pc' = "fill" => TextFill'
           /\ pc' = "close" => out'[Current] = Part[Current][Len(TextOf[Current])]
<1>0. PICK size, l, s, x, pos, len, base, i :
         Place(size, l, s, x, pos, len, base, i)
  BY LinePlace
<1>1. /\ size \in Nat /\ l \in Nat /\ s \in Nat /\ x \in Nat /\ pos \in Nat
      /\ len \in Nat /\ base \in Nat /\ i \in 1 .. Len(image.dir)
      /\ size = BUFSIZE /\ l = last /\ s = line_start /\ x = line_end
      /\ pos = ReadSoFar /\ i = Current /\ len = Len(TextOf[i])
      /\ base = pos - l /\ base + l = pos /\ image \in Images
      /\ size > 0 /\ l <= size /\ s <= x /\ x <= l /\ l <= pos /\ pos <= len
      /\ \A j \in s .. l - 1 : data[j] = TextOf[i][base + j + 1]
  BY <1>0 DEF Place
<1>2. /\ base + x \in Breaks[i] /\ out'[i] = Part[i][base + x]
      /\ base + x < len => /\ base + x + 1 \in Breaks[i]
                           /\ out'[i] = Part[i][base + x + 1]
  BY <1>0, LineWritten
<1>3. \A j \in 0 .. size : j # x => data'[j] = data[j]
  <2>1. data' = EndMarked
    BY DEF GrepLine
  <2>2. line_end \in 0 .. BUFSIZE
    BY <1>1
  <2>3. QED
    BY <1>1, <2>1, <2>2, MarkedIs
<1>5. /\ Current' = i /\ ReadSoFar' = pos
      /\ TextOf' = TextOf /\ Part' = Part /\ Breaks' = Breaks
  BY <1>1, SameFiles DEF AtLine
<1>6. cnt' = cnt /\ (cnt = 0 => pos = len) /\ (cnt # 0 => data[l] # NL)
      /\ (l = size \/ pos = len)
  BY <1>1 DEF AtLine, TextLine, GrepLine
<1>7. CASE x + 1 < l
  <2>1. pc' = "line" /\ last' = l /\ line_start' = x + 1
    BY <1>1, <1>7 DEF GrepLine, Goto
  <2>2. base + x < len /\ (pos - l) + (x + 1) = base + x + 1 /\ pos - l = base
    BY <1>1, <1>7
  <2>3. \A j \in x + 1 .. l - 1 : data'[j] = TextOf[i][base + j + 1]
    <3> SUFFICES ASSUME NEW j \in x + 1 .. l - 1
                 PROVE  data'[j] = TextOf[i][base + j + 1]
      OBVIOUS
    <3>1. j \in 0 .. size /\ j # x /\ j \in s .. l - 1
      BY <1>1
    <3>2. QED
      BY <1>1, <1>3, <3>1
  <2>4. cnt # 0 => data'[l] # NL
    <3>1. l \in 0 .. size /\ l # x
      BY <1>1, <1>7
    <3>2. QED
      BY <1>3, <1>6, <3>1
  <2>5. TextLine'
    <3>1. last' <= pos
      BY <1>1, <2>1
    <3>2. \A j \in line_start' .. last' - 1 : data'[j] = TextOf[i][(pos - last') + j + 1]
      BY <2>1, <2>2, <2>3
    <3>3. /\ (pos - last') + line_start' \in Breaks[i]
          /\ out'[i] = Part[i][(pos - last') + line_start']
      BY <1>2, <2>1, <2>2
    <3>4. last' = size \/ pos = len
      BY <1>6, <2>1
    <3>5. IF cnt' = 0 THEN pos = len ELSE data'[last'] # NL
      BY <1>6, <2>1, <2>4
    <3>6. QED
      BY <1>1, <1>5, <3>1, <3>2, <3>3, <3>4, <3>5 DEF TextLine
  <2>6. QED
    BY <2>1, <2>5
<1>8. CASE ~(x + 1 < l)
  <2>1. last' = 0 /\ pc' = IF cnt = 0 THEN "close" ELSE "fill"
    BY <1>1, <1>8 DEF GrepLine, Goto
  <2>2. pos \in Breaks[i] /\ out'[i] = Part[i][pos]
    <3>1. x = l \/ x + 1 = l
      BY <1>1, <1>8
    <3>2. CASE x = l
      BY <1>1, <1>2, <3>2
    <3>3. CASE x + 1 = l
      <4>1. base + x + 1 = pos /\ base + x < len
        BY <1>1, <3>3
      <4>2. QED
        BY <1>2, <4>1
    <3>4. QED
      BY <3>1, <3>2, <3>3
  <2>3. CASE cnt = 0
    BY <1>1, <1>6, <2>1, <2>2, <2>3
  <2>4. CASE cnt # 0
    <3>1. pos - last' = pos /\ last' <= pos
      BY <1>1, <2>1
    <3>2. \A j \in 0 .. last' - 1 : data'[j] = TextOf[i][(pos - last') + j + 1]
      BY <2>1
    <3>3. TextFill'
      BY <1>1, <1>5, <2>2, <3>1, <3>2 DEF TextFill
    <3>4. QED
      BY <2>1, <2>4, <3>3
  <2>5. QED
    BY <2>3, <2>4
<1>9. QED
  BY <1>7, <1>8

\* grep searches a line, and goes on behind it.
LEMMA SearchFound ==
    ASSUME FilesInv, BufferOK, AtLine, GrepLine, ~Incomplete,
           last \in 0 .. BUFSIZE, line_start \in 0 .. last
    PROVE  /\ BufferOK'
           /\ \/ pc' = "line"  /\ AtLine'
              \/ pc' = "fill"  /\ AtFill'
              \/ pc' = "close" /\ AtClose'
<1>1. line_end \in 0 .. BUFSIZE
  <2>1. PICK size \in Nat : size = BUFSIZE
    BY ProgramsAssumption
  <2>2. PICK x \in Nat : x = line_end /\ x <= last
    BY <2>1, LineEndIs
  <2>3. QED
    BY <2>1, <2>2
<1>2. BufferOK'
  <2>1. UNCHANGED <<image, text, arg>> /\ data' = EndMarked
    BY DEF GrepLine, vars
  <2>2. QED
    BY <1>1, <2>1, MarkedIs DEF BufferOK
<1>3. /\ Current' = Current /\ FileOpen' /\ Before'
      /\ TextOf' = TextOf /\ Part' = Part
      /\ \A j : Readable(j)' <=> Readable(j)
  BY SameFiles, OutputGrows DEF AtLine
<1>4. \/ pc' = "line"
      \/ pc' = "fill" /\ last' = 0
      \/ pc' = "close"
  BY DEF GrepLine, Goto
<1>5. Readable(Current) =>
          /\ pc' = "line" => TextLine'
          /\ pc' = "fill" => TextFill'
          /\ pc' = "close" => out'[Current] = Part[Current][Len(TextOf[Current])]
  BY TextSearched
<1>6. CASE pc' = "line"
  BY <1>2, <1>3, <1>5, <1>6 DEF AtLine
<1>7. CASE pc' = "fill" /\ last' = 0
  BY <1>2, <1>3, <1>5, <1>7, ProgramsAssumption DEF AtFill
<1>8. CASE pc' = "close"
  <2>1. \A j \in 1 .. Current : j = Current \/ j \in 1 .. Current - 1
    <3>1. Current \in 1 .. Len(image.dir)
      BY DEF AtLine, FileOpen, InEntry
    <3>2. QED
      BY <3>1
  <2>2. Wrote(Current)'
    BY <1>3, <1>5, <1>8, <2>1 DEF Before, Wrote
  <2>3. QED
    BY <1>2, <1>3, <1>8, <2>2 DEF AtClose
<1>9. QED
  BY <1>4, <1>6, <1>7, <1>8

\* No step of grep changes the disk, its texts or the pattern.
LEMMA GrepKeeps ==
    ASSUME client = "grep", [ProgramsNext]_<<vars, userVars>>
    PROVE  image' = image /\ text' = text /\ arg' = arg
<1>1. CASE UNCHANGED <<vars, userVars>>
  BY <1>1 DEF vars, userVars
<1>2. CASE GrepStart \/ GrepNext \/ GrepOpen \/ GrepFill \/ GrepLine \/ GrepClose
  <2>1. text' = text /\ arg' = arg
    BY <1>2 DEF GrepStart, GrepNext, GrepOpen, GrepFill, GrepLine, GrepClose
  <2>2. image' = image
    BY <1>2 DEF GrepStart, GrepNext, GrepOpen, GrepFill, GrepLine, GrepClose, vars,
                sys_open, sys_read, sys_close, Failed
  <2>3. QED
    BY <2>1, <2>2
<1>3. QED
  BY <1>1, <1>2 DEF ProgramsNext, AnyCall, CatOpen, CatRead, LsOpen, LsRead, Syserr

\* Every step of grep keeps what is known of its output, its files and its buffer.
LEMMA FoundStep ==
    ASSUME SoundImages, RootListed, PlainFiles, ProgramsInv, FoundInv,
           [ProgramsNext]_<<vars, userVars>>
    PROVE  FoundInv'
<1>1. client' = client
  BY DEF ProgramsNext, AnyCall, userVars, CatOpen, CatRead, LsOpen, LsRead, GrepStart,
         GrepNext, GrepOpen, GrepFill, GrepLine, GrepClose, Open, Syserr
<1> SUFFICES ASSUME client = "grep" PROVE FoundInv'
  BY <1>1 DEF FoundInv
<1>2. image' = image /\ text' = text /\ arg' = arg
  BY GrepKeeps
<1>3. /\ TextOf' = TextOf /\ Breaks' = Breaks /\ Part' = Part
      /\ \A i : Readable(i)' <=> Readable(i)
  BY <1>2, SameTexts
<1>4. /\ BufferOK
      /\ pc = "start" => AtStart
      /\ pc = "dir"   => AtDir
      /\ pc = "open"  => AtOpen
      /\ pc = "fill"  => AtFill
      /\ pc = "line"  => AtLine
      /\ pc = "close" => AtClose
      /\ pc = "exit"  => AtExit
  BY DEF FoundInv
<1>5. FilesInv /\ GrepInv
  BY DEF ProgramsInv
<1>6. data' = data => BufferOK'
  BY <1>2, <1>4 DEF BufferOK
<1>7. CASE UNCHANGED <<vars, userVars>>
  <2>1. /\ UNCHANGED <<pc, code, out, fd, dfd, fname, data, last, line_start, cnt>>
        /\ UNCHANGED <<fd_entry, image>>
    BY <1>7 DEF vars, userVars, grepVars
  <2>2. Current' = Current /\ ReadSoFar' = ReadSoFar
    BY <2>1 DEF Current, ReadSoFar
  <2>3. (DirOpen' <=> DirOpen) /\ (Alone' <=> Alone) /\ (InEntry' <=> InEntry)
    BY <2>1, <2>2 DEF DirOpen, Alone, InEntry
  <2>4. FileOpen' <=> FileOpen
    BY <1>3, <2>1, <2>2, <2>3 DEF FileOpen
  <2>10. (\A n : Wrote(n)' <=> Wrote(n)) /\ (Before' <=> Before)
    BY <1>2, <2>1, <2>2, SameOutput
  <2>11. (TextFill' <=> TextFill) /\ (TextLine' <=> TextLine)
    BY <1>3, <2>1, <2>2 DEF TextFill, TextLine
  <2>5. (pc' = "start" => AtStart') /\ (pc' = "exit" => AtExit')
    BY <1>4, <2>1, <2>10 DEF AtStart, AtExit
  <2>6. /\ pc' = "dir" => AtDir'
        /\ pc' = "open" => AtOpen'
        /\ pc' = "close" => AtClose'
    BY <1>3, <1>4, <2>1, <2>2, <2>3, <2>4, <2>10 DEF AtDir, AtOpen, AtClose
  <2>7. pc' = "fill" => AtFill'
    BY <1>3, <1>4, <2>1, <2>2, <2>4, <2>10, <2>11 DEF AtFill
  <2>8. pc' = "line" => AtLine'
    BY <1>3, <1>4, <2>1, <2>2, <2>4, <2>10, <2>11 DEF AtLine
  <2>9. QED
    BY <1>6, <2>1, <2>5, <2>6, <2>7, <2>8 DEF FoundInv
<1>8. CASE GrepStart
  <2>1. pc = "start" /\ data' = data
    BY <1>8 DEF GrepStart, grepVars
  <2>2. pc' = "dir" /\ AtDir'
    BY <1>4, <1>5, <1>8, <2>1, StartFound
  <2>3. QED
    BY <1>6, <2>1, <2>2 DEF FoundInv
<1>9. CASE GrepNext
  <2>1. pc = "dir" /\ data' = data
    BY <1>9 DEF GrepNext, grepVars
  <2>2. \/ pc' = "dir"  /\ AtDir'
        \/ pc' = "open" /\ AtOpen'
        \/ pc' = "exit" /\ AtExit'
    BY <1>4, <1>5, <1>9, <2>1, NextFound
  <2>3. QED
    BY <1>6, <2>1, <2>2 DEF FoundInv
<1>10. CASE GrepOpen
  <2>1. pc = "open" /\ data' = data
    BY <1>10 DEF GrepOpen
  <2>2. pc' = "fill" /\ AtFill'
    BY <1>4, <1>5, <1>10, <2>1, OpenFound
  <2>3. QED
    BY <1>6, <2>1, <2>2 DEF FoundInv
<1>11. CASE GrepFill
  <2>1. pc = "fill" /\ last \in Nat
    BY <1>5, <1>11, ProgramsAssumption DEF GrepFill, GrepInv
  <2>2. pc' = "line" /\ AtLine' /\ BufferOK'
    BY <1>4, <1>5, <1>11, <2>1, FillFound
  <2>3. QED
    BY <2>2 DEF FoundInv
<1>12. CASE GrepLine
  <2>1. pc = "line"
    BY <1>12 DEF GrepLine
  <2>2. last \in 0 .. BUFSIZE /\ line_start \in 0 .. last
    BY <1>5, <2>1 DEF GrepInv
  <2>3. CASE Incomplete
    <3>1. pc' = "fill" /\ AtFill' /\ BufferOK'
      BY <1>4, <1>5, <1>12, <2>1, <2>2, <2>3, MoveFound
    <3>2. QED
      BY <3>1 DEF FoundInv
  <2>4. CASE ~Incomplete
    <3>1. /\ BufferOK'
          /\ \/ pc' = "line"  /\ AtLine'
             \/ pc' = "fill"  /\ AtFill'
             \/ pc' = "close" /\ AtClose'
      BY <1>4, <1>5, <1>12, <2>1, <2>2, <2>4, SearchFound
    <3>2. QED
      BY <3>1 DEF FoundInv
  <2>5. QED
    BY <2>3, <2>4
<1>13. CASE GrepClose
  <2>1. pc = "close" /\ data' = data
    BY <1>13 DEF GrepClose, grepVars
  <2>2. pc' = "dir" /\ AtDir'
    BY <1>4, <1>5, <1>13, <2>1, CloseFound
  <2>3. QED
    BY <1>6, <2>1, <2>2 DEF FoundInv
<1>14. QED
  BY <1>7, <1>8, <1>9, <1>10, <1>11, <1>12, <1>13
  DEF ProgramsNext, AnyCall, CatOpen, CatRead, LsOpen, LsRead, Syserr

\* At the start nothing is written and the byte behind the buffer is no NL.
LEMMA FoundStart == PlainFiles /\ ProgramsInit => FoundInv
<1> SUFFICES ASSUME PlainFiles, ProgramsInit, client = "grep" PROVE FoundInv
  BY DEF FoundInv
<1>1. pc = "start" /\ AtStart
  BY DEF ProgramsInit, Init, Closed, AtStart
<1>2. text \in Texts(image) /\ arg \in Patterns
  BY DEF ProgramsInit
<1>3. PICK b \in StaleBytes : data = [i \in 0 .. BUFSIZE |-> IF i = BUFSIZE THEN b ELSE NUL]
  BY DEF ProgramsInit
<1>4. DOMAIN data = 0 .. BUFSIZE /\ data[BUFSIZE] # NL
  <2>1. BUFSIZE \in 0 .. BUFSIZE
    BY ProgramsAssumption
  <2>2. b # NL
    BY DEF PlainFiles
  <2>3. QED
    BY <1>3, <2>1, <2>2
<1>5. QED
  BY <1>1, <1>2, <1>4 DEF FoundInv, BufferOK

\* Whatever files of whatever length are on the disk: grep reads the directory to the
\* end, and of every text file it writes each line that holds the pattern, once and
\* whole, wherever the ends of its buffer cut the lines (ece391grep.c:9-95).
THEOREM GrepTheorem ==
    SoundImages /\ RootListed /\ PlainFiles /\ ProgramsSpec => []GrepFindsLines
<1>1. SoundImages /\ RootListed /\ PlainFiles
          => (SoundImages /\ RootListed /\ PlainFiles)'
  BY DEF SoundImages, RootListed, PlainFiles
<1>2. ProgramsInv /\ FoundInv => GrepFindsLines
  <2> SUFFICES ASSUME ProgramsInv, FoundInv, Finished("grep")
               PROVE  GrepFindsLines
    BY DEF GrepFindsLines
  <2>1. image \in Images
    BY DEF ProgramsInv, FilesInv, DescriptorsOK
  <2>2. code = 0 /\ Wrote(Len(image.dir))
    BY DEF FoundInv, Finished, AtExit
  <2>3. ASSUME NEW i \in 1 .. Len(image.dir)
        PROVE  IF i \notin Searched THEN out[i] = << >>
               ELSE TextFile(i) =>
                      out[i] = LinesWith(image.dir[i].name, Chars(image.dir[i].inode), arg)
    <3>1. Readable(i) => out[i] = Part[i][Len(TextOf[i])]
      BY <2>2 DEF Wrote
    <3>2. /\ i \notin Searched => Readable(i)
          /\ TextFile(i) => Readable(i)
      BY DEF Readable
    <3>3. QED
      BY <2>1, <3>1, <3>2, PartIs
  <2>4. QED
    BY <2>2, <2>3 DEF GrepFindsLines, Wrote
<1>3. QED
  BY <1>1, <1>2, FoundStart, FoundStep, ProgramsInvariant, PTL DEF ProgramsSpec

=============================================================================
