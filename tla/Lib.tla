---------------------------------- MODULE Lib ----------------------------------
(***************************************************************************)
(* Library functions of the kernel (lib.c): the memory functions, which    *)
(* split their work at 4-byte boundaries or choose a direction, strings,   *)
(* the conversion of numbers and printf.                                   *)
(*                                                                         *)
(* Memory is a function from addresses to bytes.  A number is a word of    *)
(* WordBits bits; characters are strings of length 1.                      *)
(***************************************************************************)
EXTENDS Integers, Sequences, SequencesExt

CONSTANTS
    WordBits,       \* width of int32_t and uint32_t (32 in the code)
    MemSize,        \* size of the memory that the memory functions work on
    StrSize,        \* size of the buffers that hold a string
    MaxTokens       \* longest format, in literals and conversions

ASSUME LibAssumption ==
    /\ WordBits \in {4 * k : k \in 1 .. 8}
    /\ MemSize \in Nat /\ StrSize \in Nat \ {0} /\ MaxTokens \in Nat

VARIABLE call       \* the last call: the function, its inputs and its result

Words   == 2 ^ WordBits
NULCHAR == 0

-----------------------------------------------------------------------------
(***************************************************************************)
(* Memory                                                                  *)
(***************************************************************************)
\* Bytes before the first 4-byte boundary
Unaligned(p, n) == LET b == (4 - (p % 4)) % 4 IN IF n < b THEN n ELSE b

\* Bytes behind the last 4-byte boundary
Tail4(p, n) == (n - Unaligned(p, n)) % 4

\* What memset and memcpy move at a time: <<offset, size>>, single bytes up to
\* the first boundary, then words of 4, then single bytes.
Pieces(p, n) ==
    LET head  == Unaligned(p, n)
        words == (n - head) \div 4
    IN  [i \in 1 .. head |-> <<i - 1, 1>>]
        \o [i \in 1 .. words |-> <<head + 4 * (i - 1), 4>>]
        \o [i \in 1 .. Tail4(p, n) |-> <<head + 4 * words + i - 1, 1>>]

Fill(m, p, k, c) == [a \in DOMAIN m |-> IF a \in p .. p + k - 1 THEN c ELSE m[a]]
Move(m, d, s, k) ==
    [a \in DOMAIN m |-> IF a \in d .. d + k - 1 THEN m[s + a - d] ELSE m[a]]

\* Only the low byte of c is used.
memset(m, p, c, n) ==
    FoldLeft(LAMBDA mem, q : Fill(mem, p + q[1], q[2], c % 256), m, Pieces(p, n))

\* One piece after the other is copied.
Copy(m, dest, src, pieces) ==
    FoldLeft(LAMBDA mem, q : Move(mem, dest + q[1], src + q[1], q[2]), m, pieces)

memcpy(m, dest, src, n) == Copy(m, dest, src, Pieces(dest, n))

\* Mutant: from the first byte to the last, always.
AscendingOnly(dest, src, n) == [i \in 1 .. n |-> <<i - 1, 1>>]

\* The order in which memmove copies bytes: cld, or std when src is below dest.
Direction(dest, src, n) ==
    IF src >= dest THEN [i \in 1 .. n |-> <<i - 1, 1>>]
    ELSE [i \in 1 .. n |-> <<n - i, 1>>]

memmove(m, dest, src, n) == Copy(m, dest, src, Direction(dest, src, n))

-----------------------------------------------------------------------------
(***************************************************************************)
(* Strings                                                                 *)
(***************************************************************************)
strlen(m, s) ==
    CHOOSE k \in {a - s : a \in DOMAIN m} :
        k >= 0 /\ m[s + k] = NULCHAR /\ \A i \in 0 .. k - 1 : m[s + i] # NULCHAR

\* How much strncpy copies before it pads
CopyLength(m, src, n) == IF strlen(m, src) < n THEN strlen(m, src) ELSE n

strcpy_to(m, dest, src) ==
    Fill(Move(m, dest, src, strlen(m, src)), dest + strlen(m, src), 1, NULCHAR)

\* Mutant: the rest is not padded.
PaddingNone(dest, k, n) == {}

\* Where strncpy writes NULs
Padding(dest, k, n) == dest + k .. dest + n - 1

strncpy(m, dest, src, n) ==
    LET k == CopyLength(m, src, n)
        copied == Move(m, dest, src, k)
    IN  [a \in DOMAIN m |-> IF a \in Padding(dest, k, n) THEN NULCHAR
                            ELSE copied[a]]

\* The difference at the first byte that differs or ends the strings
strncmp(m, s1, s2, n) ==
    LET ends == {i \in 0 .. n - 1 : m[s1 + i] # m[s2 + i] \/ m[s1 + i] = NULCHAR}
    IN  IF ends = {} THEN 0
        ELSE LET i == CHOOSE i \in ends : \A j \in ends : i <= j
             IN  m[s1 + i] - m[s2 + i]

-----------------------------------------------------------------------------
(***************************************************************************)
(* Numbers                                                                 *)
(***************************************************************************)
lookup == <<"0", "1", "2", "3", "4", "5", "6", "7", "8", "9", "A", "B", "C",
            "D", "E", "F">>

\* The digits as itoa writes them first, from the lowest place value
Places(value, radix) ==
    LET f[v \in 0 .. value] ==
            IF v = 0 THEN <<>>
            ELSE <<lookup[(v % radix) + 1]>> \o f[v \div radix]
    IN  f[value]

strrev(s) == [i \in 1 .. Len(s) |-> s[Len(s) + 1 - i]]

itoa(value, radix) ==
    IF value = 0 THEN <<"0">> ELSE strrev(Places(value, radix))

\* %#x: the gap in front of the digits, which start at conv_buf[8], is filled
\* with zeros from conv_buf[strlen] on.
ZeroPadded(digits) ==
    [i \in 1 .. (WordBits \div 4) - Len(digits) |-> "0"] \o digits

\* -value, in the two's complement of the word
Negate(u) == (Words - u) % Words

SignedDecimal(u) == IF u >= Words \div 2 THEN <<"-">> \o itoa(Negate(u), 10)
                    ELSE itoa(u, 10)

-----------------------------------------------------------------------------
(***************************************************************************)
(* printf                                                                  *)
(***************************************************************************)
\* What the stack holds behind the format, read in each of the ways a
\* conversion may read it: no two of any 16 words in a row are the same.
Stack == [i \in Nat \ {0} |->
             LET name == lookup[((i - 1) % 16) + 1]
             IN  [word |-> ((Words \div 2) - 1 + 3 * (i - 1)) % Words,
                  char |-> name, text |-> <<name, "y">>]]

\* What conversion character c prints of stack word e; '#' came before if alt.
Converted(c, alt, e) ==
    CASE c = "x" -> IF alt THEN ZeroPadded(itoa(e.word, 16)) ELSE itoa(e.word, 16)
      [] c = "u" -> itoa(e.word, 10)
      [] c = "d" -> SignedDecimal(e.word)
      [] c = "c" -> <<e.char>>
      [] c = "s" -> e.text

\* Mutant: %c leaves esp where it is.
TakesNoChar(c) == c \in {"x", "u", "d", "s"}

\* The conversions that take a word off the stack
Takes(c) == c \in {"x", "u", "d", "c", "s"}

\* One turn of printf's loop, or of format_char_switch, at character c
PrintfStep(f, c) ==
    CASE f.mode = "text" /\ c = "%" -> [f EXCEPT !.mode = "conversion", !.alt = FALSE]
      [] f.mode = "text" /\ c # "%" -> [f EXCEPT !.out = Append(@, c)]
      [] f.mode = "conversion" /\ c = "#" -> [f EXCEPT !.alt = TRUE]
      [] f.mode = "conversion" /\ c = "%" ->
            [f EXCEPT !.mode = "text", !.out = Append(@, c)]
      [] f.mode = "conversion" /\ c \in {"x", "u", "d", "c", "s"} ->
            [f EXCEPT !.mode = "text",
                      !.out = @ \o Converted(c, f.alt, Stack[f.esp]),
                      !.esp = IF Takes(c) THEN @ + 1 ELSE @]
      [] OTHER -> [f EXCEPT !.mode = "text"]

printf(format) ==
    FoldLeft(PrintfStep, [mode |-> "text", alt |-> FALSE, esp |-> 1, out |-> <<>>],
             format).out

\* The parts of a format: "q" is no conversion.  A format that ends inside one
\* sends printf past its NUL, and is not among the formats.
Tokens == {<<"x">>, <<"%", "%">>, <<"%", "q">>, <<"%", "x">>, <<"%", "#", "x">>,
           <<"%", "u">>, <<"%", "#", "d">>, <<"%", "d">>, <<"%", "c">>, <<"%", "s">>}

Formats == UNION {[1 .. n -> Tokens] : n \in 0 .. MaxTokens}

-----------------------------------------------------------------------------
(***************************************************************************)
(* Calls                                                                   *)
(***************************************************************************)
NoCall  == [fn |-> "none"]
LibInit == call = NoCall

\* Bytes that tell the addresses apart
Memory == [a \in 0 .. MemSize - 1 |-> a + 1]
Ranges == {r \in (0 .. MemSize) \X (0 .. MemSize) : r[1] + r[2] <= MemSize}

CallMemset ==
    \E r \in Ranges, c \in {0, 255, 256 + 7} :
        call' = [fn |-> "memset", s |-> r[1], n |-> r[2], c |-> c,
                 mem |-> memset(Memory, r[1], c, r[2])]

\* Overlapping ranges are copied by memcpy when dest lies below src.
CallMemcpy ==
    \E r \in Ranges, src \in 0 .. MemSize :
        /\ src + r[2] <= MemSize /\ (r[1] <= src \/ src + r[2] <= r[1])
        /\ call' = [fn |-> "memcpy", dest |-> r[1], src |-> src, n |-> r[2],
                    mem |-> memcpy(Memory, r[1], src, r[2])]

CallMemmove ==
    \E r \in Ranges, src \in 0 .. MemSize :
        /\ src + r[2] <= MemSize
        /\ call' = [fn |-> "memmove", dest |-> r[1], src |-> src, n |-> r[2],
                    mem |-> memmove(Memory, r[1], src, r[2])]

\* Two buffers one behind the other: what the first holds ends with a NUL.
Buffers == [0 .. 2 * StrSize - 1 -> {NULCHAR, 1, 2}]
Terminated(m) == m[StrSize - 1] = NULCHAR /\ m[2 * StrSize - 1] = NULCHAR

CallStrcpy ==
    \E m \in Buffers :
        /\ Terminated(m)
        /\ call' = [fn |-> "strcpy", before |-> m, mem |-> strcpy_to(m, StrSize, 0)]

CallStrncpy ==
    \E m \in Buffers, n \in 0 .. StrSize :
        /\ Terminated(m)
        /\ call' = [fn |-> "strncpy", before |-> m, n |-> n,
                    mem |-> strncpy(m, StrSize, 0, n),
                    differ |-> strncmp(m, 0, StrSize, n)]

CallPrintf ==
    \E t \in Formats :
        call' = [fn |-> "printf", tokens |-> t, out |-> printf(FlattenSeq(t))]

CallNumbers ==
    \E u \in 0 .. Words - 1 :
        call' = [fn |-> "numbers", word |-> u, hex |-> itoa(u, 16),
                 padded |-> ZeroPadded(itoa(u, 16)), unsigned |-> itoa(u, 10),
                 signed |-> SignedDecimal(u)]

LibCall ==
    /\ call = NoCall
    /\ \/ CallMemset \/ CallMemcpy \/ CallMemmove \/ CallStrcpy \/ CallStrncpy
       \/ CallPrintf \/ CallNumbers

-----------------------------------------------------------------------------
(***************************************************************************)
(* Properties                                                              *)
(***************************************************************************)

\* memset, memcpy and memmove change the bytes of their range, each to the value
\* that c or the source had before the call, and no other byte, wherever the
\* 4-byte boundaries fall: for memmove however the ranges overlap, for memcpy
\* unless dest lies in the source behind its first byte.
BytesMoved ==
    /\ call.fn = "memset" =>
          \A a \in DOMAIN Memory :
              call.mem[a] = IF a \in call.s .. call.s + call.n - 1
                            THEN call.c % 256 ELSE Memory[a]
    /\ call.fn \in {"memcpy", "memmove"} =>
          \A a \in DOMAIN Memory :
              call.mem[a] = IF a \in call.dest .. call.dest + call.n - 1
                            THEN Memory[call.src + a - call.dest] ELSE Memory[a]

\* The first n bytes of two strings are the same up to a NUL.
SameUpTo(m, a, b, n) ==
    \A i \in 0 .. n - 1 :
        (\A j \in 0 .. i - 1 : m[a + j] # NULCHAR) => m[a + i] = m[b + i]

\* A copy compares equal to its source in the first n bytes, strncpy leaves no
\* byte of those n as it was behind the string, and no copy changes its source or
\* what is behind its destination; strncmp finds exactly the strings that differ.
CopiesCompareEqual ==
    /\ call.fn = "strcpy" =>
          /\ SameUpTo(call.mem, 0, StrSize, StrSize)
          /\ \A i \in 0 .. StrSize - 1 : call.mem[i] = call.before[i]
    /\ call.fn = "strncpy" =>
          /\ SameUpTo(call.mem, 0, StrSize, call.n)
          /\ strncmp(call.mem, 0, StrSize, call.n) = 0
          /\ \A i \in 0 .. call.n - 1 :
                (\E j \in 0 .. i : call.before[j] = NULCHAR)
                   => call.mem[StrSize + i] = NULCHAR
          /\ \A i \in (0 .. StrSize - 1) \cup (StrSize + call.n .. 2 * StrSize - 1) :
                call.mem[i] = call.before[i]
          /\ (call.differ = 0) <=> SameUpTo(call.before, 0, StrSize, call.n)

\* The number that digits stand for
ValueOf(digits, radix) ==
    FoldLeft(LAMBDA v, d : radix * v + (CHOOSE k \in 0 .. 15 : lookup[k + 1] = d),
             0, digits)

Canonical(digits) == digits # <<>> /\ (Head(digits) = "0" => Len(digits) = 1)

\* The strings that a number is printed as stand for it
Faithful(c) ==
    /\ Canonical(c.hex) /\ ValueOf(c.hex, 16) = c.word
    /\ Canonical(c.unsigned) /\ ValueOf(c.unsigned, 10) = c.word
    /\ Len(c.padded) = WordBits \div 4 /\ ValueOf(c.padded, 16) = c.word
    /\ IF c.word < Words \div 2 THEN c.signed = c.unsigned
       ELSE /\ Head(c.signed) = "-" /\ Canonical(Tail(c.signed))
            /\ ValueOf(Tail(c.signed), 10) = Words - c.word

\* What a part of a format asks for, given the stack word that is its own
Meant(t, e) ==
    CASE t = <<"%", "%">> -> <<"%">>
      [] t = <<"%", "q">> -> <<>>
      [] t = <<"x">>      -> t
      [] OTHER            -> Converted(t[Len(t)], Len(t) = 3, e)

\* The words that the first k parts of a format consume
Consumed(tokens, k) ==
    Cardinality({i \in 1 .. k : Len(tokens[i]) > 1 /\ tokens[i][2] \notin {"%", "q"}})

\* printf prints what each part of the format asks for, each conversion of its own
\* word of the stack and none of another's, and "#" has no effect on a later part.
\* Every number is printed as digits that stand for it and start with no needless
\* zero, %#x as one digit for each four bits, and the most negative number, whose
\* negation overflows, as itself (lib.c:89-209, 452-501).
PrintfPrints ==
    /\ call.fn = "printf" =>
          call.out = FlattenSeq([i \in 1 .. Len(call.tokens) |->
              Meant(call.tokens[i], Stack[1 + Consumed(call.tokens, i - 1)])])
    /\ call.fn = "numbers" => Faithful(call)
=============================================================================
