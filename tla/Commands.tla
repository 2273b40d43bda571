-------------------------------- MODULE Commands --------------------------------
(***************************************************************************)
(* Command lines (syscall.c): sys_execute splits off the name of the file  *)
(* to run and keeps the whole command in the PCB, from which sys_getargs   *)
(* takes the argument.  A slot, and the cmd buffer in it, is used again by *)
(* process after process.                                                  *)
(*                                                                         *)
(* Strings in memory are functions from an index to a byte; commands and   *)
(* names as the user sees them are sequences of characters.  Which process *)
(* may halt when is the subject of ProcessManager: here any of them may.   *)
(***************************************************************************)
EXTENDS Integers, Sequences

CONSTANTS
    MAX_PCB_NUM,    \* process slots (6 in the code)
    CMD_LENGTH,     \* size of cmd (128)
    FILENAME_LEN,   \* longest file name (32)
    Letters,        \* characters other than the space
    Executables,    \* names of the executable files
    Lines           \* the command lines that are entered

SPACE == " "
NUL   == "nul"
Bytes == Letters \cup {SPACE, NUL}
Pids  == 1 .. MAX_PCB_NUM

\* Lines are short enough for cmd and a word's end in it.  sys_execute does not look:
\* its strcpy of a longer line goes on behind cmd in the PCB (syscall.c:398).
ASSUME CommandsAssumption ==
    /\ MAX_PCB_NUM \in Nat \ {0} /\ CMD_LENGTH \in Nat
    /\ SPACE \notin Letters /\ NUL \notin Letters
    /\ FILENAME_LEN \in Nat \ {0} /\ FILENAME_LEN < CMD_LENGTH
    /\ \A n \in Executables : n \in Seq(Letters) /\ Len(n) \in 1 .. FILENAME_LEN
    /\ \A c \in Lines : c \in Seq(Letters \cup {SPACE}) /\ Len(c) \in 1 .. CMD_LENGTH - 2

VARIABLES
    live,       \* slots in use
    cmd,        \* per slot the buffer in the PCB
    file,       \* per slot the file that was loaded
    arg,        \* the argument that getargs returned, and to whom
    started     \* history: the command line each process was started with

vars == <<live, cmd, file, arg, started>>

-----------------------------------------------------------------------------
(***************************************************************************)
(* Strings                                                                 *)
(***************************************************************************)
Zeros == [i \in 0 .. CMD_LENGTH - 1 |-> NUL]

\* Byte i of string s in memory that holds g behind it
ByteAt(s, g, i) == IF i < Len(s) THEN s[i + 1] ELSE IF i = Len(s) THEN NUL ELSE g

\* strcpy_unsigned: what lies behind the NUL stays.
strcpy(b, s) == [i \in DOMAIN b |-> ByteAt(s, b[i], i)]

\* Mutant: the last character is not compared.
SameNameShort(a, b) ==
    \A i \in 0 .. FILENAME_LEN - 2 : (\A j \in 0 .. i - 1 : a[j] # NUL) => a[i] = b[i]

\* strncmp_unsigned(a, b, FILENAME_LEN) == 0
SameName(a, b) ==
    \A i \in 0 .. FILENAME_LEN - 1 : (\A j \in 0 .. i - 1 : a[j] # NUL) => a[i] = b[i]

\* parse_arg into a buffer of zeros; it stops at a space, not at the NUL.
parse_arg(c, g) ==
    [i \in 0 .. FILENAME_LEN - 1 |->
        IF \E j \in 0 .. i : ByteAt(c, g, j) = SPACE THEN NUL ELSE ByteAt(c, g, i)]

\* The file name of a directory entry
Dentry(n) == [i \in 0 .. FILENAME_LEN - 1 |-> ByteAt(n, NUL, i)]

\* The executables that command c finds, with g in memory behind it.  (An empty
\* name finds an unused entry, whose inode 0 is not an executable.)
Found(c, g) == {n \in Executables : SameName(parse_arg(c, g), Dentry(n))}

-----------------------------------------------------------------------------
(***************************************************************************)
(* System calls                                                            *)
(***************************************************************************)
Init ==
    /\ live = {}
    /\ cmd = [p \in Pids |-> Zeros]
    /\ file = [p \in Pids |-> <<>>]
    /\ arg = [pid |-> 0, text |-> <<>>]
    /\ started = [p \in Pids |-> <<>>]

find_pid == CHOOSE p \in Pids \ live : \A q \in Pids \ live : p <= q

sys_execute(c, g) ==
    /\ Pids # live
    /\ \E n \in Found(c, g) :
          /\ live' = live \cup {find_pid}
          /\ cmd'  = [cmd EXCEPT ![find_pid] = strcpy(@, c)]
          /\ file' = [file EXCEPT ![find_pid] = n]
          /\ started' = [started EXCEPT ![find_pid] = c]
    /\ UNCHANGED arg

\* Mutant: only the start of cmd is cleared.
ClearedName(b) == [i \in DOMAIN b |-> IF i < FILENAME_LEN THEN NUL ELSE b[i]]

\* What sys_halt leaves in cmd
Cleared(b) == Zeros

sys_halt(p) ==
    /\ p \in live
    /\ live' = live \ {p}
    /\ cmd'  = [cmd EXCEPT ![p] = Cleared(@)]
    /\ file' = [file EXCEPT ![p] = <<>>]
    /\ started' = [started EXCEPT ![p] = <<>>]
    /\ arg' = [pid |-> 0, text |-> <<>>]

FirstIn(S, from) == CHOOSE i \in S : i >= from /\ \A j \in S : j >= from => i <= j

\* Where the name in cmd ends
NameEnd(b) == FirstIn({i \in DOMAIN b : b[i] \in {SPACE, NUL}}, 0)

\* Mutant: the argument goes on to the end of the line (as in command_to_arg,
\* which is not used).
ArgEndAtNul(b) == FirstIn({i \in DOMAIN b : b[i] = NUL}, NameEnd(b) + 1)

\* Where the argument ends
ArgEnd(b) == FirstIn({i \in DOMAIN b : b[i] \in {SPACE, NUL}}, NameEnd(b) + 1)

\* sys_getargs: from behind the first space or NUL up to the next one
sys_getargs(p) ==
    /\ p \in live
    /\ LET start == NameEnd(cmd[p]) + 1
       IN  arg' = [pid  |-> p,
                   text |-> [k \in 1 .. ArgEnd(cmd[p]) - start |-> cmd[p][start + k - 1]]]
    /\ UNCHANGED <<live, cmd, file, started>>

Next == \/ \E c \in Lines, g \in Bytes : sys_execute(c, g)
        \/ \E p \in Pids : sys_halt(p) \/ sys_getargs(p)

Spec == Init /\ [][Next]_vars

-----------------------------------------------------------------------------
(***************************************************************************)
(* Properties                                                              *)
(***************************************************************************)

\* The words of a line, as one reads it: what is between its spaces
SpacesOf(c) == {i \in 1 .. Len(c) : c[i] = SPACE} \cup {0, Len(c) + 1}
NextSpace(c, i) == CHOOSE j \in SpacesOf(c) : j > i /\ \A k \in SpacesOf(c) : k > i => j <= k
FirstWord(c)  == SubSeq(c, 1, NextSpace(c, 0) - 1)
SecondWord(c) ==
    LET i == NextSpace(c, 0)
    IN  IF i > Len(c) THEN <<>> ELSE SubSeq(c, i + 1, NextSpace(c, i) - 1)

\* The file a line asks for
Named(c) == LET w == FirstWord(c)
            IN  IF Len(w) > FILENAME_LEN THEN SubSeq(w, 1, FILENAME_LEN) ELSE w

\* Type invariant
CommandsTypeOK ==
    /\ live \subseteq Pids
    /\ cmd \in [Pids -> [0 .. CMD_LENGTH - 1 -> Bytes]]
    /\ \A p \in live : cmd[p][CMD_LENGTH - 1] = NUL
    /\ file \in [Pids -> Executables \cup {<<>>}]
    /\ arg.pid \in Pids \cup {0} /\ arg.text \in Seq(Letters)
    /\ started \in [Pids -> Lines \cup {<<>>}]

\* getargs gives a process the second word of its own command line, and nothing
\* when there is none, whatever process used its slot before.  The line is one that
\* fits cmd: sys_execute copies any, of whatever length (syscall.c:398).
ArgumentIsOwn ==
    arg.pid # 0 => /\ arg.pid \in live
                   /\ arg.text = SecondWord(started[arg.pid])

\* The file that runs is the one named by the first word of the command line
\* (by its first FILENAME_LEN characters), whatever is in memory behind the line,
\* and a command that names an executable finds it.
RunsNamedFile ==
    /\ \A p \in live : file[p] = Named(started[p])
    /\ \A c \in Lines, g \in Bytes : Named(c) \in Executables => Found(c, g) # {}
=============================================================================
