------------------------------- MODULE Programs -------------------------------
(***************************************************************************)
(* User programs on top of the descriptors of FileSystem: cat, ls, grep    *)
(* and the test program syserr (src/syscalls), each alone in its process,  *)
(* and a program "any" that makes any call in any order.  A step is one    *)
(* system call with the code that looks at its result; grep also takes a   *)
(* step per line of its buffer.                                            *)
(*                                                                         *)
(* Writing to the terminal appends to out; terminal_write never fails (its *)
(* effect on the screens is in module Screens).                            *)
(***************************************************************************)
EXTENDS FileSystem

CONSTANTS
    CatBufSize,     \* buffer of cat (1024)
    BUFSIZE,        \* buffer of grep for the text (1024)
    Args,           \* names given to cat
    Patterns,       \* strings given to grep
    Texts(_),       \* per image: the texts, functions from bytes to characters
    WrongNames,     \* the names err_open tries
    StaleBytes      \* what grep's stack may hold behind the buffer

NL  == "\n"
NUL == "nul"

ASSUME ProgramsAssumption ==
    /\ CatBufSize \in Nat \ {0} /\ BUFSIZE \in Nat \ {0}
    /\ \A s \in Patterns : s \in Seq(Range(s)) /\ Len(s) > 0
    /\ WrongNames \in Seq(Range(WrongNames))

VARIABLES
    client, pc, code,   \* the program, where it is, its exit status
    arg,                \* its argument
    out,                \* history: what it has written (grep: for each name it
                        \* has read), or what its calls returned
    fd, dfd, fname,     \* its descriptors; grep: the name of the file
    text,               \* the characters of the bytes on the disk
    data, last, line_start, cnt     \* locals of do_one_file

grepVars == <<data, last, line_start, cnt>>
userVars == <<client, pc, code, arg, out, fd, dfd, fname, text, grepVars>>

Clients == {"any", "cat", "ls", "grep", "syserr"}

\* What the last read brought from descriptor f
Received(f) == SubSeq(got'[f], Len(got[f]) + 1, Len(got'[f]))

Exit(status) == pc' = "exit" /\ code' = status
Goto(point)  == pc' = point /\ UNCHANGED code

ProgramsInit ==
    /\ Init
    /\ client \in Clients
    /\ arg \in CASE client = "cat"  -> Args
                 [] client = "grep" -> Patterns
                 [] OTHER           -> {<<>>}
    /\ text \in IF client = "grep" THEN Texts(image) ELSE {<<>>}
    /\ \E b \in StaleBytes :
          data = [i \in 0 .. BUFSIZE |-> IF i = BUFSIZE THEN b ELSE NUL]
    /\ pc = "start" /\ code = 0 /\ out = <<>> /\ fd = 0 /\ dfd = 0
    /\ fname = <<>>
    /\ last = 0 /\ line_start = 0 /\ cnt = 0

-----------------------------------------------------------------------------
(***************************************************************************)
(* cat, ls                                                                 *)
(***************************************************************************)
\* The program opens a file and goes on at a point, or leaves with a status.
Open(name, point, status) ==
    /\ sys_open(name)
    /\ IF ret' = FAIL THEN Exit(status) ELSE Goto(point)
    /\ fd' = ret'
    /\ UNCHANGED <<client, arg, out, dfd, fname, text, grepVars>>

CatOpen == client = "cat" /\ pc = "start" /\ Open(arg, "read", 2)

ReadResult == CASE ret' = 0    -> Exit(0)
                [] ret' = FAIL -> Exit(3)
                [] OTHER       -> Goto("read")

CatRead ==
    /\ client = "cat" /\ pc = "read"
    /\ sys_read(fd, CatBufSize)
    /\ ReadResult
    /\ out' = out \o Received(fd)
    /\ UNCHANGED <<client, arg, fd, dfd, fname, text, grepVars>>

LsOpen == client = "ls" /\ pc = "start" /\ Open(<<".">>, "read", 2)

\* Mutant: the buffer has no room for the last character.
LsBytesShort == FILENAME_LEN - 1

\* SBUFSIZE - 1: a name, without the newline that ls appends
LsBytes == FILENAME_LEN

LsRead ==
    /\ client = "ls" /\ pc = "read"
    /\ sys_read(fd, LsBytes)
    /\ ReadResult
    /\ out' = IF ret' <= 0 THEN out
              ELSE Append(out, SubSeq(Received(fd)[1], 1, ret'))
    /\ UNCHANGED <<client, arg, fd, dfd, fname, text, grepVars>>

-----------------------------------------------------------------------------
(***************************************************************************)
(* grep                                                                    *)
(***************************************************************************)
GrepStart ==
    /\ client = "grep" /\ pc = "start"
    /\ sys_open(<<".">>)
    /\ IF ret' = FAIL THEN Exit(2) ELSE Goto("dir")
    /\ dfd' = ret'
    /\ UNCHANGED <<client, arg, out, fd, fname, text, grepVars>>

\* The next name; those that start with a dot are passed over.
GrepNext ==
    /\ client = "grep" /\ pc = "dir"
    /\ sys_read(dfd, FILENAME_LEN)
    /\ IF ret' \in {0, FAIL}
       THEN Exit(IF ret' = 0 THEN 0 ELSE 3) /\ UNCHANGED <<fname, out>>
       ELSE LET name == SubSeq(Received(dfd)[1], 1, ret')
            IN  /\ fname' = name /\ out' = Append(out, <<>>)
                /\ Goto(IF Head(name) = "." THEN "dir" ELSE "open")
    /\ UNCHANGED <<client, arg, fd, dfd, text, grepVars>>

GrepOpen ==
    /\ client = "grep" /\ pc = "open"
    /\ sys_open(fname)
    /\ IF ret' = FAIL THEN Exit(3) ELSE Goto("fill")
    /\ fd' = ret' /\ last' = 0
    /\ UNCHANGED <<client, arg, out, dfd, fname, text, data, line_start, cnt>>

\* Read behind what is left of the last line.  file_read clears the room it is
\* given, unless there is nothing left to read.
GrepFill ==
    /\ client = "grep" /\ pc = "fill"
    /\ sys_read(fd, BUFSIZE - last)
    /\ IF ret' = FAIL THEN Exit(3) ELSE Goto("line")
    /\ cnt' = ret' /\ last' = last + ret' /\ line_start' = 0
    /\ data' = [i \in 0 .. BUFSIZE |->
                    IF ret' = 0 \/ i < last \/ i = BUFSIZE THEN data[i]
                    ELSE IF i < last' THEN text[Received(fd)[i - last + 1]]
                    ELSE NUL]
    /\ UNCHANGED <<client, arg, out, fd, dfd, fname, text>>

LeastFrom(from, P(_)) ==
    CHOOSE i \in from .. BUFSIZE : P(i) /\ \A j \in from .. i - 1 : ~P(j)

line_end == LeastFrom(line_start, LAMBDA i : i >= last \/ data[i] = NL)

\* Mutant: an incomplete line is searched at once.
IncompleteNever == FALSE

\* The line may go on in the next buffer.
Incomplete == data[line_end] # NL /\ cnt # 0 /\ line_start # 0

\* data[line_end] = '\0'
EndMarked == [data EXCEPT ![line_end] = NUL]

\* Where the string data + line_start ends: its first NUL, which in a binary file
\* may come before the end of the line.
LineStop == LeastFrom(line_start, LAMBDA i : EndMarked[i] = NUL)

\* ece391_strcpy(data, data + line_start)
Moved == [i \in 0 .. BUFSIZE |-> IF i <= LineStop - line_start
                                THEN EndMarked[line_start + i] ELSE EndMarked[i]]

\* strlen and strncmp: the pattern occurs in the line.
Found == \E check \in line_start .. line_end - Len(arg) :
            \A k \in 1 .. Len(arg) : data[check + k - 1] = arg[k]

\* data + line_start, as fdputs writes it
Line == [k \in 1 .. LineStop - line_start |-> data[line_start + k - 1]]

GrepLine ==
    /\ client = "grep" /\ pc = "line"
    /\ IF Incomplete
       THEN /\ data' = Moved
            /\ last' = last - line_start
            /\ Goto("fill")
            /\ UNCHANGED <<out, line_start>>
       ELSE /\ data' = EndMarked
            /\ out' = IF Found THEN [out EXCEPT ![Len(out)] = Append(@, <<fname, Line>>)]
                      ELSE out
            /\ line_start' = line_end + 1
            /\ IF line_end + 1 < last THEN Goto("line") /\ UNCHANGED last
               ELSE last' = 0 /\ Goto(IF cnt = 0 THEN "close" ELSE "fill")
    /\ UNCHANGED <<vars, client, arg, fd, dfd, fname, text, cnt>>

GrepClose ==
    /\ client = "grep" /\ pc = "close"
    /\ sys_close(fd)
    /\ IF ret' = FAIL THEN Exit(3) ELSE Goto("dir")
    /\ UNCHANGED <<client, arg, out, fd, dfd, fname, text, grepVars>>

-----------------------------------------------------------------------------
(***************************************************************************)
(* syserr: all its tests but the one of vidmap, in order.  It keeps the    *)
(* value of every call in out.                                             *)
(***************************************************************************)
Call(op, x) == [op |-> op, arg |-> x]
OnEach(op, from, to) == [i \in 1 .. to - from + 1 |-> Call(op, from + i - 1)]

NEG_FD == -1073741823
BIG_FD == 1073741823

Lots == OnEach("open dir", 1, FD_MAX)
Script ==
    <<Call("read", NEG_FD), Call("write", NEG_FD), Call("close", NEG_FD),
      Call("read", BIG_FD), Call("write", BIG_FD), Call("close", BIG_FD)>>
    \o Lots \o OnEach("close", 2, FD_MAX)
    \o [i \in 1 .. Len(WrongNames) |-> Call("open", WrongNames[i])]
    \o OnEach("close", 0, FD_MAX) \o OnEach("read", 2, FD_MAX)
    \o OnEach("write", 2, FD_MAX)
    \o <<Call("write", 0), Call("read", 1), Call("number", BIG_FD),
         Call("number", NEG_FD), Call("number", 0)>>

\* Mutant: the number is compared as a signed one, and with 0 let in.
ValidNumberSigned(n) == n <= 10

\* The numbers for which syscall_handler has an entry
ValidNumber(n) == n \in 1 .. 10

\* int $0x80 with a number (a valid one would be a call of its own).
Invoke(c) ==
    CASE c.op = "read"     -> sys_read(c.arg, 31)
      [] c.op = "write"    -> sys_write(c.arg)
      [] c.op = "close"    -> sys_close(c.arg)
      [] c.op = "open"     -> sys_open(c.arg)
      [] c.op = "open dir" -> sys_open(<<".">>)
      [] c.op = "number"   -> /\ ret' = IF ValidNumber(c.arg) THEN 0 ELSE FAIL
                              /\ UNCHANGED <<image, fd_entry, got>>

Syserr ==
    /\ client = "syserr" /\ pc # "exit"
    /\ Invoke(Script[Len(out) + 1])
    /\ out' = Append(out, ret')
    /\ IF Len(out') = Len(Script) THEN Exit(0) ELSE Goto("test")
    /\ UNCHANGED <<client, arg, fd, dfd, fname, text, grepVars>>

-----------------------------------------------------------------------------
AnyCall == client = "any" /\ Next /\ UNCHANGED userVars

ProgramsNext == \/ AnyCall \/ CatOpen \/ CatRead \/ LsOpen \/ LsRead
                \/ GrepStart \/ GrepNext \/ GrepOpen \/ GrepFill \/ GrepLine
                \/ GrepClose \/ Syserr

ProgramsSpec == ProgramsInit /\ [][ProgramsNext]_<<vars, userVars>>

-----------------------------------------------------------------------------
(***************************************************************************)
(* Properties                                                              *)
(***************************************************************************)
Finished(c) == client = c /\ pc = "exit"

\* cat writes the whole file its argument names, through a buffer that need not
\* match the blocks of the disk (ece391cat.c:21-28, file_system.c:116-169), and
\* ls every name of the directory, whole and in order, although names that fill
\* their entry have no NUL (ece391ls.c:18-27, file_system.c:269-285).
CatAndLsComplete ==
    /\ (Finished("cat") /\ code = 0 /\ fd_entry[fd].filetype = FileType) =>
          out = Content(image.dir[read_dentry_by_name(arg)].inode)
    /\ Finished("ls") =>
          /\ code = 0
          /\ out = [i \in 1 .. Len(image.dir) |-> image.dir[i].name]

\* The lines of a file in which pattern s occurs, as one reads it
Chars(inode) ==
    [k \in 1 .. image.inode[inode].length |-> text[Content(inode)[k]]]
Starts(c) == {i \in 1 .. Len(c) : i = 1 \/ c[i - 1] = NL}
LineAt(c, i) ==
    LET stop == CHOOSE j \in i .. Len(c) + 1 :
                    /\ j = Len(c) + 1 \/ c[j] = NL
                    /\ \A k \in i .. j - 1 : c[k] # NL
    IN  SubSeq(c, i, stop - 1)
Holds(l, s) == \E i \in 0 .. Len(l) - Len(s) : SubSeq(l, i + 1, i + Len(s)) = s

\* What is to be written of a file with that name: the lines of c that hold s
LineFrom(name, c, s, i) ==
    IF i \in Starts(c) /\ Holds(LineAt(c, i), s) THEN <<<<name, LineAt(c, i)>>>> ELSE <<>>
LinesWith(name, c, s) == FlattenSeq([i \in 1 .. Len(c) |-> LineFrom(name, c, s, i)])

Searched == {i \in 1 .. Len(image.dir) :
                image.dir[i].type = FileType /\ Head(image.dir[i].name) # "."}

\* File i is a text that grep can read: no NUL, no line longer than the buffer.
TextFile(i) ==
    LET c == Chars(image.dir[i].inode)
    IN  /\ \A k \in 1 .. Len(c) : c[k] # NUL
        /\ \A k \in Starts(c) : Len(LineAt(c, k)) <= BUFSIZE

\* Of every text file grep writes the lines that hold the pattern, once each and
\* whole, wherever the ends of its buffer cut them; and it reads the directory to
\* the end, and writes nothing of what is no file (ece391grep.c:9-95).  Of a binary
\* file, which strcpy and fdputs cut at its NULs, it may write anything, but that
\* does not change what it writes of the texts behind it.
GrepFindsLines ==
    Finished("grep") =>
        /\ code = 0 /\ Len(out) = Len(image.dir)
        /\ \A i \in 1 .. Len(image.dir) :
              IF i \notin Searched THEN out[i] = <<>>
              ELSE TextFile(i) =>
                     out[i] = LinesWith(image.dir[i].name, Chars(image.dir[i].inode), arg)

\* What the tests of syserr expect: of as many opens as there are descriptors
\* with stdin just one fails, and every other call but the closes behind them;
\* nothing stays open (ece391syserr.c:36-199, 238-293).
SyserrPasses ==
    Finished("syserr") =>
        LET lots == 7 .. 6 + FD_MAX
            closes == 7 + FD_MAX .. 5 + 2 * FD_MAX
        IN  /\ Cardinality({i \in lots : out[i] = FAIL}) = 1
            /\ \A i \in DOMAIN out \ (lots \cup closes) : out[i] = FAIL
            /\ \A f \in Fds : fd_entry[f].flag = 0

-----------------------------------------------------------------------------
(***************************************************************************)
(* What the theorems presuppose of the disk and of the stack               *)
(***************************************************************************)
\* No block of a file has an impossible number.
SoundImages ==
    \A im \in Images : \A n \in DOMAIN im.inode :
        \A k \in 1 .. Len(im.inode[n].blocks) : im.inode[n].blocks[k] <= DATA_BLOCK_SIZE

\* The directory lists itself under "." and there is room for an open file.
RootListed ==
    /\ FD_MAX >= FD_MIN
    /\ \A im \in Images :
          /\ \E i \in 1 .. Len(im.dir) : im.dir[i].name = <<".">>
          /\ \A i \in 1 .. Len(im.dir) :
                im.dir[i].name = <<".">> => im.dir[i].type = DirType

\* The descriptor BIG_FD is none, and the names of err_open are on no disk.
ErrorsKnown ==
    /\ BIG_FD > FD_MAX
    /\ \A im \in Images, j \in 1 .. Len(WrongNames) :
          WrongNames[j] = << >> \/ \A i \in 1 .. Len(im.dir) :
                                      ~SameName(WrongNames[j], im.dir[i].name)

\* There is room for the directory and a file, the byte behind grep's buffer is no
\* NL, no name is listed twice, and directories are hidden.
PlainFiles ==
    /\ FD_MAX > FD_MIN /\ NL \notin StaleBytes
    /\ \A im \in Images :
          /\ \A i, j \in 1 .. Len(im.dir) : im.dir[i].name = im.dir[j].name => i = j
          /\ \A i \in 1 .. Len(im.dir) :
                im.dir[i].type = DirType => Head(im.dir[i].name) = "."
=============================================================================
