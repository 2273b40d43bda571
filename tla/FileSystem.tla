----------------------------- MODULE FileSystem -----------------------------
(***************************************************************************)
(* The read-only file system (file_system.c) and the descriptors through   *)
(* which one process uses it (sys_open, sys_close, sys_read and sys_write  *)
(* of syscall.c).                                                          *)
(*                                                                         *)
(* A byte of the disk is named by its place, <<data block, offset>>; a     *)
(* file name is a sequence of characters, of which FILENAME_LEN fit in a   *)
(* directory entry.  Reading stdin is in TerminalInput and reading and     *)
(* writing the RTC in RTC; here those calls only pass the descriptor       *)
(* checks.                                                                 *)
(***************************************************************************)
EXTENDS Integers, Sequences, SequencesExt

CONSTANTS
    FILENAME_LEN,           \* 32 in the code
    DENTRY_SIZE,            \* directory entries in the boot block (63)
    DATA_BLOCK_ENTRY_SIZE,  \* bytes in a data block (4096)
    DATA_BLOCK_SIZE,        \* largest data block number accepted (1023)
    FD_MAX,                 \* largest descriptor (7)
    Images,                 \* the disk images considered
    Names,                  \* names that are opened
    Sizes                   \* values of nbytes

FD_MIN == 2
Fds    == FD_MIN .. FD_MAX

\* The types of a directory entry
RtcType  == 0
DirType  == 1
FileType == 2

\* dir: the directory; inode: per inode number its length and its data blocks
ASSUME FileSystemAssumption ==
    /\ FILENAME_LEN \in Nat \ {0} /\ DENTRY_SIZE \in Nat \ {0}
    /\ DATA_BLOCK_ENTRY_SIZE \in Nat \ {0} /\ DATA_BLOCK_SIZE \in Nat
    /\ FD_MAX \in Nat /\ Sizes \subseteq Nat
    /\ \A im \in Images :
          /\ im.dir \in Seq(Range(im.dir)) /\ Len(im.dir) < DENTRY_SIZE
          /\ \A i \in 1 .. Len(im.dir) :
                LET d == im.dir[i] IN
                /\ d.name \in Seq(Range(d.name)) /\ Len(d.name) \in 1 .. FILENAME_LEN
                /\ d.type \in {RtcType, DirType, FileType}
                /\ d.inode \in DOMAIN im.inode
          /\ \A n \in DOMAIN im.inode :
                LET node == im.inode[n] IN
                /\ n \in 0 .. DENTRY_SIZE - 1
                /\ node.length \in Nat /\ node.blocks \in Seq(Nat)
                /\ Len(node.blocks) * DATA_BLOCK_ENTRY_SIZE >= node.length

VARIABLES
    image,      \* boot block and inodes of the mounted image, never written
    fd_entry,   \* the process's descriptors 2..FD_MAX
    ret,        \* value returned by the last call
    got         \* history: what was read through a descriptor since its open

vars == <<image, fd_entry, ret, got>>

FAIL   == -1
Closed == [flag |-> 0, inode |-> 0, file_pos |-> 0, filetype |-> 0]

-----------------------------------------------------------------------------
(***************************************************************************)
(* file_system.c                                                           *)
(***************************************************************************)
\* strncmp_unsigned(fname, filename, FILENAME_LEN) == 0 on a name of a dentry
SameName(fname, filename) ==
    filename = IF Len(fname) > FILENAME_LEN THEN SubSeq(fname, 1, FILENAME_LEN)
               ELSE fname

\* read_dentry_by_name: the first entry with that name, 0 when there is none
\* (what lies behind the directory is taken not to look like an entry).
read_dentry_by_name(fname) ==
    SelectInSeq(image.dir, LAMBDA d : SameName(fname, d.name))

\* Mutant: a read that reaches the end of the file stops one byte early.
ReadEndShort(length, offset, size) ==
    IF length + offset >= size THEN size - 1 ELSE length + offset

\* The offset in the file at which a read ends
ReadEnd(length, offset, size) ==
    IF length + offset > size THEN size ELSE length + offset

\* read_data: the pieces of the blocks from the first to the last one touched,
\* FAIL when one of them has an impossible number.
read_data(inode, offset, length) ==
    LET node  == image.inode[inode]
        stop  == ReadEnd(length, offset, node.length)
        first == offset \div DATA_BLOCK_ENTRY_SIZE
        last  == stop \div DATA_BLOCK_ENTRY_SIZE
        loop_start(idx) == IF idx = first THEN offset % DATA_BLOCK_ENTRY_SIZE ELSE 0
        loop_end(idx)   == IF idx = last THEN stop % DATA_BLOCK_ENTRY_SIZE
                           ELSE DATA_BLOCK_ENTRY_SIZE
        touched(idx)    == loop_start(idx) < loop_end(idx)
        piece(idx) == [i \in 1 .. loop_end(idx) - loop_start(idx) |->
                          <<node.blocks[idx + 1], loop_start(idx) + i - 1>>]
    IN  IF \E idx \in first .. last : touched(idx)
                                      /\ node.blocks[idx + 1] > DATA_BLOCK_SIZE
        THEN [ret |-> FAIL, bytes |-> <<>>]
        ELSE LET b == FlattenSeq([k \in 1 .. last - first + 1 |-> piece(first + k - 1)])
             IN  [ret |-> Len(b), bytes |-> b]

file_open(fname) == IF Len(fname) > FILENAME_LEN THEN FAIL ELSE 0

\* Mutant: the position moves by what was asked for.
PosAskedFor(fd, n, r) == fd_entry[fd].file_pos + n

\* Mutant: a read that got nothing moves the position back.
PosBeforeStart(fd, n, r) == IF r = 0 THEN fd_entry[fd].file_pos - 1
                            ELSE fd_entry[fd].file_pos + r

\* file_pos after file_read has read r bytes of the n asked for
PosAfterRead(fd, n, r) == fd_entry[fd].file_pos + r

file_read(fd, n) ==
    LET e == fd_entry[fd]
        r == read_data(e.inode, e.file_pos, n)
    IN  IF e.file_pos >= image.inode[e.inode].length
        THEN ret' = 0 /\ UNCHANGED <<fd_entry, got>>
        ELSE /\ ret' = r.ret
             /\ fd_entry' = [fd_entry EXCEPT ![fd].file_pos = PosAfterRead(fd, n, r.ret)]
             /\ got' = [got EXCEPT ![fd] = @ \o r.bytes]

\* Mutant: the position also moves past the last entry.
DirAdvanceAlways(fd) == fd_entry[fd].file_pos + 1

\* file_pos after dir_read
DirAdvance(fd) == IF fd_entry[fd].file_pos < Len(image.dir)
                  THEN fd_entry[fd].file_pos + 1 ELSE fd_entry[fd].file_pos

\* The name at a position of the directory; entries not in use are empty.
NameAt(pos) == IF pos < Len(image.dir) THEN image.dir[pos + 1].name ELSE <<>>

\* What dir_read returns.  The copy of a name that fills its entry has no NUL,
\* and strlen goes on into what the buffer held before.
CopiedLength(name, n) ==
    IF Len(name) > n THEN {n}
    ELSE IF Len(name) = FILENAME_LEN THEN Len(name) .. n ELSE {Len(name)}

dir_read(fd, n) ==
    LET name == NameAt(fd_entry[fd].file_pos)
    IN  /\ ret' \in CopiedLength(name, n)
        /\ fd_entry' = [fd_entry EXCEPT ![fd].file_pos = DirAdvance(fd)]
        /\ got' = IF name = <<>> THEN got ELSE [got EXCEPT ![fd] = Append(@, name)]

-----------------------------------------------------------------------------
(***************************************************************************)
(* syscall.c                                                               *)
(***************************************************************************)
Init ==
    /\ image \in Images
    /\ fd_entry = [fd \in Fds |-> Closed]
    /\ ret = 0
    /\ got = [fd \in Fds |-> <<>>]

Failed == ret' = FAIL /\ UNCHANGED <<image, fd_entry, got>>

FreeFds == {fd \in Fds : fd_entry[fd].flag = 0}

\* find_next_fd: the lowest free descriptor
find_next_fd == CHOOSE fd \in FreeFds : \A other \in FreeFds : fd <= other

\* Mutant: the position of the last file opened at this descriptor is kept.
EntryKeepsPos(fd, d) ==
    [flag |-> 1, inode |-> d.inode, file_pos |-> fd_entry[fd].file_pos,
     filetype |-> d.type]

\* The descriptor sys_open fills in for directory entry d
NewEntry(fd, d) ==
    [flag |-> 1, inode |-> d.inode, file_pos |-> 0, filetype |-> d.type]

\* When the device's open fails the descriptor stays in use.
sys_open(fname) ==
    IF fname = <<>> \/ FreeFds = {} \/ read_dentry_by_name(fname) = 0
    THEN Failed
    ELSE LET fd == find_next_fd
             d  == image.dir[read_dentry_by_name(fname)]
         IN  /\ fd_entry' = [fd_entry EXCEPT ![fd] = NewEntry(fd, d)]
             /\ got' = [got EXCEPT ![fd] = <<>>]
             /\ ret' = IF d.type \notin {RtcType, DirType} /\ file_open(fname) = FAIL
                       THEN FAIL ELSE fd
             /\ UNCHANGED image

sys_close(fd) ==
    IF fd \notin Fds \/ fd_entry[fd].flag = 0
    THEN Failed
    ELSE /\ fd_entry' = [fd_entry EXCEPT ![fd].flag = 0]
         /\ ret' = 0
         /\ UNCHANGED <<image, got>>

sys_read(fd, n) ==
    IF fd \notin Fds \/ fd_entry[fd].flag = 0
    THEN Failed
    ELSE /\ CASE fd_entry[fd].filetype = DirType -> dir_read(fd, n)
              [] fd_entry[fd].filetype = RtcType -> ret' = 0 /\ UNCHANGED <<fd_entry, got>>
              [] OTHER -> file_read(fd, n)
         /\ UNCHANGED image

\* Files and directories are read only; the RTC takes its rate in module RTC.
sys_write(fd) ==
    /\ fd \in Fds /\ fd_entry[fd].flag = 1 => fd_entry[fd].filetype # RtcType
    /\ Failed

Next == \/ \E fname \in Names : sys_open(fname)
        \/ \E fd \in Fds \cup {FD_MAX + 1} :
              \/ sys_close(fd)
              \/ \E n \in Sizes : sys_read(fd, n)
              \/ sys_write(fd)

Spec == Init /\ [][Next]_vars

-----------------------------------------------------------------------------
(***************************************************************************)
(* Properties                                                              *)
(***************************************************************************)

\* Type invariant of the descriptors.
FilesTypeOK ==
    /\ image \in Images
    /\ \A fd \in Fds : /\ fd_entry[fd].flag \in {0, 1}
                       /\ fd_entry[fd].inode \in Nat
                       /\ fd_entry[fd].file_pos \in Nat
                       /\ fd_entry[fd].filetype \in {RtcType, DirType, FileType}
    /\ ret \in {FAIL} \cup Nat

\* The contents of a file, byte by byte.
Content(inode) ==
    [k \in 1 .. image.inode[inode].length |->
        <<image.inode[inode].blocks[((k - 1) \div DATA_BLOCK_ENTRY_SIZE) + 1],
          (k - 1) % DATA_BLOCK_ENTRY_SIZE>>]

\* read_data returns, for every offset and length, the bytes of the file from
\* that offset, as many as asked for or as there are: the split into first,
\* middle and last block loses and repeats none.
ReadDataMatches ==
    \A inode \in DOMAIN image.inode :
        \A offset \in 0 .. image.inode[inode].length + 1, length \in Sizes :
            LET size == image.inode[inode].length
                stop == IF offset + length < size THEN offset + length ELSE size
            IN  read_data(inode, offset, length).bytes
                    = SubSeq(Content(inode), offset + 1, stop)

\* Successive reads of an open file return its contents from the start without
\* a gap or an overlap, whatever happens on other descriptors in between.
ReadsAreConsecutive ==
    \A fd \in Fds :
        (fd_entry[fd].flag = 1 /\ fd_entry[fd].filetype = FileType) =>
            LET whole == Content(fd_entry[fd].inode)
            IN  /\ fd_entry[fd].file_pos <= Len(whole)
                /\ got[fd] = SubSeq(whole, 1, fd_entry[fd].file_pos)

\* Successive reads of a directory list every name once, in order.
ListingComplete ==
    \A fd \in Fds :
        (fd_entry[fd].flag = 1 /\ fd_entry[fd].filetype = DirType) =>
            /\ fd_entry[fd].file_pos <= Len(image.dir)
            /\ got[fd] = [i \in 1 .. fd_entry[fd].file_pos |-> image.dir[i].name]
=============================================================================
