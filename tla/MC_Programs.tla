------------------------------ MODULE MC_Programs ------------------------------
(***************************************************************************)
(* Small disk images for FileSystem and Programs: a directory, the RTC and *)
(* two files of every length from 0 to 3 blocks of 2 bytes, their blocks   *)
(* out of order; texts over two letters and the newline, and binary files  *)
(* of a letter, the newline and NUL.                                       *)
(***************************************************************************)
EXTENDS Programs

Entry(name, type, inode) == [name |-> name, type |-> type, inode |-> inode]

MCDir == <<Entry(<<".">>, DirType, 0), Entry(<<"a", "b">>, FileType, 1),
           Entry(<<"r">>, RtcType, 0), Entry(<<"c">>, FileType, 2)>>

MCImage(m, n) ==
    [dir |-> MCDir,
     inode |-> (0 :> [length |-> 0, blocks |-> <<>>])
            @@ (1 :> [length |-> m, blocks |-> <<4, 1, 3>>])
            @@ (2 :> [length |-> n, blocks |-> <<5, 0, 2>>])]

MCImages == {MCImage(m, n) : m \in 0 .. 6, n \in {0, 3}}

\* names that exist, one that does not, one too long for a directory entry
MCNames == {<<".">>, <<"a", "b">>, <<"r">>, <<"c">>, <<>>, <<"z">>,
            <<"a", "b", "x">>}

\* every text and every binary file in the first file, one text in the second
Places(im, i) == {<<im.inode[i].blocks[b], o>> : b \in 1 .. 3, o \in 0 .. 1}
MCTexts(im) ==
    LET first == {im.inode[1].blocks[((k - 1) \div 2) + 1] : k \in 1 .. im.inode[1].length}
    IN  {t @@ [p \in Places(im, 2) |-> IF p = <<5, 1>> THEN NL ELSE "a"] :
            t \in [first \X {0, 1} -> {"a", "b", NL}] \cup [first \X {0, 1} -> {"a", NL, NUL}]}

MCPatterns == {<<"a">>, <<"a", "b">>}
MCWrongNames == <<<<"c", "c">>, <<"a">>, <<>>>>

\* These disks and this stack are what the theorems presuppose.
ASSUME OrdinaryDisks == SoundImages /\ RootListed /\ ErrorsKnown /\ PlainFiles
=============================================================================
