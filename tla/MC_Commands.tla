----------------------------- MODULE MC_Commands -----------------------------
(***************************************************************************)
(* Command lines for Commands, over two letters and with names of up to    *)
(* two characters: every line of up to four characters, and longer ones    *)
(* with two arguments, or with a name that is too long; and one call of a  *)
(* library function, before the first command.                             *)
(***************************************************************************)
EXTENDS Commands, Lib

MCExecutables == {<<"a">>, <<"a", "b">>}

MCLines ==
    UNION {[1 .. n -> Letters \cup {SPACE}] : n \in 1 .. 4} \cup
    {<<"a", SPACE, "b", SPACE, "a">>, <<"a", "b", SPACE, "b", "a">>,
     <<"a", "b", "b", SPACE, "a">>, <<"a", "b", "b", "b", "b">>}

MCInit == Init /\ LibInit
MCNext == \/ call = NoCall /\ Next /\ UNCHANGED call
          \/ live = {} /\ arg.pid = 0 /\ LibCall /\ UNCHANGED vars

MCSpec == MCInit /\ [][MCNext]_<<vars, call>>
=============================================================================
