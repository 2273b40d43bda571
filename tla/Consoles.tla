-------------------------------- MODULE Consoles --------------------------------
(***************************************************************************)
(* What the screens of the terminals promise: every terminal has a console *)
(* of its own, a list of rows and a cursor, and one of them is visible.    *)
(* What a process writes goes to the console of its terminal, wherever     *)
(* that is; what is typed, and what the kernel says, to the visible one;   *)
(* and making another console visible changes none of them.  Implemented   *)
(* by module Screens.                                                      *)
(***************************************************************************)
EXTENDS Integers, Sequences

CONSTANTS TERM_NUM, NUM_COLS, NUM_ROWS, Chars, Blank

VARIABLES consoles, visible

Terms == 1 .. TERM_NUM
BlankRow == [c \in 1 .. NUM_COLS |-> Blank]
Cleared  == [rows |-> [r \in 1 .. NUM_ROWS |-> BlankRow], row |-> 1, col |-> 1]

Init == consoles = [t \in Terms |-> Cleared] /\ visible = 1

\* To the start of the next row; at the bottom the first row makes room for it.
NewLine(con) ==
    IF con.row < NUM_ROWS THEN [con EXCEPT !.row = @ + 1, !.col = 1]
    ELSE [con EXCEPT !.rows = Append(Tail(@), BlankRow), !.col = 1]

\* A character at the cursor; a full row is followed by a new one.
Type(con, ch) ==
    LET written == [con EXCEPT !.rows[con.row][con.col] = ch]
    IN  IF con.col = NUM_COLS THEN NewLine(written)
        ELSE [written EXCEPT !.col = @ + 1]

\* The character before the cursor is taken away.
Erase(con) ==
    IF con.col > 1
    THEN [con EXCEPT !.rows[con.row][con.col - 1] = Blank, !.col = @ - 1]
    ELSE IF con.row > 1
    THEN [con EXCEPT !.rows[con.row - 1][NUM_COLS] = Blank, !.row = @ - 1,
                     !.col = NUM_COLS]
    ELSE con

\* Kernel messages: a row that is full is written over from its start.
Say(con, ch) ==
    [con EXCEPT !.rows[con.row][con.col] = ch, !.col = (@ % NUM_COLS) + 1]

\* Ctrl+L: an empty console with one line of text and a prompt.
Fresh(ch) == Say(NewLine(Say(Cleared, ch)), ch)

Becomes(t, con) == consoles' = [consoles EXCEPT ![t] = con] /\ UNCHANGED visible

Write(t) == \/ Becomes(t, NewLine(consoles[t]))
            \/ \E ch \in Chars : Becomes(t, Type(consoles[t], ch))

Keys == \/ Write(visible)
        \/ Becomes(visible, Erase(consoles[visible]))
        \/ \E ch \in Chars : Becomes(visible, Fresh(ch))

KernelMessage == \/ \E ch \in Chars : Becomes(visible, Say(consoles[visible], ch))
                 \/ Becomes(visible, NewLine(consoles[visible]))
                 \/ Becomes(visible, Cleared)

Show(t) == visible' = t /\ UNCHANGED consoles

Next == Keys \/ KernelMessage \/ \E t \in Terms : Write(t) \/ Show(t)

Spec == Init /\ [][Next]_<<consoles, visible>>
=============================================================================
