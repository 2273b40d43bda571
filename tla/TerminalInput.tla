---------------------------- MODULE TerminalInput ----------------------------
(***************************************************************************)
(* The input side of the terminals: the keyboard interrupt handler         *)
(* (devices/keyboard.c) edits one line buffer, keyboard_buf, which is      *)
(* swapped with a saved copy when Alt+Fn shows another terminal, and       *)
(* terminal_read (devices/terminal.c) spins until Enter is pressed in the  *)
(* displayed terminal and then copies the buffer.                          *)
(*                                                                         *)
(* The process of each terminal is at "user", "spin" (the while loop of    *)
(* terminal_read) or "copy" (past the loop, before its cli()).  It moves   *)
(* only when running_term names its terminal.  The handler is one step,    *)
(* except that terminal_switch enables interrupts half way (the sti() of   *)
(* switch_vid_page and switch_screen).  Shift, Ctrl, Alt and Caps Lock are *)
(* pressed at will, so their flags only decide which of the keys below     *)
(* comes: a character, Ctrl+L or Alt+Fn.  Of a character only the terminal *)
(* it was typed in matters.  Keys that are ignored, and keys typed while   *)
(* pingpong, fish or grep mask typing, change nothing here.  What the      *)
(* handler draws is not in this module.                                    *)
(***************************************************************************)
EXTENDS Integers, Sequences

CONSTANTS
    TERM_NUM,           \* number of terminals (3 in the code)
    KEY_BUF_SIZE,       \* size of a line buffer (128 in the code)
    MAX_INPUT_COUNT,    \* Caps Lock presses before a reset (100000 in the code)
    Typists,            \* bound: the terminals in which text is typed
    ReadSizes,          \* values of nbytes in calls of read
    Races               \* windows in which keys and ticks may also come

ASSUME InputAssumption ==
    /\ TERM_NUM \in Nat \ {0}
    /\ KEY_BUF_SIZE \in Nat /\ KEY_BUF_SIZE > 2
    /\ MAX_INPUT_COUNT \in Nat
    /\ Typists \subseteq 1 .. TERM_NUM
    /\ ReadSizes \subseteq Nat
    /\ Races \subseteq {"typeahead", "switching"}

VARIABLES
    keyboard_buf, keybuf_count,          \* the line being edited
    keyboard_buf_arr, keybuf_count_arr,  \* the lines of hidden terminals
    caps_lock_counter,
    count, read_flag,                    \* terminal[t].count and .read_flag
    display_term, last_term, running_term,
    switching,     \* terminals whose process was stopped inside terminal_switch
    pc, nbytes,    \* where the process of a terminal is, its argument of read
    typed, line    \* history: characters typed so far, the last line entered
                   \* while the process of the terminal was in read

bufVars  == <<keyboard_buf, keybuf_count, keyboard_buf_arr, keybuf_count_arr>>
termVars == <<count, read_flag, display_term, last_term>>
procVars == <<running_term, switching, pc, nbytes>>
vars     == <<bufVars, caps_lock_counter, termVars, procVars, typed, line>>

Terms == 1 .. TERM_NUM
Index == 0 .. KEY_BUF_SIZE - 1
NUL     == 0
Newline == -1
Bytes   == Terms \cup {NUL, Newline}   \* a character is named by its terminal
Empty == [i \in Index |-> NUL]

-----------------------------------------------------------------------------
Init ==
    /\ keyboard_buf = Empty /\ keybuf_count = 0
    /\ keyboard_buf_arr = [t \in Terms |-> Empty]
    /\ keybuf_count_arr = [t \in Terms |-> 0]
    /\ caps_lock_counter = 0
    /\ count = [t \in Terms |-> 0]
    /\ read_flag = [t \in Terms |-> IF t = 1 THEN 1 ELSE 0]
    /\ display_term = 1 /\ last_term = 1 /\ running_term = 1
    /\ switching = {}
    /\ pc = [t \in Terms |-> "user"]
    /\ nbytes = [t \in Terms |-> 0]
    /\ typed = [t \in Terms |-> <<>>]
    /\ line = [t \in Terms |-> <<>>]

-----------------------------------------------------------------------------
(***************************************************************************)
(* The keyboard interrupt                                                  *)
(***************************************************************************)
\* A line has been entered and its reader has not copied it yet.
LineReady == \/ pc[display_term] = "copy"
             \/ pc[display_term] = "spin" /\ read_flag[display_term] = 1

Interruptible == running_term \in switching => "switching" \in Races

KeyArrives == Interruptible /\ (LineReady => "typeahead" \in Races)

reset_keyboard_buffer ==
    /\ caps_lock_counter' = 0
    /\ keyboard_buf' = Empty
    /\ keybuf_count' = 0
    /\ typed' = [typed EXCEPT ![display_term] = <<>>]

\* function_key_handle counts the presses of Caps Lock
CapsLockPressed ==
    /\ KeyArrives
    /\ IF caps_lock_counter + 1 > MAX_INPUT_COUNT
       THEN reset_keyboard_buffer
       ELSE /\ caps_lock_counter' = caps_lock_counter + 1
            /\ UNCHANGED <<keyboard_buf, keybuf_count, typed>>
    /\ UNCHANGED <<keyboard_buf_arr, keybuf_count_arr, termVars, procVars, line>>

\* Mutant: the last position of the buffer is not kept for the newline.
RoomAlways == keybuf_count < KEY_BUF_SIZE

\* "leave the last bit for \n or \b"
Room == keybuf_count # KEY_BUF_SIZE - 1

\* A key of the scancode table other than Enter and Backspace, Tab included
TextKey ==
    /\ KeyArrives
    /\ display_term \in Typists
    /\ Room
    /\ keyboard_buf' = [keyboard_buf EXCEPT ![keybuf_count] = display_term]
    /\ keybuf_count' = keybuf_count + 1
    /\ typed' = [typed EXCEPT ![display_term] = Append(@, display_term)]
    /\ UNCHANGED <<keyboard_buf_arr, keybuf_count_arr, caps_lock_counter,
                   termVars, procVars, line>>

\* Ctrl+L; terminal_reset works on a copy of the terminal and has no effect.
ClearScreenKey ==
    /\ KeyArrives
    /\ Room
    /\ reset_keyboard_buffer
    /\ UNCHANGED <<keyboard_buf_arr, keybuf_count_arr, termVars, procVars, line>>

BackspaceKey ==
    /\ KeyArrives
    /\ keybuf_count > 0
    /\ keybuf_count' = keybuf_count - 1
    /\ typed' = [typed EXCEPT ![display_term] = SubSeq(@, 1, Len(@) - 1)]
    /\ UNCHANGED <<keyboard_buf, keyboard_buf_arr, keybuf_count_arr, caps_lock_counter,
                   termVars, procVars, line>>

\* Where Enter puts the newline: one place too far in a line of
\* KEY_BUF_SIZE - 3 characters.
NewlineAt == IF keybuf_count + 1 = KEY_BUF_SIZE - 2
             THEN keybuf_count + 1 ELSE keybuf_count

\* Mutant: the length of the line does not count the newline.
LineCountShort == keybuf_count

LineCount == keybuf_count + 1

\* Mutant: Enter wakes the process that has the CPU.
WokenRunning == running_term

WokenTerm == display_term

EnterKey ==
    /\ KeyArrives
    /\ count' = [count EXCEPT ![display_term] = LineCount]
    /\ keyboard_buf' = [keyboard_buf EXCEPT ![NewlineAt] = Newline]
    /\ read_flag' = [read_flag EXCEPT ![WokenTerm] = 1]
    /\ keybuf_count' = 0
    /\ line'  = [line EXCEPT ![display_term] =
                    IF pc[display_term] = "user" THEN <<>>
                    ELSE Append(typed[display_term], Newline)]
    /\ typed' = [typed EXCEPT ![display_term] = <<>>]
    /\ UNCHANGED <<keyboard_buf_arr, keybuf_count_arr, caps_lock_counter, display_term,
                   last_term, procVars>>

\* Alt+Fn, until terminal_switch enables interrupts
SwitchBegin(t) ==
    /\ Interruptible
    /\ running_term \notin switching      \* bound: no Alt+Fn inside Alt+Fn
    /\ display_term' = t
    /\ switching' = IF t # last_term THEN switching \cup {running_term}
                    ELSE switching
    /\ UNCHANGED <<bufVars, caps_lock_counter, count, read_flag, last_term, running_term,
                   pc, nbytes, typed, line>>

\* Mutant: the count of the hidden terminal is not brought back.
SwapCountKept == keybuf_count

\* The count of the terminal that is shown, after its old one was saved
SwapCount == IF last_term = display_term THEN keybuf_count
             ELSE keybuf_count_arr[display_term]

\* the rest of terminal_switch, with the terminals it finds then
SwitchEnd ==
    /\ running_term \in switching
    /\ switching' = switching \ {running_term}
    /\ keyboard_buf_arr' = [keyboard_buf_arr EXCEPT ![last_term] = keyboard_buf]
    /\ keyboard_buf' = keyboard_buf_arr'[display_term]
    /\ keybuf_count_arr' = [keybuf_count_arr EXCEPT ![last_term] = keybuf_count]
    /\ keybuf_count' = SwapCount
    /\ read_flag' = [read_flag EXCEPT ![last_term] = 0]
    /\ last_term' = display_term
    /\ UNCHANGED <<caps_lock_counter, count, display_term, running_term, pc, nbytes,
                   typed, line>>

-----------------------------------------------------------------------------
(***************************************************************************)
(* terminal_read and the scheduler                                         *)
(***************************************************************************)
Running(t) == running_term = t /\ t \notin switching

\* read(0, buf, n): the flag cleared is the one of the displayed terminal.
ReadCall(t, n) ==
    /\ Running(t)
    /\ pc[t] = "user"
    /\ read_flag' = [read_flag EXCEPT ![display_term] = 0]
    /\ pc' = [pc EXCEPT ![t] = "spin"]
    /\ nbytes' = [nbytes EXCEPT ![t] = n]
    /\ line' = [line EXCEPT ![t] = <<>>]
    /\ UNCHANGED <<bufVars, caps_lock_counter, count, display_term, last_term,
                   running_term, switching, typed>>

SpinOver == read_flag[display_term] = 1 /\ running_term = display_term

SpinExit(t) ==
    /\ Running(t)
    /\ pc[t] = "spin"
    /\ SpinOver
    /\ pc' = [pc EXCEPT ![t] = "copy"]
    /\ UNCHANGED <<bufVars, caps_lock_counter, termVars, running_term, switching, nbytes,
                   typed, line>>

\* The bytes that terminal_read returns to the process of terminal t
ReadLength(t) == IF nbytes[t] <= count[display_term]
                 THEN nbytes[t] ELSE count[display_term]
ReadBytes(t)  == IF running_term # display_term THEN <<>>
                 ELSE [i \in 1 .. ReadLength(t) |-> keyboard_buf[i - 1]]

ReadCopy(t) ==
    /\ Running(t)
    /\ pc[t] = "copy"
    /\ pc' = [pc EXCEPT ![t] = "user"]
    /\ IF running_term # display_term
       THEN UNCHANGED <<keyboard_buf, line>>
       ELSE keyboard_buf' = Empty /\ line' = [line EXCEPT ![t] = <<>>]
    /\ UNCHANGED <<keybuf_count, keyboard_buf_arr, keybuf_count_arr, caps_lock_counter,
                   termVars, running_term, switching, nbytes, typed>>

scheduler ==
    /\ Interruptible
    /\ running_term' = (running_term % TERM_NUM) + 1
    /\ UNCHANGED <<bufVars, caps_lock_counter, termVars, switching, pc, nbytes, typed, line>>

-----------------------------------------------------------------------------
Keyboard == \/ CapsLockPressed
            \/ TextKey \/ ClearScreenKey \/ BackspaceKey \/ EnterKey
            \/ \E t \in Terms : SwitchBegin(t)

Reader(t) == (\E n \in ReadSizes : ReadCall(t, n)) \/ SpinExit(t) \/ ReadCopy(t)

Next == Keyboard \/ SwitchEnd \/ scheduler \/ \E t \in Terms : Reader(t)

Spec == Init /\ [][Next]_vars

\* The timer never stops, the handler returns, the person at the keyboard does
\* not stop pressing Enter, and a process in terminal_read goes on when the
\* scheduler has given it the CPU often enough.
Fairness == /\ WF_vars(scheduler) /\ WF_vars(SwitchEnd) /\ WF_vars(EnterKey)
            /\ \A t \in Terms : SF_vars(SpinExit(t) \/ ReadCopy(t))

FairSpec == Spec /\ Fairness

-----------------------------------------------------------------------------
(***************************************************************************)
(* Properties                                                              *)
(***************************************************************************)

\* Type invariant; in particular every index written lies in the buffer.
InputTypeOK ==
    /\ keyboard_buf \in [Index -> Bytes]
    /\ keybuf_count \in Index
    /\ keyboard_buf_arr \in [Terms -> [Index -> Bytes]]
    /\ keybuf_count_arr \in [Terms -> Index]
    /\ caps_lock_counter \in 0 .. MAX_INPUT_COUNT
    /\ count \in [Terms -> 0 .. KEY_BUF_SIZE]
    /\ read_flag \in [Terms -> {0, 1}]
    /\ display_term \in Terms /\ last_term \in Terms /\ running_term \in Terms
    /\ switching \subseteq Terms
    /\ pc \in [Terms -> {"user", "spin", "copy"}]
    /\ nbytes \in [Terms -> ReadSizes \cup {0}]
    /\ typed \in [Terms -> Seq(Terms)]
    /\ line  \in [Terms -> Seq(Terms \cup {Newline})]

\* The contents of a line buffer.
Contents(b, n) == [i \in 1 .. n |-> b[i - 1]]

\* What is being typed in each terminal is in its own buffer, in full: switching
\* the display back and forth and reading lines in other terminals lose nothing.
EditBuffersMatch ==
    \A t \in Terms :
        typed[t] = IF t = last_term THEN Contents(keyboard_buf, keybuf_count)
                   ELSE Contents(keyboard_buf_arr[t], keybuf_count_arr[t])

\* A read gets the line last entered in its own terminal, newline included, cut
\* at nbytes.  The one exception is the code's: the newline of a line of
\* KEY_BUF_SIZE - 3 characters is misplaced (NewlineAt) and is not returned.
ReadReturnsLine ==
    \A t \in Terms : Running(t) /\ pc[t] = "copy" =>
        LET b == ReadBytes(t)
            l == line[t]
        IN  IF display_term # t THEN b = <<>>
            ELSE /\ l # <<>>
                 /\ Len(b) = IF nbytes[t] < Len(l) THEN nbytes[t] ELSE Len(l)
                 /\ \A i \in 1 .. Len(b) :
                        (l[i] = Newline /\ Len(l) = KEY_BUF_SIZE - 2) \/ b[i] = l[i]

\* A process that waits in read gets its line if its terminal stays on display
\* and Enter keeps being pressed.
ReaderServed ==
    \A t \in Terms : pc[t] = "spin" ~> (pc[t] = "user" \/ display_term # t)

\* "terminal sepecific read flag" (terminal.c:79): the flag that tells a waiting
\* reader of its line is not taken away while its terminal stays on display.
WakeupKept ==
    [][\A t \in Terms :
          (pc[t] = "spin" /\ read_flag[t] = 1 /\ last_term' = last_term)
              => read_flag'[t] = 1]_vars
=============================================================================
