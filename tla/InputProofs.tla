------------------------------ MODULE InputProofs ------------------------------
(***************************************************************************)
(* Proofs about TerminalInput, for any number of terminals, any size of    *)
(* the line buffer and any text: types (with every index written inside    *)
(* its buffer), that what is typed in a terminal stays in its own buffer,  *)
(* and that a read returns the line of its own terminal.                   *)
(***************************************************************************)
EXTENDS TerminalInput, TLAPS

-----------------------------------------------------------------------------
(***************************************************************************)
(* Types                                                                   *)
(***************************************************************************)

\* The next terminal is a terminal.
LEMMA NextTermOK ==
    ASSUME running_term \in Terms
    PROVE  (running_term % TERM_NUM) + 1 \in Terms
BY InputAssumption DEF Terms

\* The first line of a terminal is empty, and index 0 is in the buffer.
LEMMA EmptyOK == Empty \in [Index -> Bytes] /\ 0 \in Index
BY InputAssumption DEF Empty, Index, Bytes

\* Taking characters off a line leaves a line.
LEMMA FrontOK ==
    ASSUME NEW S, NEW s \in Seq(S)
    PROVE  SubSeq(s, 1, Len(s) - 1) \in Seq(S)
<1>1. Len(s) \in Nat
  OBVIOUS
<1>2. CASE Len(s) = 0
  <2>1. SubSeq(s, 1, Len(s) - 1) = << >>
    BY <1>2
  <2>2. QED
    BY <2>1
<1>3. CASE Len(s) # 0
  BY <1>1, <1>3
<1>4. QED
  BY <1>2, <1>3

\* A line with its newline.
LEMMA LineOK ==
    ASSUME NEW s \in Seq(Terms)
    PROVE  Append(s, Newline) \in Seq(Terms \cup {Newline})
<1>1. s \in Seq(Terms \cup {Newline})
  OBVIOUS
<1>2. QED
  BY <1>1

\* The keyboard keeps the types, whatever the windows; in particular no key
\* writes past the line buffer.
LEMMA TypesKeyboard == InputTypeOK /\ Keyboard => InputTypeOK'
<1> SUFFICES ASSUME InputTypeOK, Keyboard PROVE InputTypeOK'
  OBVIOUS
<1> USE DEF bufVars, termVars, procVars
<1>1. CASE CapsLockPressed
  <2>1. CASE caps_lock_counter + 1 > MAX_INPUT_COUNT
    <3>1. typed' \in [Terms -> Seq(Terms)]
      <4>1. << >> \in Seq(Terms) /\ typed' = [typed EXCEPT ![display_term] = << >>]
        BY <1>1, <2>1 DEF CapsLockPressed, reset_keyboard_buffer
      <4>2. QED
        BY <4>1 DEF InputTypeOK
    <3>2. QED
      BY <1>1, <2>1, <3>1, EmptyOK, InputAssumption, SMTT(30)
         DEF CapsLockPressed, reset_keyboard_buffer, InputTypeOK
  <2>2. CASE ~(caps_lock_counter + 1 > MAX_INPUT_COUNT)
    BY <1>1, <2>2, InputAssumption DEF CapsLockPressed, InputTypeOK
  <2>3. QED
    BY <2>1, <2>2
<1>2. CASE TextKey
  <2>1. keybuf_count + 1 \in Index
    BY <1>2, InputAssumption DEF TextKey, Room, Index, InputTypeOK
  <2>2. keyboard_buf' \in [Index -> Bytes]
    BY <1>2 DEF TextKey, InputTypeOK, Bytes
  <2>3. typed' \in [Terms -> Seq(Terms)]
    BY <1>2 DEF TextKey, InputTypeOK
  <2>4. QED
    BY <1>2, <2>1, <2>2, <2>3 DEF TextKey, InputTypeOK
<1>3. CASE ClearScreenKey
  BY <1>3, EmptyOK, InputAssumption
     DEF ClearScreenKey, reset_keyboard_buffer, InputTypeOK
<1>4. CASE BackspaceKey
  <2>1. keybuf_count - 1 \in Index
    BY <1>4, InputAssumption DEF BackspaceKey, Index, InputTypeOK
  <2>2. typed' \in [Terms -> Seq(Terms)]
    <3>1. typed[display_term] \in Seq(Terms)
      BY DEF InputTypeOK
    <3>2. SubSeq(typed[display_term], 1, Len(typed[display_term]) - 1) \in Seq(Terms)
      BY <3>1, FrontOK
    <3>3. QED
      BY <1>4, <3>2 DEF BackspaceKey, InputTypeOK
  <2>3. QED
    BY <1>4, <2>1, <2>2 DEF BackspaceKey, InputTypeOK
<1>5. CASE EnterKey
  <2>1. keyboard_buf' \in [Index -> Bytes]
    BY <1>5 DEF EnterKey, InputTypeOK, Bytes
  <2>2. count' \in [Terms -> 0 .. KEY_BUF_SIZE]
    BY <1>5, InputAssumption DEF EnterKey, InputTypeOK, LineCount, Index
  <2>3. read_flag' \in [Terms -> {0, 1}]
    BY <1>5 DEF EnterKey, InputTypeOK, WokenTerm
  <2>4. line' \in [Terms -> Seq(Terms \cup {Newline})]
    <3>1. Append(typed[display_term], Newline) \in Seq(Terms \cup {Newline})
      BY LineOK DEF InputTypeOK
    <3>2. QED
      BY <1>5, <3>1 DEF EnterKey, InputTypeOK
  <2>5. typed' \in [Terms -> Seq(Terms)]
    BY <1>5 DEF EnterKey, InputTypeOK
  <2>6. QED
    BY <1>5, <2>1, <2>2, <2>3, <2>4, <2>5, EmptyOK DEF EnterKey, InputTypeOK
<1>6. CASE \E t \in Terms : SwitchBegin(t)
  BY <1>6 DEF SwitchBegin, InputTypeOK
<1>7. QED
  BY <1>1, <1>2, <1>3, <1>4, <1>5, <1>6 DEF Keyboard

\* So do the rest of a switch, a tick and the readers.
LEMMA TypesOthers ==
    InputTypeOK /\ (SwitchEnd \/ scheduler \/ \E t \in Terms : Reader(t))
        => InputTypeOK'
<1> SUFFICES ASSUME InputTypeOK, SwitchEnd \/ scheduler \/ \E t \in Terms : Reader(t)
             PROVE  InputTypeOK'
  OBVIOUS
<1> USE DEF bufVars, termVars, procVars
<1>1. CASE SwitchEnd
  <2>1. keyboard_buf_arr' \in [Terms -> [Index -> Bytes]]
    BY <1>1 DEF SwitchEnd, InputTypeOK
  <2>2. keybuf_count_arr' \in [Terms -> Index]
    BY <1>1 DEF SwitchEnd, InputTypeOK
  <2>3. keyboard_buf' \in [Index -> Bytes] /\ keybuf_count' \in Index
    BY <1>1, <2>1 DEF SwitchEnd, SwapCount, InputTypeOK
  <2>4. read_flag' \in [Terms -> {0, 1}]
    BY <1>1 DEF SwitchEnd, InputTypeOK
  <2>5. QED
    BY <1>1, <2>1, <2>2, <2>3, <2>4 DEF SwitchEnd, InputTypeOK
<1>2. CASE scheduler
  BY <1>2, NextTermOK DEF scheduler, InputTypeOK
<1>3. ASSUME NEW t \in Terms, NEW n \in ReadSizes, ReadCall(t, n)
      PROVE  InputTypeOK'
  <2>1. read_flag' \in [Terms -> {0, 1}] /\ pc' \in [Terms -> {"user", "spin", "copy"}]
    BY <1>3 DEF ReadCall, InputTypeOK
  <2>2. nbytes' \in [Terms -> ReadSizes \cup {0}]
    BY <1>3 DEF ReadCall, InputTypeOK
  <2>3. line' \in [Terms -> Seq(Terms \cup {Newline})]
    BY <1>3 DEF ReadCall, InputTypeOK
  <2>4. QED
    BY <1>3, <2>1, <2>2, <2>3 DEF ReadCall, InputTypeOK
<1>4. ASSUME NEW t \in Terms, SpinExit(t)
      PROVE  InputTypeOK'
  BY <1>4 DEF SpinExit, InputTypeOK
<1>5. ASSUME NEW t \in Terms, ReadCopy(t)
      PROVE  InputTypeOK'
  <2>1. keyboard_buf' \in [Index -> Bytes]
    BY <1>5, EmptyOK DEF ReadCopy, InputTypeOK
  <2>2. line' \in [Terms -> Seq(Terms \cup {Newline})]
    <3>1. << >> \in Seq(Terms \cup {Newline})
      OBVIOUS
    <3>2. line' = line \/ line' = [line EXCEPT ![t] = << >>]
      BY <1>5 DEF ReadCopy
    <3>3. QED
      BY <3>1, <3>2 DEF InputTypeOK
  <2>3. pc' \in [Terms -> {"user", "spin", "copy"}]
    BY <1>5 DEF ReadCopy, InputTypeOK
  <2>4. QED
    BY <1>5, <2>1, <2>2, <2>3 DEF ReadCopy, InputTypeOK
<1>6. QED
  BY <1>1, <1>2, <1>3, <1>4, <1>5 DEF Reader

\* At the start.
LEMMA TypesInit == Init => InputTypeOK
<1> SUFFICES ASSUME Init PROVE InputTypeOK
  OBVIOUS
<1>1. 1 \in Terms /\ 0 \in 0 .. MAX_INPUT_COUNT /\ 0 \in 0 .. KEY_BUF_SIZE
  BY InputAssumption DEF Terms
<1>2. QED
  BY <1>1, EmptyOK DEF Init, InputTypeOK

\* InputTypeOK is an invariant of every build: for any window open to keys and
\* ticks, no key writes outside keyboard_buf (Enter puts its newline one place too
\* far for one length, which is still inside), no count leaves its buffer and no
\* switch brings back a buffer that is not one (handle_keyboard_interrupt and
\* terminal_switch).
THEOREM InputTypeCorrect == Spec => []InputTypeOK
<1>1. InputTypeOK /\ [Next]_vars => InputTypeOK'
  <2>1. CASE UNCHANGED vars
    BY <2>1 DEF InputTypeOK, vars, bufVars, termVars, procVars
  <2>2. QED
    BY <2>1, TypesKeyboard, TypesOthers DEF Next
<1>2. QED
  BY <1>1, TypesInit, PTL DEF Spec
-----------------------------------------------------------------------------
(***************************************************************************)
(* The lines, when neither the window inside terminal_switch nor the one   *)
(* between Enter and the reader's copy lets a key in.                      *)
(***************************************************************************)
QuietInput == Races = {}

\* The line buffer of a terminal and its length, wherever it is kept.
BufOf(t)   == IF t = last_term THEN keyboard_buf ELSE keyboard_buf_arr[t]
CountOf(t) == IF t = last_term THEN keybuf_count ELSE keybuf_count_arr[t]

\* Only the running process can be inside a switch, and outside of one the
\* terminal on display is the one whose line is in keyboard_buf.
SwitchInv ==
    /\ switching \subseteq {running_term}
    /\ switching = {} => display_term = last_term

\* A read flag is up only for the terminal whose line is in keyboard_buf.
FlagInv == \A t \in Terms : read_flag[t] = 1 => t = last_term

\* The reader of t has been woken and its line waits to be copied.
Entered(t) == pc[t] = "copy" \/ (pc[t] = "spin" /\ read_flag[t] = 1)

\* A buffer holds a line, but for the newline that NewlineAt misplaces.
Holds(b, l) ==
    \A i \in 1 .. Len(l) :
        (l[i] = Newline /\ Len(l) = KEY_BUF_SIZE - 2) \/ b[i - 1] = l[i]

\* What is being typed in terminal t is in its own buffer, in full.
EditAt(t) == typed[t] = Contents(BufOf(t), CountOf(t))

\* The line that waits for the reader of t is in its own buffer, with its
\* length in count, and nothing was typed after it.
LineAt(t) ==
    Entered(t) => /\ CountOf(t) = 0
                  /\ line[t] # << >>
                  /\ count[t] = Len(line[t])
                  /\ Holds(BufOf(t), line[t])

LinesInv == \A t \in Terms : EditAt(t) /\ LineAt(t)

IInv == InputTypeOK /\ SwitchInv /\ FlagInv /\ LinesInv

\* A step that leaves the lines of t alone and does not wake its reader.
Same(t) == /\ BufOf(t)' = BufOf(t) /\ CountOf(t)' = CountOf(t)
           /\ typed'[t] = typed[t] /\ line'[t] = line[t] /\ count'[t] = count[t]
           /\ Entered(t)' => Entered(t)

LEMMA SameKeeps ==
    ASSUME NEW t \in Terms, EditAt(t), LineAt(t), Same(t)
    PROVE  EditAt(t)' /\ LineAt(t)'
<1>1. EditAt(t)'
  <2>1. Contents(BufOf(t), CountOf(t))' = Contents(BufOf(t), CountOf(t))
    BY DEF Same, Contents
  <2>2. QED
    BY <2>1 DEF Same, EditAt
<1>2. ASSUME Entered(t)'
      PROVE  /\ CountOf(t)' = 0
             /\ line'[t] # << >>
             /\ count'[t] = Len(line'[t])
             /\ Holds(BufOf(t), line[t])'
  <2>1. Entered(t)
    BY <1>2 DEF Same
  <2>2. Holds(BufOf(t), line[t])' <=> Holds(BufOf(t), line[t])
    BY DEF Same, Holds
  <2>3. QED
    BY <2>1, <2>2 DEF Same, LineAt
<1>3. QED
  BY <1>1, <1>2 DEF LineAt

\* An empty line is one of length 0, whatever the buffer.
LEMMA NoContents == \A b : Contents(b, 0) = << >>
BY DEF Contents

\* Outside of a switch the keys go to the line in keyboard_buf.
LEMMA DisplayedLine ==
    ASSUME QuietInput, SwitchInv, Interruptible
    PROVE  switching = {} /\ display_term = last_term
BY DEF QuietInput, SwitchInv, Interruptible

\* A key comes only while no line of the terminal on display waits.
LEMMA KeyFindsNoLine ==
    ASSUME QuietInput, SwitchInv, KeyArrives
    PROVE  /\ switching = {} /\ display_term = last_term
           /\ ~Entered(display_term)
<1>1. Interruptible /\ ~LineReady
  BY DEF KeyArrives, QuietInput
<1>2. switching = {} /\ display_term = last_term
  BY <1>1, DisplayedLine
<1>3. QED
  BY <1>1, <1>2 DEF LineReady, Entered

\* The terminals, the switch and the flags, when all of them stay as they are.
LEMMA FlagsKept ==
    ASSUME SwitchInv, FlagInv, UNCHANGED <<display_term, last_term, read_flag,
                                           running_term, switching>>
    PROVE  SwitchInv' /\ FlagInv'
BY DEF SwitchInv, FlagInv

\* Clearing the line buffer at a key: Ctrl+L, or Caps Lock once too often.
LEMMA ResetStep ==
    ASSUME QuietInput, IInv, KeyArrives, reset_keyboard_buffer,
           UNCHANGED <<keyboard_buf_arr, keybuf_count_arr, termVars, procVars, line>>
    PROVE  SwitchInv' /\ FlagInv' /\ LinesInv'
<1> USE DEF termVars, procVars
<1>1. switching = {} /\ display_term = last_term /\ ~Entered(display_term)
  BY KeyFindsNoLine DEF IInv
<1>2. SwitchInv' /\ FlagInv'
  BY FlagsKept DEF IInv
<1>3. ASSUME NEW t \in Terms, t # display_term
      PROVE  EditAt(t)' /\ LineAt(t)'
  <2>1. Same(t)
    BY <1>1, <1>3 DEF reset_keyboard_buffer, Same, BufOf, CountOf, Entered,
                      IInv, InputTypeOK
  <2>2. QED
    BY <2>1, SameKeeps DEF IInv, LinesInv
<1>4. ASSUME NEW t \in Terms, t = display_term
      PROVE  EditAt(t)' /\ LineAt(t)'
  <2>1. CountOf(t)' = 0 /\ typed'[t] = << >>
    BY <1>1, <1>4 DEF reset_keyboard_buffer, CountOf, IInv, InputTypeOK
  <2>2. ~Entered(t)'
    BY <1>1, <1>4 DEF Entered
  <2>3. EditAt(t)'
    <3>1. Contents(BufOf(t), CountOf(t))' = Contents(BufOf(t)', 0)
      BY <2>1 DEF Contents
    <3>2. QED
      BY <2>1, <3>1, NoContents DEF EditAt
  <2>4. QED
    BY <2>2, <2>3 DEF LineAt
<1>5. QED
  BY <1>2, <1>3, <1>4 DEF LinesInv

\* Keys that change the line in keyboard_buf only: the other lines stay.
LEMMA OtherLines ==
    ASSUME QuietInput, IInv, KeyArrives,
           UNCHANGED <<keyboard_buf_arr, keybuf_count_arr, display_term, last_term,
                       procVars>>,
           \A t \in Terms \ {display_term} :
               /\ typed'[t] = typed[t] /\ line'[t] = line[t]
               /\ count'[t] = count[t] /\ read_flag'[t] = read_flag[t],
           NEW t \in Terms, t # display_term
    PROVE  EditAt(t)' /\ LineAt(t)'
<1>1. display_term = last_term
  BY KeyFindsNoLine DEF IInv
<1>2. Same(t)
  BY <1>1 DEF procVars, Same, BufOf, CountOf, Entered
<1>3. QED
  BY <1>2, SameKeeps DEF IInv, LinesInv

LEMMA TextStep ==
    ASSUME QuietInput, IInv, TextKey
    PROVE  SwitchInv' /\ FlagInv' /\ LinesInv'
<1> USE DEF termVars, procVars
<1> DEFINE d == display_term
           n == keybuf_count
<1>1. KeyArrives /\ d \in Terms /\ n \in Nat /\ n \in Index /\ n + 1 \in Index
  BY InputAssumption DEF TextKey, Room, Index, IInv, InputTypeOK
<1>2. switching = {} /\ d = last_term /\ ~Entered(d)
  BY <1>1, KeyFindsNoLine DEF IInv
<1>3. SwitchInv' /\ FlagInv'
  BY FlagsKept DEF IInv, TextKey
<1>4. \A t \in Terms \ {d} : typed'[t] = typed[t]
  BY DEF TextKey, IInv, InputTypeOK
<1>5. ASSUME NEW t \in Terms, t # d
      PROVE  EditAt(t)' /\ LineAt(t)'
  BY <1>1, <1>4, <1>5, OtherLines DEF TextKey
<1>6. EditAt(d)' /\ LineAt(d)'
  <2>1. typed[d] = Contents(keyboard_buf, n)
    BY <1>1, <1>2 DEF IInv, LinesInv, EditAt, BufOf, CountOf
  <2>2. typed'[d] = Append(Contents(keyboard_buf, n), d)
    BY <1>1, <2>1 DEF TextKey, IInv, InputTypeOK
  <2>3. keyboard_buf' = [keyboard_buf EXCEPT ![n] = d] /\ keybuf_count' = n + 1
    BY DEF TextKey
  <2>4. Append(Contents(keyboard_buf, n), d) = Contents(keyboard_buf', n + 1)
    <3>1. \A i \in 1 .. n : keyboard_buf'[i - 1] = keyboard_buf[i - 1]
      BY <1>1, <2>3 DEF Index, IInv, InputTypeOK
    <3>2. keyboard_buf'[n] = d
      BY <1>1, <2>3 DEF IInv, InputTypeOK
    <3> HIDE DEF d, n
    <3>3. QED
      BY <1>1, <3>1, <3>2 DEF Contents
  <2>5. BufOf(d)' = keyboard_buf' /\ CountOf(d)' = keybuf_count' /\ d' = d
    BY <1>2 DEF TextKey, BufOf, CountOf
  <2>6. ~Entered(d)'
    BY <1>2 DEF TextKey, Entered
  <2>7. QED
    BY <2>2, <2>3, <2>4, <2>5, <2>6 DEF EditAt, LineAt
<1>7. d' = d /\ Terms' = Terms
  BY DEF TextKey
<1>8. QED
  BY <1>3, <1>5, <1>6, <1>7 DEF LinesInv

LEMMA BackspaceStep ==
    ASSUME QuietInput, IInv, BackspaceKey
    PROVE  SwitchInv' /\ FlagInv' /\ LinesInv'
<1> USE DEF termVars, procVars
<1> DEFINE d == display_term
           n == keybuf_count
<1>1. KeyArrives /\ d \in Terms /\ n \in Nat /\ n > 0
  BY InputAssumption DEF BackspaceKey, Index, IInv, InputTypeOK
<1>2. switching = {} /\ d = last_term /\ ~Entered(d)
  BY <1>1, KeyFindsNoLine DEF IInv
<1>3. SwitchInv' /\ FlagInv'
  BY FlagsKept DEF IInv, BackspaceKey
<1>4. \A t \in Terms \ {d} : typed'[t] = typed[t]
  BY DEF BackspaceKey, IInv, InputTypeOK
<1>5. ASSUME NEW t \in Terms, t # d
      PROVE  EditAt(t)' /\ LineAt(t)'
  BY <1>1, <1>4, <1>5, OtherLines DEF BackspaceKey
<1>6. EditAt(d)' /\ LineAt(d)'
  <2>1. typed[d] = Contents(keyboard_buf, n)
    BY <1>1, <1>2 DEF IInv, LinesInv, EditAt, BufOf, CountOf
  <2>2. typed'[d] = SubSeq(typed[d], 1, Len(typed[d]) - 1)
    BY <1>1 DEF BackspaceKey, IInv, InputTypeOK
  <2>3. keyboard_buf' = keyboard_buf /\ keybuf_count' = n - 1
    BY DEF BackspaceKey
  <2>4. SubSeq(Contents(keyboard_buf, n), 1, Len(Contents(keyboard_buf, n)) - 1)
            = Contents(keyboard_buf, n - 1)
    <3> HIDE DEF n
    <3>1. Len(Contents(keyboard_buf, n)) = n
      BY <1>1 DEF Contents
    <3>2. SubSeq(Contents(keyboard_buf, n), 1, n - 1) = Contents(keyboard_buf, n - 1)
      BY <1>1 DEF Contents
    <3>3. QED
      BY <3>1, <3>2
  <2>5. BufOf(d)' = keyboard_buf' /\ CountOf(d)' = keybuf_count' /\ d' = d
    BY <1>2 DEF BackspaceKey, BufOf, CountOf
  <2>6. ~Entered(d)'
    BY <1>2 DEF BackspaceKey, Entered
  <2>7. QED
    BY <2>1, <2>2, <2>3, <2>4, <2>5, <2>6 DEF EditAt, LineAt
<1>7. d' = d
  BY DEF BackspaceKey
<1>8. QED
  BY <1>3, <1>5, <1>6, <1>7 DEF LinesInv

\* Enter moves the line from the one being typed to the one that waits.
LEMMA EnterStep ==
    ASSUME QuietInput, IInv, EnterKey
    PROVE  SwitchInv' /\ FlagInv' /\ LinesInv'
<1> USE DEF termVars, procVars
<1> DEFINE d == display_term
           n == keybuf_count
           l == Append(typed[d], Newline)
<1>1. KeyArrives /\ d \in Terms /\ n \in Nat /\ n + 1 <= KEY_BUF_SIZE /\ n \in Index
  BY InputAssumption DEF EnterKey, Index, IInv, InputTypeOK
<1>2. switching = {} /\ d = last_term /\ ~Entered(d)
  BY <1>1, KeyFindsNoLine DEF IInv
<1>3. SwitchInv' /\ FlagInv'
  BY <1>2 DEF SwitchInv, FlagInv, IInv, InputTypeOK, EnterKey, WokenTerm
<1>4. \A t \in Terms \ {d} : /\ typed'[t] = typed[t] /\ line'[t] = line[t]
                             /\ count'[t] = count[t] /\ read_flag'[t] = read_flag[t]
  BY DEF EnterKey, WokenTerm, IInv, InputTypeOK
<1>5. ASSUME NEW t \in Terms, t # d
      PROVE  EditAt(t)' /\ LineAt(t)'
  BY <1>1, <1>4, <1>5, OtherLines DEF EnterKey
<1>6. /\ BufOf(d)' = keyboard_buf' /\ CountOf(d)' = 0 /\ d' = d
      /\ typed'[d] = << >> /\ count'[d] = n + 1
  BY <1>1, <1>2 DEF EnterKey, BufOf, CountOf, IInv, InputTypeOK, LineCount
<1>7. EditAt(d)'
  <2>1. Contents(BufOf(d), CountOf(d))' = Contents(BufOf(d)', 0)
    BY <1>6 DEF Contents
  <2>2. QED
    BY <1>6, <2>1, NoContents DEF EditAt
<1>8. LineAt(d)'
  <2>1. SUFFICES ASSUME Entered(d)'
                 PROVE  line'[d] # << >> /\ Len(line'[d]) = n + 1
                        /\ Holds(keyboard_buf', line'[d])
    BY <1>6 DEF LineAt, Holds
  <2>2. line'[d] = l
    <3>1. pc[d] # "user"
      BY <1>2, <2>1, <1>6 DEF Entered, EnterKey
    <3>2. QED
      BY <1>1, <3>1 DEF EnterKey, IInv, InputTypeOK
  <2>3. typed[d] = Contents(keyboard_buf, n)
    BY <1>1, <1>2 DEF IInv, LinesInv, EditAt, BufOf, CountOf
  <2>4. /\ Len(l) = n + 1 /\ l # << >> /\ l[n + 1] = Newline
        /\ \A i \in 1 .. n : l[i] = keyboard_buf[i - 1]
    <3> HIDE DEF n
    <3>1. /\ Len(Contents(keyboard_buf, n)) = n
          /\ \A i \in 1 .. n : Contents(keyboard_buf, n)[i] = keyboard_buf[i - 1]
      BY <1>1 DEF Contents
    <3>2. typed[d] \in Seq(Terms)
      BY <1>1 DEF IInv, InputTypeOK
    <3>3. QED
      BY <1>1, <2>3, <3>1, <3>2
  <2>5. keyboard_buf' = [keyboard_buf EXCEPT ![NewlineAt] = Newline]
    BY DEF EnterKey
  <2>6. \A i \in 1 .. n : keyboard_buf'[i - 1] = keyboard_buf[i - 1]
    BY <1>1, <2>5 DEF NewlineAt, Index, IInv, InputTypeOK
  <2>7. n + 1 # KEY_BUF_SIZE - 2 => keyboard_buf'[n] = Newline
    BY <1>1, <2>5 DEF NewlineAt, IInv, InputTypeOK
  <2>8. Holds(keyboard_buf', l)
    <3> HIDE DEF l, n
    <3>1. ASSUME NEW i \in 1 .. Len(l)
          PROVE  (l[i] = Newline /\ Len(l) = KEY_BUF_SIZE - 2)
                 \/ keyboard_buf'[i - 1] = l[i]
      <4>1. i \in Int /\ (i = n + 1 \/ i \in 1 .. n)
        BY <1>1, <2>4
      <4>2. CASE i \in 1 .. n
        BY <2>4, <2>6, <4>2
      <4>3. CASE i = n + 1
        BY <1>1, <2>4, <2>7, <4>3
      <4>4. QED
        BY <4>1, <4>2, <4>3
    <3>2. QED
      BY <3>1 DEF Holds
  <2>9. QED
    BY <2>2, <2>4, <2>8
<1>9. d' = d
  BY DEF EnterKey
<1>10. QED
  BY <1>3, <1>5, <1>7, <1>8, <1>9 DEF LinesInv

\* A step that leaves every line alone.
LEMMA SameAll ==
    ASSUME LinesInv, \A t \in Terms : Same(t)
    PROVE  LinesInv'
BY SameKeeps DEF LinesInv

\* Alt+Fn: the display moves first, the lines follow in SwitchEnd.
LEMMA SwitchBeginStep ==
    ASSUME QuietInput, IInv, NEW u \in Terms, SwitchBegin(u)
    PROVE  SwitchInv' /\ FlagInv' /\ LinesInv'
<1> USE DEF bufVars
<1>1. switching = {}
  BY DisplayedLine DEF SwitchBegin, IInv
<1>2. SwitchInv'
  BY <1>1 DEF SwitchBegin, SwitchInv
<1>3. FlagInv'
  BY DEF SwitchBegin, FlagInv, IInv
<1>4. \A t \in Terms : Same(t)
  BY DEF SwitchBegin, Same, BufOf, CountOf, Entered
<1>5. QED
  BY <1>2, <1>3, <1>4, SameAll DEF IInv

\* The end of the switch: every line is where its terminal's now is.
LEMMA SwitchEndStep ==
    ASSUME QuietInput, IInv, SwitchEnd
    PROVE  SwitchInv' /\ FlagInv' /\ LinesInv'
<1>1. switching = {running_term}
  BY DEF SwitchEnd, SwitchInv, IInv
<1>2. SwitchInv'
  BY <1>1 DEF SwitchEnd, SwitchInv
<1>3. \A t \in Terms : read_flag'[t] = 0
  BY DEF SwitchEnd, FlagInv, IInv, InputTypeOK
<1>4. FlagInv'
  BY <1>3 DEF FlagInv
<1>5. ASSUME NEW t \in Terms
      PROVE  Same(t)
  <2>1. keyboard_buf_arr'[t] = IF t = last_term THEN keyboard_buf ELSE keyboard_buf_arr[t]
    BY DEF SwitchEnd, IInv, InputTypeOK
  <2>2. keybuf_count_arr'[t] = IF t = last_term THEN keybuf_count ELSE keybuf_count_arr[t]
    BY DEF SwitchEnd, IInv, InputTypeOK
  <2>3. BufOf(t)' = BufOf(t)
    BY <2>1 DEF SwitchEnd, BufOf
  <2>4. CountOf(t)' = CountOf(t)
    BY <2>2 DEF SwitchEnd, SwapCount, CountOf
  <2>5. Entered(t)' => Entered(t)
    BY <1>3 DEF SwitchEnd, Entered
  <2>6. QED
    BY <2>3, <2>4, <2>5 DEF SwitchEnd, Same
<1>6. QED
  BY <1>2, <1>4, <1>5, SameAll DEF IInv

\* The running process is in no switch, so its flag is the only one that is up.
LEMMA ReadCallStep ==
    ASSUME QuietInput, IInv, NEW u \in Terms, NEW n \in ReadSizes, ReadCall(u, n)
    PROVE  SwitchInv' /\ FlagInv' /\ LinesInv'
<1> USE DEF bufVars
<1>1. switching = {} /\ display_term = last_term /\ display_term \in Terms
  BY DEF ReadCall, Running, SwitchInv, IInv, InputTypeOK
<1>2. SwitchInv'
  BY <1>1 DEF ReadCall, SwitchInv
<1>3. \A t \in Terms : read_flag'[t] # 1
  BY <1>1 DEF ReadCall, FlagInv, IInv, InputTypeOK
<1>4. FlagInv'
  BY <1>3 DEF FlagInv
<1>5. \A t \in Terms \ {u} : Same(t)
  BY <1>3 DEF ReadCall, Same, BufOf, CountOf, Entered, IInv, InputTypeOK
<1>6. EditAt(u)' /\ LineAt(u)'
  <2>1. BufOf(u)' = BufOf(u) /\ CountOf(u)' = CountOf(u) /\ typed'[u] = typed[u]
    BY DEF ReadCall, BufOf, CountOf
  <2>2. Contents(BufOf(u), CountOf(u))' = Contents(BufOf(u), CountOf(u))
    BY <2>1 DEF Contents
  <2>3. ~Entered(u)'
    BY <1>3 DEF ReadCall, Entered, IInv, InputTypeOK
  <2>4. EditAt(u)
    BY DEF IInv, LinesInv
  <2>5. QED
    BY <2>1, <2>2, <2>3, <2>4 DEF EditAt, LineAt
<1>7. QED
  BY <1>2, <1>4, <1>5, <1>6, SameKeeps DEF LinesInv, IInv

\* The loop of terminal_read ends only with the reader's own flag up.
LEMMA SpinExitStep ==
    ASSUME QuietInput, IInv, NEW u \in Terms, SpinExit(u)
    PROVE  SwitchInv' /\ FlagInv' /\ LinesInv'
<1> USE DEF bufVars, termVars
<1>1. SwitchInv' /\ FlagInv'
  BY FlagsKept DEF SpinExit, IInv
<1>2. Entered(u)
  BY DEF SpinExit, SpinOver, Running, Entered
<1>3. \A t \in Terms : Same(t)
  BY <1>2 DEF SpinExit, Same, BufOf, CountOf, Entered, IInv, InputTypeOK
<1>4. QED
  BY <1>1, <1>3, SameAll DEF IInv

\* The copy wipes keyboard_buf, in which nothing has been typed yet.
LEMMA ReadCopyStep ==
    ASSUME QuietInput, IInv, NEW u \in Terms, ReadCopy(u)
    PROVE  SwitchInv' /\ FlagInv' /\ LinesInv'
<1> USE DEF bufVars, termVars
<1>1. SwitchInv' /\ FlagInv'
  BY FlagsKept DEF ReadCopy, IInv
<1>2. switching = {} /\ display_term = last_term /\ u = running_term
  BY DEF ReadCopy, Running, SwitchInv, IInv, InputTypeOK
<1>3. CountOf(u) = 0 /\ ~Entered(u)'
  BY DEF ReadCopy, IInv, LinesInv, LineAt, Entered, InputTypeOK
<1>4. ASSUME NEW t \in Terms \ {u}
      PROVE  Same(t)
  <2>1. BufOf(t)' = BufOf(t) /\ CountOf(t)' = CountOf(t)
    BY <1>2 DEF ReadCopy, BufOf, CountOf
  <2>2. line'[t] = line[t]
    BY DEF ReadCopy, IInv, InputTypeOK
  <2>3. Entered(t)' => Entered(t)
    BY DEF ReadCopy, Entered, IInv, InputTypeOK
  <2>4. QED
    BY <2>1, <2>2, <2>3 DEF ReadCopy, Same
<1>5. EditAt(u)' /\ LineAt(u)'
  <2>1. CountOf(u)' = 0 /\ typed'[u] = typed[u]
    BY <1>3 DEF ReadCopy, CountOf
  <2>2. typed[u] = << >>
    <3>1. Contents(BufOf(u), CountOf(u)) = Contents(BufOf(u), 0)
      BY <1>3
    <3>2. QED
      BY <3>1, NoContents DEF IInv, LinesInv, EditAt
  <2>3. Contents(BufOf(u), CountOf(u))' = Contents(BufOf(u)', 0)
    BY <2>1 DEF Contents
  <2>4. EditAt(u)'
    BY <2>1, <2>2, <2>3, NoContents DEF EditAt
  <2>5. QED
    BY <1>3, <2>4 DEF LineAt
<1>6. QED
  BY <1>1, <1>4, <1>5, SameKeeps DEF LinesInv, IInv

\* Nothing interrupts a switch, so a tick leaves no terminal in one.
LEMMA TickStep ==
    ASSUME QuietInput, IInv, scheduler
    PROVE  SwitchInv' /\ FlagInv' /\ LinesInv'
<1> USE DEF bufVars, termVars
<1>1. switching = {}
  BY DisplayedLine DEF scheduler, IInv
<1>2. SwitchInv' /\ FlagInv'
  BY <1>1 DEF scheduler, SwitchInv, FlagInv, IInv
<1>3. \A t \in Terms : Same(t)
  BY DEF scheduler, Same, BufOf, CountOf, Entered
<1>4. QED
  BY <1>2, <1>3, SameAll DEF IInv

LEMMA CapsLockStep ==
    ASSUME QuietInput, IInv, CapsLockPressed
    PROVE  SwitchInv' /\ FlagInv' /\ LinesInv'
<1>1. CASE reset_keyboard_buffer
  BY <1>1, ResetStep DEF CapsLockPressed
<1>2. CASE UNCHANGED <<keyboard_buf, keybuf_count, typed>>
  <2> USE DEF termVars, procVars
  <2>1. SwitchInv' /\ FlagInv'
    BY FlagsKept DEF CapsLockPressed, IInv
  <2>2. \A t \in Terms : Same(t)
    BY <1>2 DEF CapsLockPressed, Same, BufOf, CountOf, Entered
  <2>3. QED
    BY <2>1, <2>2, SameAll DEF IInv
<1>3. QED
  BY <1>1, <1>2 DEF CapsLockPressed

LEMMA LinesInit == Init => SwitchInv /\ FlagInv /\ LinesInv
<1> SUFFICES ASSUME Init PROVE SwitchInv /\ FlagInv /\ LinesInv
  OBVIOUS
<1>1. SwitchInv /\ FlagInv
  BY DEF Init, SwitchInv, FlagInv
<1>2. ASSUME NEW t \in Terms
      PROVE  EditAt(t) /\ LineAt(t)
  <2>1. CountOf(t) = 0 /\ typed[t] = << >> /\ ~Entered(t)
    BY DEF Init, CountOf, Entered
  <2>2. Contents(BufOf(t), CountOf(t)) = Contents(BufOf(t), 0)
    BY <2>1
  <2>3. QED
    BY <2>1, <2>2, NoContents DEF EditAt, LineAt
<1>3. QED
  BY <1>1, <1>2 DEF LinesInv

\* The inductive invariant: types; a switch is not interrupted; a read flag is up
\* only for the terminal whose line is in keyboard_buf; and in every terminal, on
\* display or hidden, its buffer holds what is being typed and, once Enter has
\* woken its reader, the line that waits.
THEOREM InputInvariant == QuietInput /\ Spec => []IInv
<1>1. Init => IInv
  BY TypesInit, LinesInit DEF IInv
<1>2. QuietInput /\ IInv /\ [Next]_vars => IInv'
  <2> SUFFICES ASSUME QuietInput, IInv, [Next]_vars PROVE IInv'
    OBVIOUS
  <2>1. InputTypeOK'
    <3>1. CASE UNCHANGED vars
      BY <3>1 DEF IInv, InputTypeOK, vars, bufVars, termVars, procVars
    <3>2. QED
      BY <3>1, TypesKeyboard, TypesOthers DEF Next, IInv
  <2>2. CASE Keyboard
    <3>1. CASE ClearScreenKey
      BY <2>1, <3>1, ResetStep DEF ClearScreenKey, IInv
    <3>2. QED
      BY <2>2, <3>1, CapsLockStep, TextStep, BackspaceStep, EnterStep,
         SwitchBeginStep, <2>1 DEF Keyboard, IInv
  <2>3. CASE SwitchEnd
    BY <2>1, <2>3, SwitchEndStep DEF IInv
  <2>4. CASE scheduler
    BY <2>1, <2>4, TickStep DEF IInv
  <2>5. ASSUME NEW t \in Terms, Reader(t)
        PROVE  IInv'
    BY <2>1, <2>5, ReadCallStep, SpinExitStep, ReadCopyStep DEF Reader, IInv
  <2>6. CASE UNCHANGED vars
    <3> USE DEF vars, bufVars, termVars, procVars
    <3>1. SwitchInv' /\ FlagInv'
      BY <2>6, FlagsKept DEF IInv
    <3>2. \A t \in Terms : Same(t)
      BY <2>6 DEF Same, BufOf, CountOf, Entered
    <3>3. QED
      BY <2>1, <3>1, <3>2, SameAll DEF IInv
  <2>7. QED
    BY <2>2, <2>3, <2>4, <2>5, <2>6 DEF Next
<1>3. QuietInput => QuietInput'
  BY DEF QuietInput
<1>4. QED
  BY <1>1, <1>2, <1>3, PTL DEF Spec

\* What is being typed in a terminal stays in its own buffer, in full: switching
\* the display (switch_screen) and reading in other terminals lose nothing.
THEOREM EditTheorem == QuietInput /\ Spec => []EditBuffersMatch
<1>1. IInv => EditBuffersMatch
  <2>1. ASSUME IInv, NEW t \in Terms
        PROVE  typed[t] = IF t = last_term THEN Contents(keyboard_buf, keybuf_count)
                          ELSE Contents(keyboard_buf_arr[t], keybuf_count_arr[t])
    BY <2>1 DEF IInv, LinesInv, EditAt, BufOf, CountOf
  <2>2. QED
    BY <2>1 DEF EditBuffersMatch
<1>2. QED
  BY <1>1, InputInvariant, PTL

\* terminal_read returns the line last entered in the reader's own terminal, cut
\* at nbytes, or nothing when the terminal is not on display.
THEOREM ReadTheorem == QuietInput /\ Spec => []ReadReturnsLine
<1>1. ASSUME IInv, NEW t \in Terms, Running(t), pc[t] = "copy", display_term = t
      PROVE  LET b == ReadBytes(t)
                 l == line[t]
             IN  /\ l # << >>
                 /\ Len(b) = IF nbytes[t] < Len(l) THEN nbytes[t] ELSE Len(l)
                 /\ \A i \in 1 .. Len(b) :
                        (l[i] = Newline /\ Len(l) = KEY_BUF_SIZE - 2) \/ b[i] = l[i]
  <2> DEFINE b == ReadBytes(t)
             l == line[t]
             m == ReadLength(t)
  <2>1. running_term = t /\ last_term = t
    BY <1>1 DEF Running, IInv, SwitchInv, InputTypeOK
  <2>2. /\ l # << >> /\ count[t] = Len(l) /\ Holds(keyboard_buf, l)
    BY <1>1, <2>1 DEF IInv, LinesInv, LineAt, Entered, BufOf
  <2>3. Len(l) \in Nat /\ nbytes[t] \in Nat
    <3>1. l \in Seq(Terms \cup {Newline}) /\ nbytes[t] \in ReadSizes \cup {0}
      BY <1>1 DEF IInv, InputTypeOK
    <3> HIDE DEF l
    <3>2. Len(l) \in Nat
      BY <3>1
    <3>3. nbytes[t] \in Nat
      <4>1. ReadSizes \cup {0} \subseteq Nat
        BY InputAssumption
      <4>2. QED
        BY <3>1, <4>1, Zenon
    <3>4. QED
      BY <3>2, <3>3
  <2>4. m = IF nbytes[t] < Len(l) THEN nbytes[t] ELSE Len(l)
    <3>1. m = IF nbytes[t] <= Len(l) THEN nbytes[t] ELSE Len(l)
      BY <1>1, <2>2 DEF ReadLength
    <3>2. QED
      BY <2>3, <3>1
  <2>5. b = [i \in 1 .. m |-> keyboard_buf[i - 1]]
    BY <1>1, <2>1 DEF ReadBytes
  <2> HIDE DEF b, l, m
  <2>6. Len(b) = m /\ m \in Nat /\ m <= Len(l)
    BY <2>3, <2>4, <2>5
  <2>7. \A i \in 1 .. m : b[i] = keyboard_buf[i - 1] /\ i \in 1 .. Len(l)
    BY <2>4, <2>5, <2>6
  <2>8. QED
    BY <2>2, <2>4, <2>6, <2>7 DEF Holds, b, l
<1>2. IInv => ReadReturnsLine
  <2>1. ASSUME NEW t \in Terms, Running(t), display_term # t
        PROVE  ReadBytes(t) = << >>
    BY <2>1 DEF ReadBytes, Running
  <2>2. QED
    BY <1>1, <2>1 DEF ReadReturnsLine
<1>3. QED
  BY <1>2, InputInvariant, PTL
=============================================================================
