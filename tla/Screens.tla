-------------------------------- MODULE Screens --------------------------------
(***************************************************************************)
(* The screens of the terminals (lib.c, paging.c, devices/terminal.c).     *)
(* vid_pages[0] is the video memory, with the cursor screen_x, screen_y;   *)
(* a hidden terminal t is drawn in vid_pages[t], with the cursor           *)
(* screen_x_arr[t], screen_y_arr[t].  Alt+Fn copies pages and cursors.     *)
(*                                                                         *)
(* One step is one character written by a process (terminal_write runs     *)
(* with interrupts disabled and handles characters one by one), one key,   *)
(* one character of a kernel message, or one third of terminal_switch,     *)
(* which enables interrupts after its copy of the pages and after its copy *)
(* of the cursors.  Colours are not modelled.                              *)
(***************************************************************************)
EXTENDS Integers, Sequences

CONSTANTS
    TERM_NUM,       \* number of terminals (3 in the code)
    NUM_COLS,       \* 80 in the code
    NUM_ROWS,       \* 25 in the code
    Chars,          \* characters that are written
    Blank,          \* the space
    Races           \* {"switching"} if ticks may come inside terminal_switch

ASSUME ScreensAssumption ==
    /\ TERM_NUM \in Nat \ {0}
    /\ NUM_COLS \in Nat \ {0} /\ NUM_ROWS \in Nat \ {0, 1}
    /\ Races \subseteq {"switching"}

VARIABLES
    vid_pages, screen_x, screen_y, screen_x_arr, screen_y_arr,
    display_term, last_term, running_term,
    write_flag,
    stage, owner    \* how far terminal_switch is, whose process it interrupted

pageVars == <<vid_pages, screen_x, screen_y, screen_x_arr, screen_y_arr>>
termVars == <<display_term, last_term, running_term>>
vars     == <<pageVars, termVars, write_flag, stage, owner>>

Terms == 1 .. TERM_NUM
Cells == 0 .. NUM_ROWS * NUM_COLS - 1
BlankPage == [i \in Cells |-> Blank]

Init ==
    /\ vid_pages = [p \in 0 .. TERM_NUM |-> BlankPage]
    /\ screen_x = 0 /\ screen_y = 0
    /\ screen_x_arr = [t \in Terms |-> 0] /\ screen_y_arr = [t \in Terms |-> 0]
    /\ display_term = 1 /\ last_term = 1 /\ running_term = 1
    /\ write_flag = 0
    /\ stage = "none" /\ owner = 0

-----------------------------------------------------------------------------
(***************************************************************************)
(* lib.c, on a page and its cursor                                         *)
(***************************************************************************)
scroll_up(mem) ==
    [i \in Cells |-> IF i + NUM_COLS \in Cells THEN mem[i + NUM_COLS] ELSE Blank]

\* Mutant: the cursor leaves the last row before the screen scrolls.
ScrolledLate(s) == IF s.y > NUM_ROWS
                   THEN [s EXCEPT !.mem = scroll_up(@), !.y = NUM_ROWS - 1] ELSE s

\* the end of every putc
Scrolled(s) == IF s.y = NUM_ROWS
               THEN [s EXCEPT !.mem = scroll_up(@), !.y = NUM_ROWS - 1] ELSE s

Cursor(s) == NUM_COLS * s.y + s.x

newline(s) == Scrolled([s EXCEPT !.y = @ + 1, !.x = 0])

RightEdge(s) == s.x + 1 = NUM_COLS

\* putc_advanced, and putc_background on the page of a hidden terminal
putc_advanced(s, ch) ==
    Scrolled([s EXCEPT !.mem[Cursor(s)] = ch,
                       !.y = IF RightEdge(s) THEN @ + 1 ELSE @,
                       !.x = (@ + 1) % NUM_COLS])

\* putc: x has wrapped when it is divided, so y never moves.
putc(s, ch) ==
    LET x == (s.x + 1) % NUM_COLS
    IN  Scrolled([s EXCEPT !.mem[Cursor(s)] = ch, !.x = x,
                           !.y = (@ + (x \div NUM_COLS)) % NUM_ROWS])

backspace(s) ==
    IF s.x = 0 /\ s.y = 0 THEN s
    ELSE LET back == IF s.x = 0 THEN [s EXCEPT !.y = @ - 1, !.x = NUM_COLS - 1]
                     ELSE [s EXCEPT !.x = @ - 1]
         IN  [back EXCEPT !.mem[Cursor(back)] = Blank]

Clear == [mem |-> BlankPage, x |-> 0, y |-> 0]

-----------------------------------------------------------------------------
(***************************************************************************)
(* Keys, kernel messages and writes                                        *)
(***************************************************************************)
Interruptible == stage = "none" \/ "switching" \in Races

Shown == [mem |-> vid_pages[0], x |-> screen_x, y |-> screen_y]

DrawShown(s) ==
    /\ vid_pages' = [vid_pages EXCEPT ![0] = s.mem]
    /\ screen_x' = s.x /\ screen_y' = s.y
    /\ UNCHANGED <<screen_x_arr, screen_y_arr, termVars, stage, owner>>

\* A key draws on the screen and lets shells write again.  (Backspace needs a
\* character in the line; here it comes at any time.)
Key == /\ Interruptible
       /\ write_flag' = 1
       /\ \/ \E ch \in Chars : DrawShown(putc_advanced(Shown, ch))
          \/ DrawShown(newline(Shown))
          \/ DrawShown(backspace(Shown))
          \/ UNCHANGED <<pageVars, termVars, stage, owner>>

\* clear(), then printf of a line and of the prompt
ClearScreenKey ==
    /\ Interruptible
    /\ write_flag' = 1
    /\ \E ch \in Chars : DrawShown(putc(newline(putc(Clear, ch)), ch))

\* printf in a system call or in an exception handler, whatever its terminal
KernelPrintf ==
    /\ Interruptible
    /\ \/ \E ch \in Chars : DrawShown(putc(Shown, ch))
       \/ DrawShown(newline(Shown))
       \/ DrawShown(Clear)
    /\ UNCHANGED write_flag

\* terminal_write of the running process on display: a shell's output needs
\* write_flag, a program's (terminal_process_running = 2) does not.
Visible(kind) == kind = 2 \/ write_flag = 1

WriteShown(kind) ==
    /\ Interruptible
    /\ running_term = display_term
    /\ Visible(kind)
    /\ \/ \E ch \in Chars : DrawShown(putc_advanced(Shown, ch))
       \/ DrawShown(newline(Shown))
    /\ UNCHANGED write_flag

Hidden(t) == [mem |-> vid_pages[t], x |-> screen_x_arr[t], y |-> screen_y_arr[t]]

DrawHidden(t, s) ==
    /\ vid_pages' = [vid_pages EXCEPT ![t] = s.mem]
    /\ screen_x_arr' = [screen_x_arr EXCEPT ![t] = s.x]
    /\ screen_y_arr' = [screen_y_arr EXCEPT ![t] = s.y]
    /\ UNCHANGED <<screen_x, screen_y, termVars, write_flag, stage, owner>>

\* terminal_write of a process that is not on display: putc_background
WriteHidden ==
    /\ Interruptible
    /\ running_term # display_term
    /\ \/ \E ch \in Chars : DrawHidden(running_term,
                                       putc_advanced(Hidden(running_term), ch))
       \/ DrawHidden(running_term, newline(Hidden(running_term)))

scheduler ==
    /\ Interruptible
    /\ running_term' = (running_term % TERM_NUM) + 1
    /\ UNCHANGED <<pageVars, display_term, last_term, write_flag, stage, owner>>

-----------------------------------------------------------------------------
(***************************************************************************)
(* Alt+Fn                                                                  *)
(***************************************************************************)
SavedPages(t) == [vid_pages EXCEPT ![last_term] = vid_pages[0]]

\* terminal_switch up to the sti() of switch_vid_page
SwitchPages(t) ==
    /\ stage = "none"      \* bound: no Alt+Fn inside Alt+Fn
    /\ t # last_term
    /\ display_term' = t
    /\ vid_pages' = [SavedPages(t) EXCEPT ![0] = SavedPages(t)[t]]
    /\ stage' = "pages" /\ owner' = running_term
    /\ write_flag' = 1
    /\ UNCHANGED <<screen_x, screen_y, screen_x_arr, screen_y_arr, last_term,
                   running_term>>

\* Mutant: the cursor of the terminal that is left is saved for the other one.
SavedForShown == display_term

SavedFor == last_term

\* switch_screen
SwitchCursor ==
    /\ stage = "pages" /\ running_term = owner
    /\ screen_x_arr' = [screen_x_arr EXCEPT ![SavedFor] = screen_x]
    /\ screen_y_arr' = [screen_y_arr EXCEPT ![SavedFor] = screen_y]
    /\ screen_x' = screen_x_arr'[display_term]
    /\ screen_y' = screen_y_arr'[display_term]
    /\ stage' = "cursor"
    /\ UNCHANGED <<vid_pages, termVars, write_flag, owner>>

\* the rest of terminal_switch
SwitchDone ==
    /\ stage = "cursor" /\ running_term = owner
    /\ last_term' = display_term
    /\ write_flag' = 0
    /\ stage' = "none" /\ owner' = 0
    /\ UNCHANGED <<pageVars, display_term, running_term>>

-----------------------------------------------------------------------------
Next == \/ Key \/ ClearScreenKey \/ KernelPrintf
        \/ \E kind \in {1, 2} : WriteShown(kind)
        \/ WriteHidden
        \/ scheduler
        \/ \E t \in Terms : SwitchPages(t)
        \/ SwitchCursor
        \/ SwitchDone

Spec == Init /\ [][Next]_vars

-----------------------------------------------------------------------------
(***************************************************************************)
(* Properties                                                              *)
(***************************************************************************)

\* Type invariant; in particular every cursor is on its screen.
ScreensTypeOK ==
    /\ vid_pages \in [0 .. TERM_NUM -> [Cells -> Chars \cup {Blank}]]
    /\ screen_x \in 0 .. NUM_COLS - 1 /\ screen_y \in 0 .. NUM_ROWS - 1
    /\ screen_x_arr \in [Terms -> 0 .. NUM_COLS - 1]
    /\ screen_y_arr \in [Terms -> 0 .. NUM_ROWS - 1]
    /\ display_term \in Terms /\ last_term \in Terms /\ running_term \in Terms
    /\ write_flag \in {0, 1}
    /\ stage \in {"none", "pages", "cursor"} /\ owner \in 0 .. TERM_NUM

\* The terminal whose page is in video memory, and the one whose cursor is in
\* screen_x and screen_y
PageOf   == IF stage = "none" THEN last_term ELSE display_term
CursorOf == IF stage = "cursor" THEN display_term ELSE last_term

\* The console of a terminal, put together from the page and the cursor that
\* are its own at the moment.
Console(t) ==
    LET mem == vid_pages[IF t = PageOf THEN 0 ELSE t]
    IN  [rows |-> [r \in 1 .. NUM_ROWS |->
                      [c \in 1 .. NUM_COLS |-> mem[NUM_COLS * (r - 1) + c - 1]]],
         row  |-> (IF t = CursorOf THEN screen_y ELSE screen_y_arr[t]) + 1,
         col  |-> (IF t = CursorOf THEN screen_x ELSE screen_x_arr[t]) + 1]

Abstract == INSTANCE Consoles WITH consoles <- [t \in Terms |-> Console(t)],
                                   visible  <- PageOf

\* The pages, cursors and copies implement one console per terminal: nothing is
\* drawn on another terminal's screen, and nothing is lost by switching.
ImplementsConsoles == Abstract!Spec
=============================================================================
