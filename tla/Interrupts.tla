------------------------------ MODULE Interrupts ------------------------------
(***************************************************************************)
(* How interrupts reach their handlers: the two 8259 controllers           *)
(* (i8259.c), the gates of the IDT (idt.c), the linkage that wraps the     *)
(* handlers (linkage/interrupt_link.S), the order in which boot.S and      *)
(* entry (kernel.c) set all this up, and the acknowledgements the          *)
(* keyboard, RTC and PIT handlers owe to the controllers and to their      *)
(* devices.                                                                *)
(*                                                                         *)
(* The controllers work in fully nested mode with edge-triggered inputs:   *)
(* an edge is latched in irr, also while its line is masked, and moves to  *)
(* isr when the CPU takes the interrupt; until the handler sends an EOI,   *)
(* the line and all lines of lower priority stay blocked.  The slave hangs *)
(* on line 2 of the master.  What a handler does besides is in             *)
(* ProcessManager (scheduler), TerminalInput, Screens and RTC.             *)
(***************************************************************************)
EXTENDS Integers, Sequences

CONSTANTS
    TERM_NUM,       \* number of terminals (3 in the code)
    MaxFrames       \* handlers a kernel stack may have to hold

ASSUME InterruptsAssumption == TERM_NUM \in Nat \ {0} /\ MaxFrames \in Nat

PIT_IRQ      == 0
KEYBOARD_IRQ == 1
SLAVE_IRQ    == 2
RTC_IRQ      == 8
Devices == {PIT_IRQ, KEYBOARD_IRQ, RTC_IRQ}
Lines   == Devices \cup {SLAVE_IRQ}

VARIABLES
    mask,           \* lines whose bit is 1 in master_mask or slave_mask
    irr, isr,       \* lines requested, lines in service, of both controllers
    iflag,          \* IF, the interrupt flag of the CPU
    full,           \* the keyboard has a scancode waiting at port 0x60
    pie, irqf,      \* RTC: periodic interrupts enabled; one not acknowledged
    boot,           \* index in BootOrder of the next step of entry
    stack,          \* handlers entered, on the boot stack (0) and per terminal
    cur,            \* the stack in use
    running_term,
    shells,         \* terminals whose base shell exists
    recent          \* devices that interrupted, or whose handler started,
                    \* since the last step of a process or of entry

deviceVars == <<full, pie, irqf>>
cpuVars    == <<iflag, stack, cur, running_term, shells>>
vars == <<mask, irr, isr, boot, recent, deviceVars, cpuVars>>

Terms  == 1 .. TERM_NUM
Stacks == 0 .. TERM_NUM

\* A handler on a stack and how far it is.  "entry": in the linkage, before
\* cli(); "tail": after the last sti(); "iret": after popfl.
Points == {"entry", "count", "regC", "eoi", "read", "switch", "screen",
           "after", "sched", "exec", "sti", "tail", "iret"}
Frame == [line : Devices, at : Points]

Top == stack[cur][Len(stack[cur])]
InHandler == stack[cur] # <<>>
Below(p) == SubSeq(stack[p], 1, Len(stack[p]) - 1)

\* A handler that has not sent its EOI yet.
OwesEoi(f) == f.at \in (IF f.line = RTC_IRQ
                        THEN {"entry", "count", "regC", "eoi"}
                        ELSE {"entry", "eoi"})

-----------------------------------------------------------------------------
(***************************************************************************)
(* The controllers                                                         *)
(***************************************************************************)
\* The lines that acknowledging a device puts in service.
Served(d) == IF d = RTC_IRQ THEN {SLAVE_IRQ, RTC_IRQ} ELSE {d}

\* Level of a device at the master: lower numbers go first.
Level(d) == IF d = RTC_IRQ THEN SLAVE_IRQ ELSE d

\* Mutant: the master is not told that the slave is done.
EoiSlaveOnly(d) == isr \ {d}

\* The lines in service after send_eoi.
AfterEoi(d) == isr \ Served(d)

Unmasked(d) == mask \cap Served(d) = {}

\* The requests the controllers pass to the CPU.
Requests == {d \in irr : /\ Unmasked(d)
                         /\ d \notin isr
                         /\ \A s \in isr : Level(d) < Level(s)}

\* A gate of the IDT after the reset, and one that is set to a handler (an
\* exception's, the system call's or a device's, which has the name of its line).
EXCEPTION == -1
SYSCALL   == -2
ResetGate == [present |-> 0, dpl |-> 0, reserved3 |-> 0, handler |-> EXCEPTION]
SetGate(gate, h) == [gate EXCEPT !.handler = h]

\* present, reserved3 = 0: an interrupt gate
add_intr_handler_setup(gate) ==
    [gate EXCEPT !.present = 1, !.dpl = 0, !.reserved3 = 0]

\* The IDT: trap gates for exceptions and system calls, interrupt gates for
\* the devices.
idt == [v \in 0 .. 255 |->
    CASE v \in 0 .. 19 -> [ResetGate EXCEPT !.present = 1, !.reserved3 = 1]
      [] v = 32   -> add_intr_handler_setup(SetGate(ResetGate, PIT_IRQ))
      [] v = 33   -> add_intr_handler_setup(SetGate(ResetGate, KEYBOARD_IRQ))
      [] v = 40   -> add_intr_handler_setup(SetGate(ResetGate, RTC_IRQ))
      [] v = 128  -> [SetGate(ResetGate, SYSCALL) EXCEPT
                         !.dpl = 3, !.present = 1, !.reserved3 = 1]
      [] OTHER    -> ResetGate]

\* The vector a line sends: ICW2 of its controller, and its number there
Vector(d) == IF d < 8 THEN 32 + d ELSE 40 + (d - 8)

\* The gate of a line, and the IF it leaves: a trap gate leaves it as it was.
Gate(d) == idt[Vector(d)]
FlagBehind(d) == Gate(d).reserved3 = 1

\* The CPU takes the interrupt of highest priority between two instructions.
Deliver ==
    /\ iflag
    /\ \E d \in Requests :
        /\ Gate(d).present = 1
        /\ \A e \in Requests : Level(d) <= Level(e)
        /\ irr' = irr \ {d}
        /\ isr' = isr \cup Served(d)
        /\ stack' = [stack EXCEPT ![cur] =
                        Append(@, [line |-> Gate(d).handler, at |-> "entry"])]
        /\ recent' = recent \cup {d}
        /\ iflag' = FlagBehind(d)
    /\ UNCHANGED <<mask, boot, deviceVars, cur, running_term, shells>>

\* No instruction runs while an interrupt is due.
NotInterrupted == ~iflag \/ Requests = {}

-----------------------------------------------------------------------------
(***************************************************************************)
(* The devices.  Handlers are short: between two steps of the code they    *)
(* interrupt, a device interrupts once, and not again before the next.     *)
(***************************************************************************)
Slow(d) == d \notin recent /\ recent' = recent \cup {d}

\* Mutant: the controllers are set up after the RTC.
BootRtcFirst ==
    <<"idt_init", "file_system_init", "rtc_init", "sti", "restore",
      "rtc_counters", "sti", "restore", "i8259_init", "sti", "restore",
      "paging_init", "enable_rtc", "keyboard_init", "terminal_init",
      "pit_init", "sti", "restore", "enable_pit", "sti">>

\* Mutant: the timer is set up before the terminals.
BootPitFirst ==
    <<"idt_init", "file_system_init", "i8259_init", "sti", "restore",
      "paging_init", "rtc_init", "sti", "restore", "rtc_counters", "sti",
      "restore", "enable_rtc", "keyboard_init", "pit_init", "sti", "restore",
      "terminal_init", "enable_pit", "sti">>

\* The steps of booting, in order.  "sti", "restore" is the sti() and the
\* restore_flags() that end four of the functions: entry runs with IF = 0.
BootOrder ==
    <<"idt_init", "file_system_init", "i8259_init", "sti", "restore",
      "paging_init", "rtc_init", "sti", "restore", "rtc_counters", "sti",
      "restore", "enable_rtc", "keyboard_init", "terminal_init",
      "pit_init", "sti", "restore", "enable_pit", "sti">>

Done == {BootOrder[i] : i \in 1 .. boot - 1}

\* Channel 0 of the PIT counts from power-on.
Tick ==
    /\ Slow(PIT_IRQ)
    /\ irr' = irr \cup {PIT_IRQ}
    /\ UNCHANGED <<mask, isr, boot, deviceVars, cpuVars>>

\* The keyboard sends the next scancode once the last one has been read.  It
\* is not used before the controllers are set up.
Key ==
    /\ "i8259_init" \in Done
    /\ ~full
    /\ Slow(KEYBOARD_IRQ)
    /\ full' = TRUE
    /\ irr' = irr \cup {KEYBOARD_IRQ}
    /\ UNCHANGED <<mask, isr, boot, pie, irqf, cpuVars>>

\* The RTC raises its line again only after register C has been read.
Period ==
    /\ pie /\ ~irqf
    /\ Slow(RTC_IRQ)
    /\ irqf' = TRUE
    /\ irr' = irr \cup {RTC_IRQ}
    /\ UNCHANGED <<mask, isr, boot, full, pie, cpuVars>>

-----------------------------------------------------------------------------
(***************************************************************************)
(* Booting                                                                 *)
(***************************************************************************)
Init ==
    /\ mask \in SUBSET Lines
    /\ irr = {} /\ isr = {}
    /\ iflag = FALSE
    /\ full = FALSE /\ pie = FALSE /\ irqf = FALSE
    /\ boot = 1
    /\ stack = [p \in Stacks |-> <<>>]
    /\ cur = 0
    /\ running_term = 0
    /\ shells = {}
    /\ recent = {}

\* ICW1 forgets the edges seen so far; only the cascade is enabled.
i8259_init ==
    /\ mask' = Lines \ {SLAVE_IRQ}
    /\ irr' = {} /\ isr' = {}
    /\ UNCHANGED <<iflag, deviceVars>>

\* The IF that a step of entry leaves.
FlagAfter(step) == IF step = "sti" THEN TRUE
                   ELSE IF step = "restore" THEN FALSE ELSE iflag

enabled(step) ==
    CASE step = "enable_rtc"    -> {RTC_IRQ}
      [] step = "keyboard_init" -> {KEYBOARD_IRQ}
      [] step = "enable_pit"    -> {PIT_IRQ}
      [] OTHER                  -> {}

\* A step of entry.  rtc_init turns periodic interrupts on (bit PIE).
Boot ==
    /\ cur = 0 /\ ~InHandler /\ NotInterrupted
    /\ boot \in 1 .. Len(BootOrder)
    /\ boot' = boot + 1
    /\ recent' = {}
    /\ \/ BootOrder[boot] = "i8259_init" /\ i8259_init
       \/ /\ BootOrder[boot] # "i8259_init"
          /\ mask' = mask \ enabled(BootOrder[boot])
          /\ pie' = (pie \/ BootOrder[boot] = "rtc_init")
          /\ iflag' = FlagAfter(BootOrder[boot])
          /\ UNCHANGED <<irr, isr, full, irqf>>
    /\ UNCHANGED <<stack, cur, running_term, shells>>

\* The hlt loop that ends entry, or a process: it runs, and system calls close
\* sections with cli() and open them with sti().
Process ==
    /\ ~InHandler /\ NotInterrupted
    /\ cur = 0 => boot = Len(BootOrder) + 1
    /\ recent' = {}
    /\ iflag' \in (IF cur = 0 THEN {TRUE} ELSE {TRUE, ~iflag})
    /\ UNCHANGED <<mask, irr, isr, boot, deviceVars, stack, cur, running_term,
                   shells>>

-----------------------------------------------------------------------------
(***************************************************************************)
(* The handlers, between pushfl and iret                                   *)
(***************************************************************************)
Goto(at) == stack' = [stack EXCEPT ![cur][Len(stack[cur])].at = at]

\* The running handler goes on from one point.
From(at) == InHandler /\ NotInterrupted /\ Top.at = at

\* cli()
Enter ==
    /\ From("entry")
    /\ iflag' = FALSE
    /\ Goto(IF Top.line = RTC_IRQ THEN "count" ELSE "eoi")
    /\ UNCHANGED <<mask, irr, isr, boot, recent, deviceVars, cur, running_term,
                   shells>>

\* rtc_interrupt counts for the terminals (module RTC).
Count ==
    /\ From("count")
    /\ Goto("regC")
    /\ UNCHANGED <<mask, irr, isr, boot, recent, deviceVars, iflag, cur,
                   running_term, shells>>

\* Mutant: register C is selected but not read.
RegCUnread == irqf

\* The RTC's flag after inb(RTC_PORT_CMOS) on register C.
AfterRegC == FALSE

ReadRegC ==
    /\ From("regC")
    /\ irqf' = AfterRegC
    /\ Goto("eoi")
    /\ UNCHANGED <<mask, irr, isr, boot, recent, full, pie, iflag, cur,
                   running_term, shells>>

\* send_eoi, then on with the handler.
SendEoi ==
    /\ From("eoi")
    /\ isr' = AfterEoi(Top.line)
    /\ Goto(CASE Top.line = RTC_IRQ      -> "sti"
              [] Top.line = KEYBOARD_IRQ -> "read"
              [] OTHER                   -> "sched")
    /\ UNCHANGED <<mask, irr, boot, recent, deviceVars, iflag, cur,
                   running_term, shells>>

\* The scancode is read; Alt+Fn goes on to terminal_switch.
ReadKey ==
    /\ From("read")
    /\ full' = FALSE
    /\ \E at \in {"sti", "switch"} : Goto(at)
    /\ UNCHANGED <<mask, irr, isr, boot, recent, pie, irqf, iflag, cur,
                   running_term, shells>>

\* switch_vid_page ends with sti(), in the middle of the handler; so does
\* switch_screen, and terminal_switch goes on with IF = 1.
SwitchDisplay ==
    \/ /\ From("switch")
       /\ iflag' = TRUE
       /\ Goto("screen")
       /\ UNCHANGED <<mask, irr, isr, boot, recent, deviceVars, cur,
                      running_term, shells>>
    \/ /\ \/ From("screen") /\ Goto("after")
          \/ From("after") /\ Goto("sti")
       /\ UNCHANGED <<mask, irr, isr, boot, recent, deviceVars, iflag, cur,
                      running_term, shells>>

\* Mutant: the modulus is left out.
NextTermUnbounded == running_term + 1

NextTerm == (running_term % TERM_NUM) + 1

\* scheduler: the next terminal has no shell yet.  sys_execute ends with sti()
\* and, on the stack of the tick, an IRET to the new program.
StartShell ==
    /\ From("sched")
    /\ shells # Terms
    /\ running_term' = NextTerm
    /\ shells' = shells \cup {NextTerm}
    /\ iflag' = TRUE
    /\ Goto("exec")
    /\ UNCHANGED <<mask, irr, isr, boot, recent, deviceVars, cur>>

\* The IRET.  The tick is resumed, if ever, where it returns from scheduler.
EnterShell ==
    /\ From("exec")
    /\ cur' = running_term
    /\ Goto("sti")
    /\ UNCHANGED <<mask, irr, isr, boot, recent, deviceVars, iflag,
                   running_term, shells>>

\* scheduler: on to the stack of the next terminal.
SwitchStack ==
    /\ From("sched")
    /\ shells = Terms
    /\ running_term' = NextTerm
    /\ cur' = NextTerm
    /\ Goto("sti")
    /\ UNCHANGED <<mask, irr, isr, boot, recent, deviceVars, iflag, shells>>

\* The sti() before every return of a handler.  From here to popfl, interrupts
\* nest on top of a handler that has done its work.
Sti ==
    /\ From("sti")
    /\ iflag' = TRUE
    /\ Goto("tail")
    /\ UNCHANGED <<mask, irr, isr, boot, recent, deviceVars, cur, running_term,
                   shells>>

\* popfl restores the flags the gate left.
Popfl ==
    /\ From("tail")
    /\ iflag' = FlagBehind(Top.line)
    /\ Goto("iret")
    /\ UNCHANGED <<mask, irr, isr, boot, recent, deviceVars, cur, running_term,
                   shells>>

\* popal, iret: whatever was interrupted had IF = 1.
Iret ==
    /\ From("iret")
    /\ iflag' = TRUE
    /\ stack' = [stack EXCEPT ![cur] = Below(cur)]
    /\ UNCHANGED <<mask, irr, isr, boot, recent, deviceVars, cur, running_term,
                   shells>>

Handler == \/ Enter \/ Count \/ ReadRegC \/ SendEoi \/ ReadKey \/ SwitchDisplay
           \/ StartShell \/ EnterShell \/ SwitchStack \/ Sti \/ Popfl \/ Iret

Cpu    == Deliver \/ Boot \/ Process \/ Handler
Device == Tick \/ Key \/ Period

Next == Cpu \/ Device

\* The CPU goes on; nothing obliges a device to interrupt.
Spec == Init /\ [][Next]_vars /\ WF_vars(Cpu)

-----------------------------------------------------------------------------
(***************************************************************************)
(* Properties                                                              *)
(***************************************************************************)
\* The type invariant.  It bounds the handlers on one kernel stack: three that
\* were interrupted before a tick left the stack, and two after its return.
InterruptsTypeOK ==
    /\ mask \subseteq Lines /\ irr \subseteq Devices /\ isr \subseteq Lines
    /\ iflag \in BOOLEAN
    /\ full \in BOOLEAN /\ pie \in BOOLEAN /\ irqf \in BOOLEAN
    /\ boot \in 1 .. Len(BootOrder) + 1
    /\ stack \in [Stacks -> Seq(Frame)]
    /\ \A p \in Stacks : Len(stack[p]) <= MaxFrames
    /\ cur \in Stacks
    /\ running_term \in Stacks
    /\ shells \subseteq Terms
    /\ recent \subseteq Devices

\* The controllers' in-service bits are those of the running handler, as long
\* as it owes its EOI, and no handler is left in the middle owing one: when
\* the code it interrupted goes on, or another terminal's stack is switched
\* to, no line is blocked (send_eoi, i8259.c:122-140, and its callers).
ServiceMatchesStack ==
    /\ isr = IF InHandler /\ OwesEoi(Top) THEN Served(Top.line) ELSE {}
    /\ \A p \in Stacks : \A i \in 1 .. Len(stack[p]) :
        (p = cur /\ i = Len(stack[p])) \/ ~OwesEoi(stack[p][i])

\* What a handler uses is set up before it first runs, although four functions
\* of the boot open a window with sti() while they run (kernel.c:147-173).
Needs(d) ==
    CASE d = RTC_IRQ      -> {"idt_init", "rtc_counters"}
      [] d = KEYBOARD_IRQ -> {"idt_init", "paging_init", "terminal_init"}
      [] OTHER            -> {"idt_init", "file_system_init", "paging_init",
                              "terminal_init"}
HandlersReady ==
    \A p \in Stacks : \A i \in 1 .. Len(stack[p]) :
        Needs(stack[p][i].line) \subseteq Done

\* No edge is lost: while the RTC or the keyboard holds its line up, and so
\* cannot make another edge, the request is latched in the controllers or
\* its handler is still to read register C or port 0x60.
On(d, points) == \E p \in Stacks : \E i \in 1 .. Len(stack[p]) :
                    stack[p][i].line = d /\ stack[p][i].at \in points
EdgesKept ==
    /\ irqf => \/ RTC_IRQ \in irr
               \/ On(RTC_IRQ, {"entry", "count", "regC"})
    /\ full => \/ KEYBOARD_IRQ \in irr
               \/ On(KEYBOARD_IRQ, {"entry", "eoi", "read"})

\* Every scancode is read and every RTC interrupt acknowledged in the end, so
\* that both devices go on interrupting (keyboard.c:126-135, RTC.c:97-109).
DevicesAnswered == /\ full ~> ~full
                   /\ irqf ~> ~irqf
=============================================================================
