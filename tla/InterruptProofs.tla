---------------------------- MODULE InterruptProofs ----------------------------
(***************************************************************************)
(* Proofs about Interrupts, for every number of terminals: every handler   *)
(* has acknowledged its line before its stack is left or something nests   *)
(* on it, no handler runs before boot has set up what it uses, no edge of  *)
(* the keyboard or the RTC is lost, and handlers nest five deep at most.   *)
(***************************************************************************)
EXTENDS Interrupts, TLAPS

-----------------------------------------------------------------------------
(***************************************************************************)
(* The inductive invariant                                                 *)
(***************************************************************************)

\* Types, without the bound on the handlers of a stack
TypeInv ==
    /\ mask \subseteq Lines /\ irr \subseteq Devices /\ isr \subseteq Lines
    /\ iflag \in BOOLEAN
    /\ full \in BOOLEAN /\ pie \in BOOLEAN /\ irqf \in BOOLEAN
    /\ boot \in 1 .. 21
    /\ stack \in [Stacks -> Seq(Frame)]
    /\ cur \in Stacks
    /\ running_term \in Stacks
    /\ shells \subseteq Terms

\* While a handler owes its EOI, nothing can interrupt it.
Shielded == InHandler /\ OwesEoi(Top) => ~iflag

\* Only the timer's handler gets to the scheduler, and only the RTC's to
\* register C.
PointOfLine(f) ==
    /\ f.at \in {"sched", "exec"} => f.line = PIT_IRQ
    /\ f.at \in {"count", "regC"} => f.line = RTC_IRQ
    /\ f.at \in {"read", "switch", "screen", "after"} => f.line = KEYBOARD_IRQ

PointsMatch == \A p \in Stacks : \A i \in 1 .. Len(stack[p]) : PointOfLine(stack[p][i])

\* The steps of entry before which interrupts may be open
Windows == {5, 9, 12, 18, 21}

\* How far entry is when interrupts are open, and when handlers run
BootInv ==
    /\ cur # 0 => boot = 21
    /\ \A p \in Stacks : Len(stack[p]) # 0 => boot \in (IF p = 0 THEN {18, 21} ELSE {21})
    /\ \A p \in Stacks : \A i \in 1 .. Len(stack[p]) :
          stack[p][i].line = PIT_IRQ => boot = 21
    /\ iflag /\ cur = 0 => boot \in Windows

\* The lines that are still masked while entry gets there
MaskInv ==
    boot > 3 => /\ boot <= 13 => RTC_IRQ \in mask
                /\ boot <= 14 => KEYBOARD_IRQ \in mask
                /\ boot <= 19 => PIT_IRQ \in mask

\* The devices do not hold their lines up before the controllers are set up.
QuietBefore ==
    /\ pie => boot > 7
    /\ irqf => pie
    /\ full => boot > 3

IInv ==
    /\ TypeInv
    /\ ServiceMatchesStack /\ Shielded
    /\ PointsMatch /\ BootInv /\ MaskInv
    /\ QuietBefore /\ EdgesKept

-----------------------------------------------------------------------------
(***************************************************************************)
(* Gates, the steps of entry, stacks                                       *)
(***************************************************************************)

\* The gate of a device leads to its handler and closes interrupts.
LEMMA DeviceGates ==
    ASSUME NEW d \in Devices
    PROVE  Gate(d).handler = d /\ FlagBehind(d) = FALSE
<1>1. Vector(PIT_IRQ) = 32 /\ Vector(KEYBOARD_IRQ) = 33 /\ Vector(RTC_IRQ) = 40
  BY DEF Vector, PIT_IRQ, KEYBOARD_IRQ, RTC_IRQ
<1>2. /\ idt[32] = add_intr_handler_setup(SetGate(ResetGate, PIT_IRQ))
      /\ idt[33] = add_intr_handler_setup(SetGate(ResetGate, KEYBOARD_IRQ))
      /\ idt[40] = add_intr_handler_setup(SetGate(ResetGate, RTC_IRQ))
  BY DEF idt
<1>3. \A h \in Devices :
        /\ add_intr_handler_setup(SetGate(ResetGate, h)).handler = h
        /\ add_intr_handler_setup(SetGate(ResetGate, h)).reserved3 = 0
  BY DEF add_intr_handler_setup, SetGate, ResetGate
<1>4. QED
  BY <1>1, <1>2, <1>3 DEF Devices, Gate, FlagBehind

\* Which step of entry is which
LEMMA BootSteps ==
    /\ Len(BootOrder) = 20
    /\ \A i \in 1 .. 20 :
          /\ BootOrder[i] = "i8259_init" <=> i = 3
          /\ BootOrder[i] = "rtc_init" <=> i = 7
          /\ BootOrder[i] = "enable_rtc" <=> i = 13
          /\ BootOrder[i] = "keyboard_init" <=> i = 14
          /\ BootOrder[i] = "enable_pit" <=> i = 19
          /\ BootOrder[i] = "sti" <=> i \in {4, 8, 11, 17, 20}
          /\ BootOrder[i] = "restore" <=> i \in {5, 9, 12, 18}
BY DEF BootOrder

\* A sequence without elements is the empty one.
LEMMA EmptySeq ==
    ASSUME NEW S, NEW s \in Seq(S)
    PROVE  s = <<>> <=> Len(s) = 0
OBVIOUS

\* The running handler goes on: the frames of all stacks but for its point
LEMMA GotoFrames ==
    ASSUME TypeInv, InHandler, NEW at \in Points, Goto(at)
    PROVE  /\ stack' \in [Stacks -> Seq(Frame)]
           /\ \A p \in Stacks : Len(stack'[p]) = Len(stack[p])
           /\ \A p \in Stacks : \A i \in 1 .. Len(stack[p]) :
                 /\ stack'[p][i].line = stack[p][i].line
                 /\ stack'[p][i].at = IF p = cur /\ i = Len(stack[p]) THEN at
                                      ELSE stack[p][i].at
<1> DEFINE n == Len(stack[cur])
           f == [stack[cur][n] EXCEPT !.at = at]
           t == [stack[cur] EXCEPT ![n] = f]
<1>1. stack[cur] \in Seq(Frame) /\ n \in Nat \ {0}
  BY EmptySeq DEF TypeInv, InHandler
<1>2. stack' = [stack EXCEPT ![cur] = t]
  BY DEF Goto
<1>3. stack[cur][n] \in Frame /\ f \in Frame /\ f.at = at /\ f.line = stack[cur][n].line
  <2>1. stack[cur][n] \in Frame
    BY <1>1
  <2>2. QED
    BY <2>1 DEF Frame
<1> HIDE DEF f
<1>4. /\ t \in Seq(Frame) /\ Len(t) = n
      /\ t[n].line = stack[cur][n].line /\ t[n].at = at
      /\ \A i \in 1 .. n : i # n => t[i] = stack[cur][i]
  BY <1>1, <1>3
<1>5. cur \in Stacks /\ stack \in [Stacks -> Seq(Frame)]
  BY DEF TypeInv
<1> HIDE DEF t
<1>6. stack' \in [Stacks -> Seq(Frame)]
  BY <1>2, <1>4, <1>5
<1>7. \A p \in Stacks : stack'[p] = IF p = cur THEN t ELSE stack[p]
  BY <1>2, <1>5
<1>8. QED
  BY <1>1, <1>4, <1>5, <1>6, <1>7

\* The CPU enters a handler.
LEMMA PushFrames ==
    ASSUME TypeInv, NEW f \in Frame, stack' = [stack EXCEPT ![cur] = Append(@, f)]
    PROVE  /\ stack' \in [Stacks -> Seq(Frame)]
           /\ \A p \in Stacks : Len(stack'[p]) = IF p = cur THEN Len(stack[p]) + 1
                                                 ELSE Len(stack[p])
           /\ \A p \in Stacks : \A i \in 1 .. Len(stack[p]) :
                 stack'[p][i] = stack[p][i]
           /\ stack'[cur][Len(stack[cur]) + 1] = f
<1>1. cur \in Stacks /\ stack \in [Stacks -> Seq(Frame)]
  BY DEF TypeInv
<1>2. stack' \in [Stacks -> Seq(Frame)]
  BY <1>1
<1>3. \A p \in Stacks : stack'[p] = IF p = cur THEN Append(stack[p], f) ELSE stack[p]
  BY <1>1
<1>4. QED
  BY <1>1, <1>2, <1>3

\* A handler returns.
LEMMA PopFrames ==
    ASSUME TypeInv, InHandler, stack' = [stack EXCEPT ![cur] = Below(cur)]
    PROVE  /\ stack' \in [Stacks -> Seq(Frame)]
           /\ \A p \in Stacks : Len(stack'[p]) = IF p = cur THEN Len(stack[p]) - 1
                                                 ELSE Len(stack[p])
           /\ \A p \in Stacks : \A i \in 1 .. Len(stack'[p]) :
                 stack'[p][i] = stack[p][i]
<1>1. cur \in Stacks /\ stack \in [Stacks -> Seq(Frame)]
  BY DEF TypeInv
<1>2. stack[cur] \in Seq(Frame) /\ Len(stack[cur]) \in Nat \ {0}
  BY <1>1, EmptySeq DEF InHandler
<1>3. /\ Below(cur) \in Seq(Frame) /\ Len(Below(cur)) = Len(stack[cur]) - 1
      /\ \A i \in 1 .. Len(stack[cur]) - 1 : Below(cur)[i] = stack[cur][i]
  BY <1>2 DEF Below
<1>4. stack' \in [Stacks -> Seq(Frame)]
  BY <1>1, <1>3
<1>5. \A p \in Stacks : stack'[p] = IF p = cur THEN Below(cur) ELSE stack[p]
  BY <1>1
<1>6. QED
  BY <1>1, <1>3, <1>4, <1>5

\* A handler runs on a stack that has a frame, and its top is one.
LEMMA TopFrame ==
    ASSUME TypeInv
    PROVE  /\ InHandler <=> Len(stack[cur]) # 0
           /\ \A p \in Stacks : Len(stack[p]) \in Nat
           /\ \A p \in Stacks : \A i \in 1 .. Len(stack[p]) : stack[p][i] \in Frame
           /\ InHandler => Len(stack[cur]) \in 1 .. Len(stack[cur]) /\ Top \in Frame
<1>1. cur \in Stacks /\ stack \in [Stacks -> Seq(Frame)]
  BY DEF TypeInv
<1>2. InHandler <=> Len(stack[cur]) # 0
  BY <1>1, EmptySeq DEF InHandler
<1>3. \A p \in Stacks : Len(stack[p]) \in Nat
  BY <1>1
<1>4. \A p \in Stacks : \A i \in 1 .. Len(stack[p]) : stack[p][i] \in Frame
  BY <1>1
<1>5. QED
  BY <1>1, <1>2, <1>3, <1>4 DEF Top

\* What a step changes of the frames, whatever it does besides
LEMMA FramesStep ==
    ASSUME TypeInv, [Next]_vars
    PROVE  \/ stack' = stack
           \/ InHandler /\ \E at \in Points : Goto(at)
           \/ /\ iflag /\ \E d \in Requests : stack' =
                    [stack EXCEPT ![cur] = Append(@, [line |-> d, at |-> "entry"])]
           \/ InHandler /\ stack' = [stack EXCEPT ![cur] = Below(cur)]
<1>1. CASE Deliver
  <2>1. PICK d \in Requests : stack' = [stack EXCEPT ![cur] =
                    Append(@, [line |-> Gate(d).handler, at |-> "entry"])]
    BY <1>1 DEF Deliver
  <2>2. d \in Devices
    BY DEF Requests, TypeInv
  <2>3. QED
    BY <1>1, <2>1, <2>2, DeviceGates DEF Deliver
<1>2. CASE Handler
  BY <1>2 DEF Handler, Enter, Count, ReadRegC, SendEoi, ReadKey, SwitchDisplay,
              StartShell, EnterShell, SwitchStack, Sti, Popfl, Iret, From, Points
<1>3. CASE Boot \/ Process \/ Device \/ UNCHANGED vars
  BY <1>3 DEF Boot, Process, Device, Tick, Key, Period, vars, cpuVars
<1>4. QED
  BY <1>1, <1>2, <1>3 DEF Next, Cpu

-----------------------------------------------------------------------------
(***************************************************************************)
(* Types                                                                   *)
(***************************************************************************)

\* The types hold at first.
LEMMA TypeInit == Init => TypeInv
<1>1. SUFFICES ASSUME Init PROVE TypeInv
  OBVIOUS
<1>2. 0 \in Stacks
  BY InterruptsAssumption DEF Stacks
<1>3. stack \in [Stacks -> Seq(Frame)]
  <2>1. <<>> \in Seq(Frame)
    OBVIOUS
  <2>2. stack = [p \in Stacks |-> <<>>]
    BY <1>1 DEF Init
  <2>3. QED
    BY <2>1, <2>2
<1>4. mask \subseteq Lines /\ irr \subseteq Devices /\ isr \subseteq Lines /\ shells \subseteq Terms
  BY <1>1 DEF Init
<1>5. iflag \in BOOLEAN /\ full \in BOOLEAN /\ pie \in BOOLEAN /\ irqf \in BOOLEAN
  BY <1>1 DEF Init
<1>6. boot \in 1 .. 21 /\ cur \in Stacks /\ running_term \in Stacks
  BY <1>1, <1>2 DEF Init
<1>7. QED
  BY <1>3, <1>4, <1>5, <1>6 DEF TypeInv

\* The next terminal is a terminal.
LEMMA NextTermType == TypeInv => NextTerm \in Terms
<1>1. SUFFICES ASSUME TypeInv PROVE NextTerm \in Terms
  OBVIOUS
<1>2. running_term \in Nat /\ TERM_NUM \in Nat \ {0}
  <2>1. running_term \in Stacks
    BY <1>1 DEF TypeInv
  <2>2. QED
    BY <2>1, InterruptsAssumption DEF Stacks
<1>3. running_term % TERM_NUM \in 0 .. TERM_NUM - 1
  BY <1>2
<1>4. QED
  BY <1>2, <1>3 DEF NextTerm, Terms

\* Every step keeps the types.
LEMMA TypeStep == TypeInv /\ [Next]_vars => TypeInv'
<1>1. SUFFICES ASSUME TypeInv, [Next]_vars PROVE TypeInv'
  OBVIOUS
<1>2. stack' \in [Stacks -> Seq(Frame)]
  <2>1. CASE stack' = stack
    BY <2>1, <1>1 DEF TypeInv
  <2>2. CASE InHandler /\ \E at \in Points : Goto(at)
    BY <2>2, <1>1, GotoFrames
  <2>3. ASSUME NEW d \in Requests,
               stack' = [stack EXCEPT ![cur] = Append(@, [line |-> d, at |-> "entry"])]
        PROVE  stack' \in [Stacks -> Seq(Frame)]
    <3>1. [line |-> d, at |-> "entry"] \in Frame
      BY <1>1 DEF TypeInv, Requests, Frame, Points
    <3>2. QED
      BY <1>1, <2>3, <3>1, PushFrames
  <2>4. CASE InHandler /\ stack' = [stack EXCEPT ![cur] = Below(cur)]
    BY <2>4, <1>1, PopFrames
  <2>5. QED
    BY <1>1, <2>1, <2>2, <2>3, <2>4, FramesStep
<1>3. Terms \subseteq Stacks
  BY DEF Terms, Stacks
<1>4. /\ mask' \subseteq Lines /\ irr' \subseteq Devices /\ isr' \subseteq Lines
      /\ iflag' \in BOOLEAN
  <2>1. CASE Deliver
    <3>1. PICK d \in Requests : irr' = irr \ {d} /\ isr' = isr \cup Served(d)
                                /\ iflag' = FlagBehind(d)
      BY <2>1 DEF Deliver
    <3>2. d \in Devices
      BY <1>1 DEF TypeInv, Requests
    <3>3. Served(d) \subseteq Lines
      BY <3>2 DEF Served, Lines, Devices
    <3>4. QED
      BY <1>1, <2>1, <3>1, <3>2, <3>3, DeviceGates DEF Deliver, TypeInv
  <2>2. CASE Boot
    BY <1>1, <2>2 DEF Boot, TypeInv, i8259_init, FlagAfter, Lines
  <2>3. CASE Process
    BY <1>1, <2>3 DEF Process, TypeInv
  <2>4. CASE Handler
    <3>1. CASE Popfl
      BY <1>1, <3>1, TopFrame DEF Popfl, From, TypeInv, FlagBehind
    <3>2. QED
      BY <1>1, <2>4, <3>1 DEF Handler, Enter, Count, ReadRegC, SendEoi, ReadKey,
              SwitchDisplay, StartShell, EnterShell, SwitchStack, Sti, Iret,
              TypeInv, AfterEoi
  <2>5. CASE Device \/ UNCHANGED vars
    BY <1>1, <2>5 DEF Device, Tick, Key, Period, vars, cpuVars, TypeInv, Devices
  <2>6. QED
    BY <1>1, <2>1, <2>2, <2>3, <2>4, <2>5 DEF Next, Cpu
<1>5. /\ full' \in BOOLEAN /\ pie' \in BOOLEAN /\ irqf' \in BOOLEAN
      /\ cur' \in Stacks /\ running_term' \in Stacks /\ shells' \subseteq Terms
  <2>1. CASE Deliver \/ Boot \/ Process
    BY <1>1, <2>1 DEF Deliver, Boot, i8259_init, Process, TypeInv, deviceVars
  <2>2. CASE Handler
    BY <1>1, <2>2, <1>3, NextTermType DEF Handler, Enter, Count, ReadRegC, SendEoi,
              ReadKey, SwitchDisplay, StartShell, EnterShell, SwitchStack, Sti,
              Popfl, Iret, TypeInv, AfterRegC, deviceVars
  <2>3. CASE Device \/ UNCHANGED vars
    BY <1>1, <2>3 DEF Device, Tick, Key, Period, vars, cpuVars, deviceVars, TypeInv
  <2>4. QED
    BY <1>1, <2>1, <2>2, <2>3 DEF Next, Cpu
<1>6. boot' \in 1 .. 21
  <2>1. CASE Boot
    BY <1>1, <2>1, BootSteps DEF Boot, TypeInv
  <2>2. QED
    BY <1>1, <2>1 DEF Next, Cpu, Deliver, Process, Handler, Enter, Count, ReadRegC,
              SendEoi, ReadKey, SwitchDisplay, StartShell, EnterShell, SwitchStack,
              Sti, Popfl, Iret, Device, Tick, Key, Period, vars, TypeInv
<1>7. QED
  BY <1>2, <1>4, <1>5, <1>6 DEF TypeInv

-----------------------------------------------------------------------------
(***************************************************************************)
(* Acknowledgements                                                        *)
(***************************************************************************)

\* When no handler owes an EOI, the controllers are free and no frame owes one.
LEMMA NothingOwed ==
    ASSUME TypeInv, ServiceMatchesStack, ~(InHandler /\ OwesEoi(Top))
    PROVE  /\ isr = {}
           /\ \A p \in Stacks : \A i \in 1 .. Len(stack[p]) : ~OwesEoi(stack[p][i])
<1>1. isr = {}
  BY DEF ServiceMatchesStack
<1>2. ASSUME NEW p \in Stacks, NEW i \in 1 .. Len(stack[p]) PROVE ~OwesEoi(stack[p][i])
  <2>1. CASE p = cur /\ i = Len(stack[p])
    BY <2>1, TopFrame DEF Top
  <2>2. QED
    BY <2>1 DEF ServiceMatchesStack
<1>3. QED
  BY <1>1, <1>2

\* Then everything about acknowledgements holds.
LEMMA NothingOwedNext ==
    ASSUME TypeInv', isr' = {},
           \A p \in Stacks : \A i \in 1 .. Len(stack'[p]) : ~OwesEoi(stack'[p][i])
    PROVE  ServiceMatchesStack' /\ Shielded'
<1>1. ~(InHandler' /\ OwesEoi(Top'))
  <2>1. SUFFICES ASSUME InHandler' PROVE ~OwesEoi(Top')
    OBVIOUS
  <2>2. cur' \in Stacks /\ stack'[cur'] \in Seq(Frame) /\ stack'[cur'] # <<>>
    BY <2>1 DEF TypeInv, InHandler
  <2>3. Len(stack'[cur']) \in 1 .. Len(stack'[cur'])
    BY <2>2, EmptySeq
  <2>4. QED
    BY <2>2, <2>3 DEF Top
<1>2. QED
  BY <1>1 DEF ServiceMatchesStack, Shielded

\* So it does when the handler on top owes its EOI, alone, and cannot be
\* interrupted.
LEMMA TopOwesNext ==
    ASSUME TypeInv', NEW d \in Devices, NEW f \in Frame, OwesEoi(f), f.line = d,
           isr' = Served(d), iflag' = FALSE,
           Len(stack'[cur']) # 0, stack'[cur'][Len(stack'[cur'])] = f,
           \A p \in Stacks : \A i \in 1 .. Len(stack'[p]) :
              (p = cur' /\ i = Len(stack'[p])) \/ ~OwesEoi(stack'[p][i])
    PROVE  ServiceMatchesStack' /\ Shielded'
<1>1. InHandler' /\ Top' = f
  BY EmptySeq DEF InHandler, Top
<1>2. QED
  BY <1>1 DEF ServiceMatchesStack, Shielded

\* A handler that goes on to a point where it owes nothing (any more)
LEMMA GotoFree ==
    ASSUME TypeInv, TypeInv', ServiceMatchesStack, InHandler, NEW at \in Points,
           Goto(at), isr' = {}, ~OwesEoi([line |-> Top.line, at |-> at])
    PROVE  ServiceMatchesStack' /\ Shielded'
<1>1. ASSUME NEW p \in Stacks, NEW i \in 1 .. Len(stack'[p])
      PROVE  ~OwesEoi(stack'[p][i])
  <2>1. i \in 1 .. Len(stack[p])
    BY GotoFrames
  <2>2. CASE p = cur /\ i = Len(stack[p])
    BY <2>1, <2>2, GotoFrames DEF OwesEoi, Top
  <2>3. CASE ~(p = cur /\ i = Len(stack[p]))
    BY <2>1, <2>3, GotoFrames DEF OwesEoi, ServiceMatchesStack
  <2>4. QED
    BY <2>2, <2>3
<1>2. QED
  BY <1>1, NothingOwedNext

\* A handler that goes on, and still owes its EOI
LEMMA GotoOwing ==
    ASSUME TypeInv, TypeInv', ServiceMatchesStack, InHandler, OwesEoi(Top),
           NEW at \in Points, Goto(at), cur' = cur, isr' = isr, iflag' = FALSE,
           OwesEoi([line |-> Top.line, at |-> at])
    PROVE  ServiceMatchesStack' /\ Shielded'
<1> DEFINE n == Len(stack[cur])
           f == stack'[cur][n]
<1>1. n \in 1 .. Len(stack[cur]) /\ cur \in Stacks /\ Top.line \in Devices
  BY TopFrame DEF TypeInv, Frame
<1>2. f.line = Top.line /\ f.at = at /\ f \in Frame /\ Len(stack'[cur]) = n
  <2>1. /\ f.line = Top.line /\ f.at = at /\ Len(stack'[cur]) = n
        /\ stack' \in [Stacks -> Seq(Frame)]
    BY <1>1, GotoFrames DEF Top
  <2>2. QED
    BY <1>1, <2>1
<1>3. OwesEoi(f)
  BY <1>2 DEF OwesEoi
<1>4. ASSUME NEW p \in Stacks, NEW i \in 1 .. Len(stack'[p])
      PROVE  (p = cur' /\ i = Len(stack'[p])) \/ ~OwesEoi(stack'[p][i])
  BY GotoFrames DEF ServiceMatchesStack, OwesEoi
<1>5. isr' = Served(Top.line)
  BY DEF ServiceMatchesStack
<1> HIDE DEF f
<1>6. stack'[cur'][Len(stack'[cur'])] = f
  BY <1>2 DEF f
<1>7. Len(stack'[cur']) # 0
  BY <1>1, <1>2
<1>8. QED
  BY <1>1, <1>2, <1>3, <1>4, <1>5, <1>6, <1>7, TopOwesNext

\* Every step keeps the acknowledgements in order.
LEMMA ServiceStep ==
    ASSUME TypeInv, TypeInv', PointsMatch, ServiceMatchesStack, Shielded, [Next]_vars
    PROVE  ServiceMatchesStack' /\ Shielded'
<1>1. InHandler => /\ Top \in Frame /\ Top.line \in Devices /\ Top.at \in Points
                   /\ PointOfLine(Top)
  BY TopFrame DEF PointsMatch, TypeInv, Frame, Top
<1>2. CASE Deliver
  <2>1. PICK d \in Requests : isr' = isr \cup Served(d) /\ iflag' = FlagBehind(d)
                              /\ stack' = [stack EXCEPT ![cur] =
                                    Append(@, [line |-> Gate(d).handler, at |-> "entry"])]
    BY <1>2 DEF Deliver
  <2> DEFINE f == [line |-> d, at |-> "entry"]
  <2>2. d \in Devices /\ f \in Frame /\ OwesEoi(f) /\ f.line = d
    BY DEF Requests, TypeInv, Frame, Points, OwesEoi
  <2>3. /\ isr = {} /\ cur' = cur
        /\ \A p \in Stacks : \A i \in 1 .. Len(stack[p]) : ~OwesEoi(stack[p][i])
    BY <1>2, NothingOwed DEF Deliver, Shielded
  <2>4. isr' = Served(d) /\ iflag' = FALSE /\ stack' = [stack EXCEPT ![cur] = Append(@, f)]
    BY <2>1, <2>2, <2>3, DeviceGates
  <2> HIDE DEF f
  <2>5. /\ \A p \in Stacks : Len(stack'[p]) = IF p = cur THEN Len(stack[p]) + 1
                                              ELSE Len(stack[p])
        /\ \A p \in Stacks : \A i \in 1 .. Len(stack[p]) : stack'[p][i] = stack[p][i]
        /\ stack'[cur][Len(stack[cur]) + 1] = f
        /\ cur \in Stacks /\ \A p \in Stacks : Len(stack[p]) \in Nat
    BY <2>2, <2>4, PushFrames, TopFrame DEF TypeInv
  <2>6. \A p \in Stacks : \A i \in 1 .. Len(stack'[p]) :
              (p = cur' /\ i = Len(stack'[p])) \/ ~OwesEoi(stack'[p][i])
    BY <2>3, <2>5
  <2>7. Len(stack'[cur']) # 0 /\ stack'[cur'][Len(stack'[cur'])] = f
    BY <2>3, <2>5
  <2>8. QED
    BY <2>2, <2>4, <2>6, <2>7, TopOwesNext
<1>3. CASE Boot \/ Process
  <2>1. stack' = stack /\ isr' = {}
    BY <1>3, NothingOwed DEF Boot, Process, i8259_init
  <2>2. \A p \in Stacks : \A i \in 1 .. Len(stack[p]) : ~OwesEoi(stack[p][i])
    BY <1>3, NothingOwed DEF Boot, Process
  <2>3. QED
    BY <2>1, <2>2, NothingOwedNext
<1>4. CASE Enter
  <2> DEFINE at == IF Top.line = RTC_IRQ THEN "count" ELSE "eoi"
  <2>1. /\ InHandler /\ OwesEoi(Top) /\ at \in Points /\ Goto(at) /\ cur' = cur
        /\ isr' = isr /\ iflag' = FALSE
        /\ OwesEoi([line |-> Top.line, at |-> at])
    BY <1>4 DEF Enter, From, OwesEoi, Points
  <2>2. QED
    BY <2>1, GotoOwing
<1>5. CASE Count \/ ReadRegC
  <2>1. PICK at \in {"regC", "eoi"} : Goto(at)
    BY <1>5 DEF Count, ReadRegC
  <2>2. /\ InHandler /\ OwesEoi(Top) /\ at \in Points /\ cur' = cur
        /\ isr' = isr /\ OwesEoi([line |-> Top.line, at |-> at]) /\ iflag' = iflag
    BY <1>1, <1>5 DEF Count, ReadRegC, From, OwesEoi, Points, PointOfLine
  <2>3. iflag' = FALSE
    BY <2>2 DEF Shielded, TypeInv
  <2>4. QED
    BY <2>1, <2>2, <2>3, GotoOwing
<1>6. CASE SendEoi
  <2>1. InHandler /\ OwesEoi(Top) /\ isr' = AfterEoi(Top.line)
    BY <1>6 DEF SendEoi, From, OwesEoi
  <2>2. isr' = {}
    BY <2>1 DEF ServiceMatchesStack, AfterEoi
  <2>3. PICK at \in {"sti", "read", "sched"} : Goto(at)
    BY <1>6 DEF SendEoi
  <2>4. at \in Points /\ ~OwesEoi([line |-> Top.line, at |-> at])
    BY DEF Points, OwesEoi
  <2>5. QED
    BY <2>1, <2>2, <2>3, <2>4, GotoFree
<1>7. CASE \/ ReadKey \/ SwitchDisplay \/ StartShell \/ EnterShell \/ SwitchStack
           \/ Sti \/ Popfl
  <2>1. PICK at \in {"sti", "switch", "screen", "after", "exec", "tail", "iret"} : Goto(at)
    BY <1>7 DEF ReadKey, SwitchDisplay, StartShell, EnterShell, SwitchStack, Sti, Popfl
  <2>2. InHandler /\ ~OwesEoi(Top) /\ isr' = isr
    BY <1>7 DEF ReadKey, SwitchDisplay, StartShell, EnterShell, SwitchStack, Sti,
                Popfl, From, OwesEoi
  <2>3. isr' = {}
    BY <2>2, NothingOwed
  <2>4. at \in Points /\ ~OwesEoi([line |-> Top.line, at |-> at])
    BY DEF Points, OwesEoi
  <2>5. QED
    BY <2>1, <2>2, <2>3, <2>4, GotoFree
<1>8. CASE Iret
  <2>1. /\ InHandler /\ ~OwesEoi(Top) /\ isr' = isr
        /\ stack' = [stack EXCEPT ![cur] = Below(cur)]
    BY <1>8 DEF Iret, From, OwesEoi
  <2>2. /\ isr' = {}
        /\ \A p \in Stacks : \A i \in 1 .. Len(stack[p]) : ~OwesEoi(stack[p][i])
    BY <2>1, NothingOwed
  <2>3. \A p \in Stacks : \A i \in 1 .. Len(stack'[p]) : ~OwesEoi(stack'[p][i])
    BY <2>1, <2>2, PopFrames, TopFrame
  <2>4. QED
    BY <2>2, <2>3, NothingOwedNext
<1>9. CASE Device \/ UNCHANGED vars
  <2>1. stack' = stack /\ isr' = isr /\ iflag' = iflag /\ cur' = cur
    BY <1>9 DEF Device, Tick, Key, Period, vars, cpuVars
  <2>2. QED
    BY <2>1 DEF ServiceMatchesStack, Shielded, InHandler, Top
<1>10. QED
  BY <1>2, <1>3, <1>4, <1>5, <1>6, <1>7, <1>8, <1>9 DEF Next, Cpu, Handler

-----------------------------------------------------------------------------
(***************************************************************************)
(* Points and boot                                                         *)
(***************************************************************************)

\* A handler goes on to a point that belongs to its line.
LEMMA GotoPoint ==
    ASSUME TypeInv, PointsMatch, InHandler, NEW at \in Points, Goto(at),
           PointOfLine([line |-> Top.line, at |-> at])
    PROVE  PointsMatch'
<1>1. ASSUME NEW p \in Stacks, NEW i \in 1 .. Len(stack'[p])
      PROVE  PointOfLine(stack'[p][i])
  <2>1. i \in 1 .. Len(stack[p])
    BY GotoFrames
  <2>2. CASE p = cur /\ i = Len(stack[p])
    BY <2>1, <2>2, GotoFrames DEF PointOfLine, Top
  <2>3. CASE ~(p = cur /\ i = Len(stack[p]))
    BY <2>1, <2>3, GotoFrames DEF PointOfLine, PointsMatch
  <2>4. QED
    BY <2>2, <2>3
<1>2. QED
  BY <1>1 DEF PointsMatch

\* Every step keeps the points of the handlers to their lines.
LEMMA PointsStep ==
    ASSUME TypeInv, TypeInv', PointsMatch, [Next]_vars
    PROVE  PointsMatch'
<1>1. InHandler => Top.line \in Devices /\ PointOfLine(Top)
  BY TopFrame DEF PointsMatch, TypeInv, Frame, Top
<1>2. CASE Deliver
  <2>1. PICK d \in Requests : stack' = [stack EXCEPT ![cur] =
                                    Append(@, [line |-> Gate(d).handler, at |-> "entry"])]
    BY <1>2 DEF Deliver
  <2> DEFINE f == [line |-> d, at |-> "entry"]
  <2>2. d \in Devices /\ f \in Frame /\ PointOfLine(f)
    BY DEF Requests, TypeInv, Frame, Points, PointOfLine
  <2>3. stack' = [stack EXCEPT ![cur] = Append(@, f)]
    BY <2>1, <2>2, DeviceGates
  <2> HIDE DEF f
  <2>4. ASSUME NEW p \in Stacks, NEW i \in 1 .. Len(stack'[p])
        PROVE  PointOfLine(stack'[p][i])
    <3>1. Len(stack[p]) \in Nat /\ cur \in Stacks
      BY TopFrame DEF TypeInv
    <3>2. CASE i \in 1 .. Len(stack[p])
      BY <2>2, <2>3, <3>2, PushFrames DEF PointsMatch
    <3>3. CASE i \notin 1 .. Len(stack[p])
      <4>1. p = cur /\ i = Len(stack[cur]) + 1
        BY <2>2, <2>3, <3>1, <3>3, PushFrames
      <4>2. QED
        BY <2>2, <2>3, <4>1, PushFrames
    <3>4. QED
      BY <3>2, <3>3
  <2>5. QED
    BY <2>4 DEF PointsMatch
<1>3. CASE Enter \/ Count \/ ReadRegC \/ SendEoi
  <2>1. InHandler /\ \E at \in {"count", "regC", "eoi", "read", "sched", "sti"} :
            Goto(at) /\ PointOfLine([line |-> Top.line, at |-> at])
    BY <1>1, <1>3 DEF Enter, Count, ReadRegC, SendEoi, From, PointOfLine, Devices
  <2>2. QED
    BY <2>1, GotoPoint DEF Points
<1>4. CASE \/ ReadKey \/ SwitchDisplay \/ StartShell \/ EnterShell \/ SwitchStack
           \/ Sti \/ Popfl
  <2>1. InHandler /\ \E at \in {"sti", "switch", "screen", "after", "exec", "tail", "iret"} :
            Goto(at) /\ PointOfLine([line |-> Top.line, at |-> at])
    BY <1>1, <1>4 DEF ReadKey, SwitchDisplay, StartShell, EnterShell, SwitchStack,
                      Sti, Popfl, From, PointOfLine, Devices
  <2>2. QED
    BY <2>1, GotoPoint DEF Points
<1>5. CASE Iret
  <2>1. InHandler /\ stack' = [stack EXCEPT ![cur] = Below(cur)]
    BY <1>5 DEF Iret, From
  <2>2. QED
    BY <2>1, PopFrames, TopFrame DEF PointsMatch
<1>6. CASE Boot \/ Process \/ Device \/ UNCHANGED vars
  <2>1. stack' = stack
    BY <1>6 DEF Boot, Process, Device, Tick, Key, Period, vars, cpuVars
  <2>2. QED
    BY <2>1 DEF PointsMatch
<1>7. QED
  BY <1>2, <1>3, <1>4, <1>5, <1>6 DEF Next, Cpu, Handler

\* While a handler goes on, its stack and the lines of the frames stay.
LEMMA GotoLines ==
    ASSUME TypeInv, InHandler, NEW at \in Points, Goto(at)
    PROVE  \A p \in Stacks : /\ Len(stack'[p]) = Len(stack[p])
                             /\ \A i \in 1 .. Len(stack[p]) :
                                   stack'[p][i].line = stack[p][i].line
BY GotoFrames

\* A handler runs only in the last windows of the boot, and the timer's after it.
LEMMA HandlerAfterBoot ==
    ASSUME TypeInv, BootInv, InHandler
    PROVE  boot \in Windows /\ (Top.line = PIT_IRQ => boot = 21)
<1>1. cur \in Stacks /\ Len(stack[cur]) # 0 /\ Len(stack[cur]) \in 1 .. Len(stack[cur])
  BY TopFrame DEF TypeInv
<1>2. QED
  BY <1>1 DEF BootInv, Windows, Top

\* Every step keeps the order of boot and handlers.
LEMMA BootInvStep ==
    ASSUME TypeInv, TypeInv', PointsMatch, BootInv, MaskInv, [Next]_vars
    PROVE  BootInv'
<1>1. CASE Deliver
  <2>1. PICK d \in Requests : stack' = [stack EXCEPT ![cur] =
                                    Append(@, [line |-> Gate(d).handler, at |-> "entry"])]
    BY <1>1 DEF Deliver
  <2> DEFINE f == [line |-> d, at |-> "entry"]
  <2>2. d \in Devices /\ f \in Frame /\ f.line = d /\ d \notin mask
    BY DEF Requests, TypeInv, Frame, Points, Unmasked, Served
  <2>3. stack' = [stack EXCEPT ![cur] = Append(@, f)]
    BY <2>1, <2>2, DeviceGates
  <2>4. /\ boot \in (IF cur = 0 THEN {18, 21} ELSE {21})
        /\ d = PIT_IRQ => boot = 21
    <3>1. boot \in Windows /\ (cur # 0 => boot = 21)
      BY <1>1 DEF Deliver, BootInv, Windows
    <3>2. QED
      BY <2>2, <3>1 DEF MaskInv, Windows, Devices
  <2> HIDE DEF f
  <2>5. /\ \A p \in Stacks : Len(stack'[p]) = IF p = cur THEN Len(stack[p]) + 1
                                              ELSE Len(stack[p])
        /\ \A p \in Stacks : \A i \in 1 .. Len(stack[p]) : stack'[p][i] = stack[p][i]
        /\ stack'[cur][Len(stack[cur]) + 1] = f
        /\ cur \in Stacks /\ \A p \in Stacks : Len(stack[p]) \in Nat
    BY <2>2, <2>3, PushFrames, TopFrame DEF TypeInv
  <2>6. boot' = boot /\ cur' = cur /\ iflag' = FALSE
    <3>1. iflag' = FlagBehind(d) \/ \E e \in Requests : iflag' = FlagBehind(e)
      BY <1>1 DEF Deliver
    <3>2. Requests \subseteq Devices
      BY DEF Requests, TypeInv
    <3>3. QED
      BY <1>1, <3>1, <3>2, DeviceGates DEF Deliver
  <2>7. \A p \in Stacks : Len(stack'[p]) # 0 => boot \in (IF p = 0 THEN {18, 21} ELSE {21})
    BY <2>4, <2>5 DEF BootInv
  <2>8. ASSUME NEW p \in Stacks, NEW i \in 1 .. Len(stack'[p]),
               stack'[p][i].line = PIT_IRQ
        PROVE  boot = 21
    <3>1. CASE i \in 1 .. Len(stack[p])
      BY <2>5, <2>8, <3>1 DEF BootInv
    <3>2. CASE i \notin 1 .. Len(stack[p])
      BY <2>2, <2>4, <2>5, <2>8, <3>2
    <3>3. QED
      BY <3>1, <3>2
  <2>9. QED
    BY <2>6, <2>7, <2>8 DEF BootInv
<1>2. CASE Boot
  <2>1. /\ cur = 0 /\ boot \in 1 .. 20 /\ boot' = boot + 1 /\ cur' = cur
        /\ stack' = stack
    BY <1>2, BootSteps DEF Boot
  <2>2. \A p \in Stacks : Len(stack[p]) = 0
    <3>1. Len(stack[0]) = 0
      BY <1>2, <2>1, TopFrame DEF Boot
    <3>2. QED
      BY <2>1, <3>1 DEF BootInv
  <2>3. iflag' => boot' \in Windows
    <3>1. CASE BootOrder[boot] = "i8259_init"
      <4>1. boot = 3 /\ iflag' = iflag
        BY <1>2, <2>1, <3>1, BootSteps DEF Boot, i8259_init
      <4>2. ~iflag
        BY <2>1, <4>1 DEF BootInv, Windows
      <4>3. QED
        BY <4>1, <4>2
    <3>2. CASE BootOrder[boot] # "i8259_init"
      <4>1. iflag' = FlagAfter(BootOrder[boot])
        BY <1>2, <3>2 DEF Boot
      <4>2. CASE BootOrder[boot] = "sti"
        <5>1. boot \in {4, 8, 11, 17, 20}
          BY <2>1, <4>2, BootSteps
        <5>2. QED
          BY <2>1, <5>1 DEF Windows
      <4>3. CASE BootOrder[boot] = "restore"
        BY <4>1, <4>3 DEF FlagAfter
      <4>4. CASE BootOrder[boot] \notin {"sti", "restore"}
        <5>1. iflag' = iflag
          BY <4>1, <4>4 DEF FlagAfter
        <5>2. boot \notin Windows
          BY <2>1, <4>4, BootSteps DEF Windows
        <5>3. QED
          BY <2>1, <5>1, <5>2 DEF BootInv
      <4>5. QED
        BY <4>2, <4>3, <4>4
    <3>3. QED
      BY <3>1, <3>2
  <2>4. QED
    BY <2>1, <2>2, <2>3 DEF BootInv
<1>3. CASE Process
  BY <1>3, BootSteps DEF Process, BootInv, Windows
<1>4. CASE EnterShell \/ SwitchStack
  <2>1. /\ InHandler /\ Goto("sti") /\ Top.line = PIT_IRQ /\ boot' = boot
    <3>1. InHandler /\ Top.at \in {"exec", "sched"} /\ Goto("sti") /\ boot' = boot
      BY <1>4 DEF EnterShell, SwitchStack, From
    <3>2. PointOfLine(Top)
      BY <3>1, TopFrame DEF PointsMatch, TypeInv, Top
    <3>3. QED
      BY <3>1, <3>2 DEF PointOfLine
  <2>2. boot = 21
    BY <2>1, HandlerAfterBoot
  <2>3. QED
    BY <2>1, <2>2 DEF BootInv, Windows
<1>5. CASE \/ Enter \/ Count \/ ReadRegC \/ SendEoi \/ ReadKey \/ SwitchDisplay
           \/ StartShell \/ Sti \/ Popfl
  <2>1. /\ InHandler /\ boot' = boot /\ cur' = cur
        /\ \E at \in {"count", "regC", "eoi", "read", "sched", "sti", "switch",
                      "screen", "after", "exec", "tail", "iret"} : Goto(at)
    BY <1>5 DEF Enter, Count, ReadRegC, SendEoi, ReadKey, SwitchDisplay, StartShell,
                Sti, Popfl, From
  <2>2. \A p \in Stacks : /\ Len(stack'[p]) = Len(stack[p])
                          /\ \A i \in 1 .. Len(stack[p]) :
                                stack'[p][i].line = stack[p][i].line
    BY <2>1, GotoLines DEF Points
  <2>3. boot \in Windows
    BY <2>1, HandlerAfterBoot
  <2>4. QED
    BY <2>1, <2>2, <2>3 DEF BootInv
<1>6. CASE Iret
  <2>1. /\ InHandler /\ boot' = boot /\ cur' = cur
        /\ stack' = [stack EXCEPT ![cur] = Below(cur)]
    BY <1>6 DEF Iret, From
  <2>2. boot \in Windows
    BY <2>1, HandlerAfterBoot
  <2>3. \A p \in Stacks : /\ Len(stack'[p]) # 0 => Len(stack[p]) # 0
                          /\ 1 .. Len(stack'[p]) \subseteq 1 .. Len(stack[p])
                          /\ \A i \in 1 .. Len(stack'[p]) : stack'[p][i] = stack[p][i]
    BY <2>1, PopFrames, TopFrame
  <2>4. QED
    BY <2>1, <2>2, <2>3 DEF BootInv
<1>7. CASE Device \/ UNCHANGED vars
  <2>1. stack' = stack /\ boot' = boot /\ cur' = cur /\ iflag' = iflag
    BY <1>7 DEF Device, Tick, Key, Period, vars, cpuVars
  <2>2. QED
    BY <2>1 DEF BootInv
<1>8. QED
  BY <1>1, <1>2, <1>3, <1>4, <1>5, <1>6, <1>7 DEF Next, Cpu, Handler

\* Every step keeps the masks and devices in step with the boot.
LEMMA MaskStep ==
    ASSUME TypeInv, MaskInv, QuietBefore, [Next]_vars
    PROVE  MaskInv' /\ QuietBefore'
<1>1. CASE Boot
  <2>1. boot \in 1 .. 20 /\ boot' = boot + 1 /\ full' = full /\ irqf' = irqf
    BY <1>1, BootSteps DEF Boot, i8259_init, deviceVars
  <2>2. CASE BootOrder[boot] = "i8259_init"
    <3>1. boot = 3 /\ mask' = Lines \ {SLAVE_IRQ} /\ pie' = pie
      BY <1>1, <2>1, <2>2, BootSteps DEF Boot, i8259_init, deviceVars
    <3>2. {RTC_IRQ, KEYBOARD_IRQ, PIT_IRQ} \subseteq mask'
      BY <3>1 DEF Lines, Devices, SLAVE_IRQ, RTC_IRQ, KEYBOARD_IRQ, PIT_IRQ
    <3>3. QED
      BY <2>1, <3>1, <3>2 DEF MaskInv, QuietBefore
  <2>3. CASE BootOrder[boot] # "i8259_init"
    <3>1. /\ mask' = mask \ enabled(BootOrder[boot]) /\ boot # 3
          /\ pie' = (pie \/ BootOrder[boot] = "rtc_init")
      BY <1>1, <2>1, <2>3, BootSteps DEF Boot
    <3>2. MaskInv'
      <4>1. /\ boot # 13 => RTC_IRQ \notin enabled(BootOrder[boot])
            /\ boot # 14 => KEYBOARD_IRQ \notin enabled(BootOrder[boot])
            /\ boot # 19 => PIT_IRQ \notin enabled(BootOrder[boot])
        BY <2>1, BootSteps DEF enabled, RTC_IRQ, KEYBOARD_IRQ, PIT_IRQ
      <4>2. QED
        BY <2>1, <3>1, <4>1 DEF MaskInv
    <3>3. QuietBefore'
      <4>1. CASE boot = 7
        BY <2>1, <4>1 DEF QuietBefore
      <4>2. CASE boot # 7
        <5>1. BootOrder[boot] # "rtc_init"
          BY <2>1, <4>2, BootSteps
        <5>2. pie' = pie
          BY <3>1, <5>1 DEF TypeInv
        <5>3. QED
          BY <2>1, <5>2 DEF QuietBefore
      <4>3. QED
        BY <4>1, <4>2
    <3>4. QED
      BY <3>2, <3>3
  <2>4. QED
    BY <2>2, <2>3
<1>2. CASE Key
  <2>1. PICK i \in 1 .. boot - 1 : BootOrder[i] = "i8259_init"
    BY <1>2 DEF Key, Done
  <2>2. boot > 3
    BY <2>1, BootSteps DEF TypeInv
  <2>3. QED
    BY <1>2, <2>2 DEF Key, MaskInv, QuietBefore
<1>3. CASE Period
  BY <1>3 DEF Period, MaskInv, QuietBefore
<1>4. CASE Deliver \/ Process \/ Handler \/ Tick \/ UNCHANGED vars
  <2>1. mask' = mask /\ boot' = boot /\ pie' = pie
    BY <1>4 DEF Deliver, Process, Handler, Enter, Count, ReadRegC, SendEoi, ReadKey,
                SwitchDisplay, StartShell, EnterShell, SwitchStack, Sti, Popfl, Iret,
                Tick, vars, deviceVars
  <2>2. (irqf' => irqf) /\ (full' => full)
    <3>1. CASE ReadRegC
      <4>1. irqf' = FALSE /\ full' = full
        BY <3>1 DEF ReadRegC, AfterRegC
      <4>2. QED
        BY <4>1
    <3>2. CASE ReadKey
      <4>1. irqf' = irqf /\ full' = FALSE
        BY <3>2 DEF ReadKey
      <4>2. QED
        BY <4>1
    <3>3. CASE ~ReadRegC /\ ~ReadKey
      <4>1. irqf' = irqf /\ full' = full
        BY <1>4, <3>3 DEF Deliver, Process, Handler, Enter, Count, SendEoi,
                SwitchDisplay, StartShell, EnterShell, SwitchStack, Sti, Popfl, Iret,
                Tick, vars, deviceVars
      <4>2. QED
        BY <4>1
    <3>4. QED
      BY <3>1, <3>2, <3>3
  <2>3. MaskInv'
    BY <2>1 DEF MaskInv
  <2>4. QuietBefore'
    BY <2>1, <2>2, Zenon DEF QuietBefore
  <2>5. QED
    BY <2>3, <2>4
<1>5. QED
  BY <1>1, <1>2, <1>3, <1>4 DEF Next, Cpu, Device

-----------------------------------------------------------------------------
(***************************************************************************)
(* Edges                                                                   *)
(***************************************************************************)

\* The request of a device is latched or its handler is on the way.
Pending(d, S) == d \in irr \/ On(d, S)

\* A handler on the way to its point stays so while it goes on within S.
LEMMA GotoKeepsOn ==
    ASSUME TypeInv, InHandler, NEW at \in Points, Goto(at), NEW d, NEW S, On(d, S),
           Top.line = d /\ Top.at \in S => at \in S
    PROVE  On(d, S)'
<1>0. PICK p \in Stacks : \E i \in 1 .. Len(stack[p]) :
          stack[p][i].line = d /\ stack[p][i].at \in S
  BY DEF On
<1>1. PICK i \in 1 .. Len(stack[p]) : stack[p][i].line = d /\ stack[p][i].at \in S
  BY <1>0
<1>2. i \in 1 .. Len(stack'[p]) /\ stack'[p][i].line = d
  BY <1>1, GotoFrames
<1>3. stack'[p][i].at \in S
  <2>1. CASE p = cur /\ i = Len(stack[p])
    BY <1>1, <2>1, GotoFrames DEF Top
  <2>2. CASE ~(p = cur /\ i = Len(stack[p]))
    BY <1>1, <2>2, GotoFrames
  <2>3. QED
    BY <2>1, <2>2
<1>4. QED
  BY <1>2, <1>3 DEF On

\* Delivery moves a request from irr to a frame on the way, and a return takes
\* a frame that is past S; nothing else outside the handlers loses a request,
\* but for the set-up of the controllers.
LEMMA OthersKeepPending ==
    ASSUME TypeInv, NEW d, NEW S, "entry" \in S, "iret" \notin S, Pending(d, S),
           \/ Deliver \/ Iret \/ Process \/ Device \/ UNCHANGED vars
           \/ Boot /\ boot # 3
    PROVE  Pending(d, S)'
<1>1. CASE Deliver
  <2>1. PICK e \in Requests :
            /\ irr' = irr \ {e}
            /\ stack' = [stack EXCEPT ![cur] =
                            Append(@, [line |-> Gate(e).handler, at |-> "entry"])]
    BY <1>1 DEF Deliver
  <2> DEFINE f == [line |-> e, at |-> "entry"]
  <2>2. e \in Devices /\ f \in Frame /\ f.line = e /\ f.at = "entry"
    BY DEF Requests, TypeInv, Frame, Points
  <2>3. stack' = [stack EXCEPT ![cur] = Append(@, f)]
    BY <2>1, <2>2, DeviceGates
  <2> HIDE DEF f
  <2>4. /\ \A p \in Stacks : Len(stack'[p]) = IF p = cur THEN Len(stack[p]) + 1
                                              ELSE Len(stack[p])
        /\ \A p \in Stacks : \A i \in 1 .. Len(stack[p]) : stack'[p][i] = stack[p][i]
        /\ stack'[cur][Len(stack[cur]) + 1] = f
        /\ cur \in Stacks /\ \A p \in Stacks : Len(stack[p]) \in Nat
    BY <2>2, <2>3, PushFrames, TopFrame DEF TypeInv
  <2>5. CASE d = e
    <3>1. Len(stack[cur]) + 1 \in 1 .. Len(stack'[cur])
      BY <2>4
    <3>2. QED
      BY <2>2, <2>4, <2>5, <3>1 DEF Pending, On
  <2>6. CASE d # e /\ d \in irr
    BY <2>1, <2>6 DEF Pending
  <2>7. CASE On(d, S)
    <3>0. PICK p \in Stacks : \E i \in 1 .. Len(stack[p]) :
              stack[p][i].line = d /\ stack[p][i].at \in S
      BY <2>7 DEF On
    <3>1. PICK i \in 1 .. Len(stack[p]) : stack[p][i].line = d /\ stack[p][i].at \in S
      BY <3>0
    <3>2. i \in 1 .. Len(stack'[p]) /\ stack'[p][i] = stack[p][i]
      BY <2>4, <3>1
    <3>3. QED
      BY <3>1, <3>2 DEF Pending, On
  <2>8. QED
    BY <2>5, <2>6, <2>7 DEF Pending
<1>2. CASE Iret
  <2>1. InHandler /\ Top.at = "iret" /\ stack' = [stack EXCEPT ![cur] = Below(cur)] /\ irr' = irr
    BY <1>2 DEF Iret, From
  <2>2. CASE d \in irr
    BY <2>1, <2>2 DEF Pending
  <2>3. CASE On(d, S)
    <3>0. PICK p \in Stacks : \E i \in 1 .. Len(stack[p]) :
              stack[p][i].line = d /\ stack[p][i].at \in S
      BY <2>3 DEF On
    <3>1. PICK i \in 1 .. Len(stack[p]) : stack[p][i].line = d /\ stack[p][i].at \in S
      BY <3>0
    <3>2. ~(p = cur /\ i = Len(stack[p]))
      BY <2>1, <3>1 DEF Top
    <3>3. i \in 1 .. Len(stack'[p]) /\ stack'[p][i] = stack[p][i]
      <4>1. /\ \A q \in Stacks : Len(stack'[q]) = IF q = cur THEN Len(stack[q]) - 1
                                                  ELSE Len(stack[q])
            /\ \A q \in Stacks : \A j \in 1 .. Len(stack'[q]) : stack'[q][j] = stack[q][j]
        BY <2>1, PopFrames
      <4>2. Len(stack[p]) \in Nat
        BY TopFrame
      <4>3. i \in 1 .. Len(stack'[p])
        BY <3>2, <4>1, <4>2
      <4>4. QED
        BY <4>1, <4>3
    <3>4. QED
      BY <3>1, <3>3 DEF Pending, On
  <2>4. QED
    BY <2>2, <2>3 DEF Pending
<1>3. CASE Process \/ Device \/ UNCHANGED vars \/ (Boot /\ boot # 3)
  <2>1. stack' = stack /\ irr \subseteq irr'
    <3>1. CASE Boot /\ boot # 3
      BY <3>1, BootSteps DEF Boot
    <3>2. CASE Process \/ Device \/ UNCHANGED vars
      BY <3>2 DEF Process, Device, Tick, Key, Period, vars, cpuVars
    <3>3. QED
      BY <1>3, <3>1, <3>2
  <2>2. QED
    BY <2>1 DEF Pending, On
<1>4. QED
  BY <1>1, <1>2, <1>3

\* A handler goes on and keeps the request, which irr does not lose then.
LEMMA GotoKeepsPending ==
    ASSUME TypeInv, InHandler, NEW at \in Points, Goto(at), irr' = irr,
           NEW d, NEW S, Pending(d, S),
           Top.line = d /\ Top.at \in S => at \in S
    PROVE  Pending(d, S)'
BY GotoKeepsOn DEF Pending

KeyPoints == {"entry", "eoi", "read"}
RtcPoints == {"entry", "count", "regC"}

\* Before port 0x60 is read, the keyboard's handler is on its way to it.
LEMMA KeyPendingStep ==
    ASSUME TypeInv, [Next]_vars, ~(Boot /\ boot = 3), ~ReadKey,
           Pending(KEYBOARD_IRQ, KeyPoints)
    PROVE  Pending(KEYBOARD_IRQ, KeyPoints)'
<1>1. CASE Enter \/ SendEoi
  <2>1. InHandler /\ irr' = irr /\ \E at \in {"eoi", "count", "sti", "read", "sched"} :
            Goto(at) /\ (Top.line = KEYBOARD_IRQ => at \in KeyPoints)
    BY <1>1 DEF Enter, SendEoi, From, KeyPoints, KEYBOARD_IRQ, RTC_IRQ
  <2>2. QED
    BY <2>1, GotoKeepsPending DEF Points
<1>2. CASE \/ Count \/ ReadRegC \/ SwitchDisplay \/ StartShell \/ EnterShell
           \/ SwitchStack \/ Sti \/ Popfl
  <2>1. /\ InHandler /\ irr' = irr /\ Top.at \notin KeyPoints
        /\ \E at \in {"regC", "eoi", "sti", "screen", "after", "exec", "tail", "iret"} :
              Goto(at)
    BY <1>2 DEF Count, ReadRegC, SwitchDisplay, StartShell, EnterShell, SwitchStack,
                Sti, Popfl, From, KeyPoints
  <2>2. QED
    BY <2>1, GotoKeepsPending DEF Points
<1>3. CASE Deliver \/ Iret \/ Boot \/ Process \/ Device \/ UNCHANGED vars
  BY <1>3, OthersKeepPending DEF KeyPoints
<1>4. QED
  BY <1>1, <1>2, <1>3 DEF Next, Cpu, Handler

\* Before register C is read, the RTC's handler is on its way to it.
LEMMA RtcPendingStep ==
    ASSUME TypeInv, [Next]_vars, ~(Boot /\ boot = 3), ~ReadRegC,
           Pending(RTC_IRQ, RtcPoints)
    PROVE  Pending(RTC_IRQ, RtcPoints)'
<1>1. CASE Enter \/ Count
  <2>1. InHandler /\ irr' = irr /\ \E at \in {"eoi", "count", "regC"} :
            Goto(at) /\ (Top.line = RTC_IRQ => at \in RtcPoints)
    BY <1>1 DEF Enter, Count, From, RtcPoints
  <2>2. QED
    BY <2>1, GotoKeepsPending DEF Points
<1>2. CASE \/ SendEoi \/ ReadKey \/ SwitchDisplay \/ StartShell \/ EnterShell
           \/ SwitchStack \/ Sti \/ Popfl
  <2>1. /\ InHandler /\ irr' = irr /\ Top.at \notin RtcPoints
        /\ \E at \in {"sti", "read", "sched", "switch", "screen", "after", "exec",
                      "tail", "iret"} : Goto(at)
    BY <1>2 DEF SendEoi, ReadKey, SwitchDisplay, StartShell, EnterShell, SwitchStack,
                Sti, Popfl, From, RtcPoints
  <2>2. QED
    BY <2>1, GotoKeepsPending DEF Points
<1>3. CASE Deliver \/ Iret \/ Boot \/ Process \/ Device \/ UNCHANGED vars
  BY <1>3, OthersKeepPending DEF RtcPoints
<1>4. QED
  BY <1>1, <1>2, <1>3 DEF Next, Cpu, Handler

\* Every step keeps the edges.
LEMMA EdgesStep ==
    ASSUME TypeInv, QuietBefore, EdgesKept, [Next]_vars
    PROVE  EdgesKept'
<1>1. full' => Pending(KEYBOARD_IRQ, KeyPoints)'
  <2>1. CASE ReadKey
    BY <2>1 DEF ReadKey
  <2>2. CASE Key
    BY <2>2 DEF Key, Pending
  <2>3. CASE ~ReadKey /\ ~Key
    <3>1. full' = full
      BY <2>3 DEF Next, Cpu, Deliver, Boot, i8259_init, Process, Handler, Enter, Count,
            ReadRegC, SendEoi, SwitchDisplay, StartShell, EnterShell, SwitchStack, Sti,
            Popfl, Iret, Device, Tick, Period, vars, deviceVars
    <3>2. full => ~(boot = 3) /\ Pending(KEYBOARD_IRQ, KeyPoints)
      BY DEF QuietBefore, EdgesKept, Pending, KeyPoints
    <3>3. QED
      BY <2>3, <3>1, <3>2, KeyPendingStep
  <2>4. QED
    BY <2>1, <2>2, <2>3
<1>2. irqf' => Pending(RTC_IRQ, RtcPoints)'
  <2>1. CASE ReadRegC
    BY <2>1 DEF ReadRegC, AfterRegC
  <2>2. CASE Period
    BY <2>2 DEF Period, Pending
  <2>3. CASE ~ReadRegC /\ ~Period
    <3>1. irqf' = irqf
      BY <2>3 DEF Next, Cpu, Deliver, Boot, i8259_init, Process, Handler, Enter, Count,
            SendEoi, ReadKey, SwitchDisplay, StartShell, EnterShell, SwitchStack, Sti,
            Popfl, Iret, Device, Tick, Key, vars, deviceVars
    <3>2. irqf => ~(boot = 3) /\ Pending(RTC_IRQ, RtcPoints)
      BY DEF QuietBefore, EdgesKept, Pending, RtcPoints
    <3>3. QED
      BY <2>3, <3>1, <3>2, RtcPendingStep
  <2>4. QED
    BY <2>1, <2>2, <2>3
<1>3. QED
  BY <1>1, <1>2 DEF EdgesKept, Pending, KeyPoints, RtcPoints

-----------------------------------------------------------------------------
(***************************************************************************)
(* The invariant and what follows from it                                  *)
(***************************************************************************)

\* The invariant holds at first: nothing runs and nothing is due.
LEMMA InvInit == Init => IInv
<1>1. SUFFICES ASSUME Init PROVE IInv
  OBVIOUS
<1>2. TypeInv
  BY <1>1, TypeInit
<1>3. \A p \in Stacks : Len(stack[p]) = 0
  BY <1>1 DEF Init
<1>4. ~InHandler
  BY <1>2, <1>1, <1>3 DEF Init, InHandler, TypeInv
<1>5. ServiceMatchesStack /\ Shielded /\ PointsMatch
  BY <1>1, <1>3, <1>4 DEF Init, ServiceMatchesStack, Shielded, PointsMatch
<1>6. BootInv
  BY <1>1, <1>3 DEF Init, BootInv
<1>7. MaskInv /\ QuietBefore /\ EdgesKept
  BY <1>1 DEF Init, MaskInv, QuietBefore, EdgesKept
<1>8. QED
  BY <1>2, <1>5, <1>6, <1>7 DEF IInv

\* And every step keeps it.
LEMMA InvStep == IInv /\ [Next]_vars => IInv'
<1>1. SUFFICES ASSUME IInv, [Next]_vars PROVE IInv'
  OBVIOUS
<1>2. TypeInv'
  BY <1>1, TypeStep DEF IInv
<1>3. ServiceMatchesStack' /\ Shielded'
  BY <1>1, <1>2, ServiceStep DEF IInv
<1>4. PointsMatch'
  BY <1>1, <1>2, PointsStep DEF IInv
<1>5. BootInv'
  BY <1>1, <1>2, BootInvStep DEF IInv
<1>6. MaskInv' /\ QuietBefore'
  BY <1>1, MaskStep DEF IInv
<1>7. EdgesKept'
  BY <1>1, EdgesStep DEF IInv
<1>8. QED
  BY <1>2, <1>3, <1>4, <1>5, <1>6, <1>7 DEF IInv

\* Which steps of entry are behind it, late enough
LEMMA DoneSteps ==
    ASSUME TypeInv, boot >= 18
    PROVE  {"idt_init", "file_system_init", "paging_init", "rtc_counters",
            "terminal_init"} \subseteq Done
<1>1. \A i \in 1 .. 17 : BootOrder[i] \in Done
  BY DEF Done, TypeInv
<1>2. /\ BootOrder[1] = "idt_init" /\ BootOrder[2] = "file_system_init"
      /\ BootOrder[6] = "paging_init" /\ BootOrder[10] = "rtc_counters"
      /\ BootOrder[15] = "terminal_init"
  BY DEF BootOrder
<1>3. QED
  BY <1>1, <1>2

\* A frame on a stack belongs to a device whose needs entry has met.
LEMMA Ready == IInv => HandlersReady
<1>1. SUFFICES ASSUME IInv, NEW p \in Stacks, NEW i \in 1 .. Len(stack[p])
               PROVE  Needs(stack[p][i].line) \subseteq Done
  BY DEF HandlersReady
<1>2. boot >= 18
  <2>1. Len(stack[p]) # 0
    BY <1>1, TopFrame DEF IInv
  <2>2. QED
    BY <1>1, <2>1 DEF IInv, BootInv
<1>3. QED
  BY <1>1, <1>2, DoneSteps DEF IInv, Needs

\* The inductive invariant of the specification (kernel.c, i8259.c, idt.c and
\* the handlers), which the theorems below draw on.
THEOREM InterruptInvariant == Spec => []IInv
BY InvInit, InvStep, PTL DEF Spec

\* Whenever the CPU leaves a handler, for the code it interrupted or for the
\* stack of another terminal, the handler has sent its EOI, and the lines in
\* service are those of the running handler (i8259.c:122-140).
THEOREM AcknowledgeTheorem == Spec => []ServiceMatchesStack
<1>1. IInv => ServiceMatchesStack
  BY DEF IInv
<1>2. QED
  BY <1>1, InterruptInvariant, PTL

\* No handler runs before entry has set up what it uses (kernel.c:147-173).
THEOREM ReadyTheorem == Spec => []HandlersReady
BY Ready, InterruptInvariant, PTL

\* No edge of the keyboard or the RTC is lost once the controllers are set up
\* (keyboard.c:126-135, RTC.c:97-109).
THEOREM EdgesTheorem == Spec => []EdgesKept
<1>1. IInv => EdgesKept
  BY DEF IInv
<1>2. QED
  BY <1>1, InterruptInvariant, PTL

-----------------------------------------------------------------------------
(***************************************************************************)
(* The depth of nesting                                                    *)
(***************************************************************************)

\* Devices that cannot interrupt before a process or entry goes on: their one
\* interrupt since the last such step is being handled or has been.
Spent == recent \ irr

\* Points of the timer's handler behind the scheduler
PastSwitch == {"sti", "tail", "iret"}

\* No two frames of a part of a stack are of the same line.
Distinct(p, from, to) ==
    \A i, j \in from .. to : stack[p][i].line = stack[p][j].line => i = j

\* Frames that a tick has put aside, or that are left of those: at most one per
\* line, and the timer's past the scheduler.
SetAside(p, n) ==
    /\ Distinct(p, 1, n)
    /\ \A i \in 1 .. n : stack[p][i].line = PIT_IRQ => stack[p][i].at \in PastSwitch

\* The first n frames were there when the tick switched to the stack, and the
\* tick is spent; the others are of different spent lines.
Nests(p, n) ==
    /\ SetAside(p, n)
    /\ Distinct(p, n + 1, Len(stack[p]))
    /\ \A i \in n + 1 .. Len(stack[p]) :
          /\ stack[p][i].line \in Spent
          /\ n > 0 => stack[p][i].line # PIT_IRQ
    /\ n > 0 => PIT_IRQ \in Spent

NestInv ==
    /\ \A p \in Stacks : p # cur => SetAside(p, Len(stack[p]))
    /\ \E n \in 0 .. Len(stack[cur]) : Nests(cur, n)

\* Frames that keep their lines, and stay past the scheduler, stay set aside.
LEMMA AsideKept ==
    ASSUME NEW p, NEW n, SetAside(p, n),
           \A i \in 1 .. n : /\ stack'[p][i].line = stack[p][i].line
                             /\ stack[p][i].line = PIT_IRQ /\ stack[p][i].at \in PastSwitch
                                    => stack'[p][i].at \in PastSwitch
    PROVE  SetAside(p, n)'
BY DEF SetAside, Distinct

\* Of different lines there are three, and two beside the timer's.
LEMMA FewLines ==
    ASSUME TypeInv, NEW p \in Stacks, NEW from \in Nat \ {0}, NEW to \in Nat,
           to <= Len(stack[p]), Distinct(p, from, to)
    PROVE  /\ to <= from + 2
           /\ (\A i \in from .. to : stack[p][i].line # PIT_IRQ) => to <= from + 1
<1> DEFINE line(i) == stack[p][i].line
<1>1. \A i \in from .. to : line(i) \in {PIT_IRQ, KEYBOARD_IRQ, RTC_IRQ}
  <2>1. TAKE i \in from .. to
  <2>2. Len(stack[p]) \in Nat
    BY TopFrame
  <2>3. i \in 1 .. Len(stack[p])
    BY <2>2
  <2>4. QED
    BY <2>3, TopFrame DEF Frame, Devices
<1>2. \A i, j \in from .. to : line(i) = line(j) => i = j
  BY DEF Distinct
<1> HIDE DEF line
<1>3. to <= from + 2
  <2>1. SUFFICES ASSUME to >= from + 3 PROVE FALSE
    OBVIOUS
  <2>2. /\ from \in from .. to /\ from + 1 \in from .. to /\ from + 2 \in from .. to
        /\ from + 3 \in from .. to
    BY <2>1
  <2>3. QED
    BY <1>1, <1>2, <2>2
<1>4. ASSUME \A i \in from .. to : line(i) # PIT_IRQ
      PROVE  to <= from + 1
  <2>1. SUFFICES ASSUME to >= from + 2 PROVE FALSE
    OBVIOUS
  <2>2. from \in from .. to /\ from + 1 \in from .. to /\ from + 2 \in from .. to
    BY <2>1
  <2>3. QED
    BY <1>1, <1>2, <1>4, <2>2
<1>5. QED
  BY <1>3, <1>4 DEF line

\* Three handlers that a tick put aside and two on top of them are the most.
LEMMA FiveFrames ==
    ASSUME TypeInv, NestInv, NEW p \in Stacks
    PROVE  Len(stack[p]) <= 5
<1>1. Len(stack[p]) \in Nat
  BY TopFrame
<1>2. CASE p # cur
  <2>1. Distinct(p, 1, Len(stack[p]))
    BY <1>2 DEF NestInv, SetAside
  <2>2. Len(stack[p]) <= 1 + 2
    BY <1>1, <2>1, FewLines
  <2>3. QED
    BY <1>1, <2>2
<1>3. CASE p = cur
  <2>1. PICK n \in 0 .. Len(stack[p]) : Nests(p, n)
    BY <1>3 DEF NestInv
  <2>2. /\ Distinct(p, 1, n) /\ Distinct(p, n + 1, Len(stack[p]))
        /\ n > 0 => \A i \in n + 1 .. Len(stack[p]) : stack[p][i].line # PIT_IRQ
    BY <2>1 DEF Nests, SetAside
  <2>3. n \in Nat /\ n <= Len(stack[p]) /\ n + 1 \in Nat \ {0}
    BY <1>1
  <2>4. n <= 1 + 2
    BY <2>2, <2>3, FewLines
  <2>5. Len(stack[p]) <= (n + 1) + 2
    BY <1>1, <2>2, <2>3, FewLines
  <2>6. n > 0 => Len(stack[p]) <= (n + 1) + 1
    BY <1>1, <2>2, <2>3, FewLines
  <2>7. QED
    BY <1>1, <2>3, <2>4, <2>5, <2>6
<1>4. QED
  BY <1>2, <1>3

\* A handler that goes on leaves the nesting as it is.
LEMMA NestGoto ==
    ASSUME TypeInv, NestInv, InHandler, NEW at \in Points, Goto(at),
           UNCHANGED <<cur, recent, irr>>,
           Top.line = PIT_IRQ /\ Top.at \in PastSwitch => at \in PastSwitch
    PROVE  NestInv'
<1>1. PICK c : c = cur
  OBVIOUS
<1>2. /\ c \in Stacks /\ Len(stack[c]) \in Nat /\ cur' = c
  BY <1>1, TopFrame DEF TypeInv
<1>3. /\ \A p \in Stacks : Len(stack'[p]) = Len(stack[p])
      /\ \A p \in Stacks : \A i \in 1 .. Len(stack[p]) :
            /\ stack'[p][i].line = stack[p][i].line
            /\ stack'[p][i].at = IF p = c /\ i = Len(stack[p]) THEN at
                                 ELSE stack[p][i].at
  BY <1>1, GotoFrames
<1>4. ASSUME NEW p \in Stacks, NEW n \in 0 .. Len(stack[p]), SetAside(p, n)
      PROVE  SetAside(p, n)'
  <2>1. \A i \in 1 .. n : i \in 1 .. Len(stack[p])
    BY TopFrame
  <2>2. \A i \in 1 .. n : stack[p][i].line = PIT_IRQ /\ stack[p][i].at \in PastSwitch
                              => stack'[p][i].at \in PastSwitch
    BY <1>1, <1>3, <2>1 DEF Top
  <2>3. QED
    BY <1>3, <1>4, <2>1, <2>2, AsideKept
<1>5. ASSUME NEW p \in Stacks, p # c
      PROVE  SetAside(p, Len(stack[p]))'
  <2>1. PICK n : n = Len(stack[p])
    OBVIOUS
  <2>2. n \in 0 .. Len(stack[p]) /\ Len(stack'[p]) = n
    BY <1>3, <2>1, TopFrame
  <2>3. SetAside(p, n)'
    BY <1>1, <1>4, <1>5, <2>1, <2>2 DEF NestInv
  <2>4. QED
    BY <2>2, <2>3
<1>6. PICK n \in 0 .. Len(stack[c]) : Nests(c, n)
  BY <1>1 DEF NestInv
<1>7. Nests(c, n)'
  <2>1. SetAside(c, n)'
    BY <1>2, <1>4, <1>6 DEF Nests
  <2>2. \A i \in n + 1 .. Len(stack[c]) : i \in 1 .. Len(stack[c])
    BY <1>2
  <2>3. Distinct(c, n + 1, Len(stack[c]))'
    BY <1>2, <1>3, <1>6, <2>2 DEF Nests, Distinct
  <2>4. Spent' = Spent
    BY DEF Spent
  <2>5. QED
    BY <1>2, <1>3, <1>6, <2>1, <2>2, <2>3, <2>4 DEF Nests
<1>8. QED
  BY <1>2, <1>3, <1>5, <1>6, <1>7 DEF NestInv

\* A device whose handler starts was not spent, and is now.
LEMMA NestDeliver ==
    ASSUME TypeInv, NestInv, Deliver
    PROVE  NestInv'
<1>1. PICK c, m : c = cur /\ m = Len(stack[cur])
  OBVIOUS
<1>2. c \in Stacks /\ m \in Nat /\ cur' = c
  BY <1>1, TopFrame DEF TypeInv, Deliver
<1>3. PICK d \in Requests :
          /\ stack' = [stack EXCEPT ![cur] =
                          Append(@, [line |-> Gate(d).handler, at |-> "entry"])]
          /\ irr' = irr \ {d} /\ recent' = recent \cup {d}
  BY DEF Deliver
<1>4. d \in irr /\ d \in Devices
  BY DEF Requests, TypeInv
<1> DEFINE f == [line |-> d, at |-> "entry"]
<1>5. stack' = [stack EXCEPT ![cur] = Append(@, f)] /\ f \in Frame /\ f.line = d
  BY <1>3, <1>4, DeviceGates DEF Frame, Points
<1>6. d \notin Spent /\ Spent' = Spent \cup {d}
  BY <1>3, <1>4 DEF Spent
<1> HIDE DEF f
<1>7. /\ \A p \in Stacks : Len(stack'[p]) = IF p = c THEN m + 1 ELSE Len(stack[p])
      /\ \A p \in Stacks : \A i \in 1 .. Len(stack[p]) : stack'[p][i] = stack[p][i]
      /\ stack'[c][m + 1] = f
  BY <1>1, <1>5, PushFrames
<1>8. ASSUME NEW p \in Stacks, NEW n \in 0 .. Len(stack[p]), SetAside(p, n)
      PROVE  SetAside(p, n)'
  <2>1. \A i \in 1 .. n : i \in 1 .. Len(stack[p])
    BY TopFrame
  <2>2. QED
    BY <1>7, <1>8, <2>1, AsideKept
<1>9. ASSUME NEW p \in Stacks, p # c
      PROVE  SetAside(p, Len(stack[p]))'
  <2>1. PICK n : n = Len(stack[p])
    OBVIOUS
  <2>2. n \in 0 .. Len(stack[p]) /\ Len(stack'[p]) = n
    BY <1>7, <1>9, <2>1, TopFrame
  <2>3. SetAside(p, n)'
    BY <1>1, <1>8, <1>9, <2>1, <2>2 DEF NestInv
  <2>4. QED
    BY <2>2, <2>3
<1>10. PICK n \in 0 .. m : Nests(c, n)
  BY <1>1 DEF NestInv
<1>11. Nests(c, n)'
  <2>1. SetAside(c, n)'
    BY <1>1, <1>2, <1>8, <1>10 DEF Nests
  <2>2. ASSUME NEW i \in n + 1 .. m
        PROVE  /\ stack'[c][i].line = stack[c][i].line
               /\ stack[c][i].line \in Spent
               /\ n > 0 => stack[c][i].line # PIT_IRQ
    <3>1. i \in 1 .. Len(stack[c])
      BY <1>1, <1>2
    <3>2. QED
      BY <1>1, <1>2, <1>7, <1>10, <3>1 DEF Nests
  <2>3. stack'[c][m + 1].line = d /\ Len(stack'[c]) = m + 1
    BY <1>2, <1>5, <1>7
  <2>4. \A i \in n + 1 .. m + 1 : i \in n + 1 .. m \/ i = m + 1
    BY <1>2
  <2>5. Distinct(c, n + 1, Len(stack[c]))'
    <3>1. \A i, j \in n + 1 .. m : stack[c][i].line = stack[c][j].line => i = j
      BY <1>1, <1>10 DEF Nests, Distinct
    <3>2. \A i \in n + 1 .. m : stack'[c][i].line # d
      BY <1>6, <2>2
    <3>3. QED
      BY <2>2, <2>3, <2>4, <3>1, <3>2 DEF Distinct
  <2>6. n > 0 => d # PIT_IRQ /\ PIT_IRQ \in Spent
    BY <1>6, <1>10 DEF Nests
  <2>7. QED
    BY <1>6, <2>1, <2>2, <2>3, <2>4, <2>5, <2>6 DEF Nests
<1>12. n \in 0 .. Len(stack'[c])
  BY <1>2, <1>7
<1>13. QED
  BY <1>2, <1>9, <1>11, <1>12 DEF NestInv

\* A handler that returns leaves the frames below it.
LEMMA NestPop ==
    ASSUME TypeInv, NestInv, InHandler, stack' = [stack EXCEPT ![cur] = Below(cur)],
           UNCHANGED <<cur, recent, irr>>
    PROVE  NestInv'
<1>1. PICK c, m : c = cur /\ m = Len(stack[cur])
  OBVIOUS
<1>2. c \in Stacks /\ m \in Nat \ {0} /\ cur' = c
  BY <1>1, TopFrame DEF TypeInv
<1>3. /\ \A p \in Stacks : Len(stack'[p]) = IF p = c THEN m - 1 ELSE Len(stack[p])
      /\ \A p \in Stacks : \A i \in 1 .. Len(stack'[p]) : stack'[p][i] = stack[p][i]
  BY <1>1, PopFrames
<1>4. ASSUME NEW p \in Stacks, NEW n \in 0 .. Len(stack'[p]), SetAside(p, n)
      PROVE  SetAside(p, n)'
  <2>1. Len(stack'[p]) \in Int
    BY <1>2, <1>3, TopFrame
  <2>2. \A i \in 1 .. n : i \in 1 .. Len(stack'[p])
    BY <2>1
  <2>3. QED
    BY <1>3, <1>4, <2>2, AsideKept
<1>5. ASSUME NEW p \in Stacks, p # c
      PROVE  SetAside(p, Len(stack[p]))'
  <2>1. PICK n : n = Len(stack[p])
    OBVIOUS
  <2>2. n \in 0 .. Len(stack'[p]) /\ Len(stack'[p]) = n
    BY <1>3, <1>5, <2>1, TopFrame
  <2>3. SetAside(p, n)'
    BY <1>1, <1>4, <1>5, <2>1, <2>2 DEF NestInv
  <2>4. QED
    BY <2>2, <2>3
<1>6. PICK n \in 0 .. m : Nests(c, n)
  BY <1>1 DEF NestInv
<1>7. PICK k : k = IF n = m THEN m - 1 ELSE n
  OBVIOUS
<1>8. k \in 0 .. m - 1 /\ k <= n /\ Len(stack'[c]) = m - 1
  BY <1>2, <1>3, <1>7
<1>9. SetAside(c, k)
  <2>1. SetAside(c, n) /\ \A i \in 1 .. k : i \in 1 .. n
    BY <1>6, <1>8 DEF Nests
  <2>2. QED
    BY <2>1 DEF SetAside, Distinct
<1>10. Nests(c, k)'
  <2>1. SetAside(c, k)'
    BY <1>2, <1>4, <1>8, <1>9
  <2>2. \A i \in k + 1 .. m - 1 : /\ i \in n + 1 .. m
                                  /\ stack'[c][i] = stack[c][i]
    <3>1. \A i \in k + 1 .. m - 1 : i \in n + 1 .. m /\ i \in 1 .. m - 1
      BY <1>2, <1>7, <1>8
    <3>2. QED
      BY <1>2, <1>3, <1>8, <3>1
  <2>3. Distinct(c, k + 1, Len(stack[c]))'
    <3>1. \A i, j \in n + 1 .. m : stack[c][i].line = stack[c][j].line => i = j
      BY <1>1, <1>6 DEF Nests, Distinct
    <3>2. \A i, j \in k + 1 .. m - 1 : stack'[c][i].line = stack'[c][j].line => i = j
      BY <2>2, <3>1
    <3>3. QED
      BY <1>8, <3>2 DEF Distinct
  <2>4. Spent' = Spent
    BY DEF Spent
  <2>5. k > 0 => n > 0
    BY <1>8
  <2>6. \A i \in k + 1 .. m - 1 : /\ stack'[c][i].line \in Spent
                                  /\ k > 0 => stack'[c][i].line # PIT_IRQ
    BY <1>1, <1>6, <2>2, <2>5 DEF Nests
  <2>7. k > 0 => PIT_IRQ \in Spent
    BY <1>6, <2>5 DEF Nests
  <2>8. QED
    BY <1>8, <2>1, <2>3, <2>4, <2>6, <2>7 DEF Nests
<1>11. QED
  BY <1>2, <1>5, <1>8, <1>10 DEF NestInv

\* A tick that leaves its stack leaves at most one frame per line, and no
\* tick comes before a process goes on.
LEMMA NestSwitch ==
    ASSUME TypeInv, PointsMatch, NestInv, InHandler, Top.at \in {"sched", "exec"},
           Goto("sti"), cur' \in Stacks, UNCHANGED <<recent, irr>>
    PROVE  NestInv'
<1>1. PICK c, m : c = cur /\ m = Len(stack[cur])
  OBVIOUS
<1>2. c \in Stacks /\ m \in Nat \ {0}
  BY <1>1, TopFrame DEF TypeInv
<1>3. /\ \A p \in Stacks : Len(stack'[p]) = Len(stack[p])
      /\ \A p \in Stacks : \A i \in 1 .. Len(stack[p]) :
            /\ stack'[p][i].line = stack[p][i].line
            /\ stack'[p][i].at = IF p = c /\ i = Len(stack[p]) THEN "sti"
                                 ELSE stack[p][i].at
  BY <1>1, GotoFrames DEF Points
<1>4. m \in 1 .. m /\ stack[c][m].line = PIT_IRQ /\ stack[c][m].at \notin PastSwitch
  BY <1>1, <1>2 DEF PointsMatch, PointOfLine, Top, PastSwitch
<1>5. Nests(c, 0) /\ PIT_IRQ \in Spent
  <2>1. PICK n \in 0 .. m : Nests(c, n)
    BY <1>1 DEF NestInv
  <2>2. ~(m \in 1 .. n)
    BY <1>4, <2>1 DEF Nests, SetAside
  <2>3. m \in n + 1 .. m
    BY <1>2, <2>2
  <2>4. n = 0
    BY <1>1, <1>4, <2>1, <2>3 DEF Nests
  <2>5. QED
    BY <1>1, <1>4, <2>1, <2>3, <2>4 DEF Nests
<1>6. SetAside(c, m)'
  <2>1. \A i \in 1 .. m : i \in 0 + 1 .. m
    BY <1>2
  <2>2. \A i, j \in 1 .. m : stack[c][i].line = stack[c][j].line => i = j
    BY <1>1, <1>5, <2>1 DEF Nests, Distinct
  <2>3. \A i \in 1 .. m : stack[c][i].line = PIT_IRQ => i = m
    BY <1>4, <2>2
  <2>4. "sti" \in PastSwitch
    BY DEF PastSwitch
  <2>5. \A i \in 1 .. m : /\ stack'[c][i].line = stack[c][i].line
                          /\ i = m => stack'[c][i].at = "sti"
    BY <1>1, <1>2, <1>3
  <2>6. Distinct(c, 1, m)'
    BY <2>2, <2>5 DEF Distinct
  <2>7. QED
    BY <2>3, <2>4, <2>5, <2>6 DEF SetAside
<1>7. ASSUME NEW p \in Stacks
      PROVE  SetAside(p, Len(stack[p]))'
  <2>1. CASE p = c
    BY <1>1, <1>2, <1>3, <1>6, <2>1
  <2>2. CASE p # c
    <3>1. PICK n : n = Len(stack[p])
      OBVIOUS
    <3>2. SetAside(p, n)
      BY <1>1, <2>2, <3>1 DEF NestInv
    <3>3. SetAside(p, n)'
      BY <1>3, <2>2, <3>1, <3>2, AsideKept
    <3>4. QED
      BY <1>3, <3>1, <3>3
  <2>3. QED
    BY <2>1, <2>2
<1>8. PICK q, n : q = cur' /\ n = Len(stack'[q])
  OBVIOUS
<1>9. q \in Stacks /\ n \in Nat
  BY <1>3, <1>8, TopFrame
<1>10. Nests(q, n)'
  <2>1. SetAside(q, n)'
    BY <1>7, <1>8, <1>9
  <2>2. Spent' = Spent
    BY DEF Spent
  <2>3. \A i \in n + 1 .. n : FALSE
    BY <1>9
  <2>4. QED
    BY <1>5, <1>8, <2>1, <2>2, <2>3 DEF Nests, Distinct
<1>11. QED
  BY <1>7, <1>8, <1>9, <1>10 DEF NestInv

\* Devices, entry and processes leave the stacks alone; entry and a process go
\* on when theirs is empty.
LEMMA NestQuiet ==
    ASSUME TypeInv, NestInv, UNCHANGED <<stack, cur>>, ~InHandler \/ Spent' = Spent
    PROVE  NestInv'
<1>1. PICK c : c = cur
  OBVIOUS
<1>2. c \in Stacks /\ cur' = c
  BY <1>1 DEF TypeInv
<1>3. \A p \in Stacks : p # c => SetAside(p, Len(stack[p]))'
  BY <1>1 DEF NestInv, SetAside, Distinct
<1>4. \E n \in 0 .. Len(stack'[c]) : Nests(c, n)'
  <2>1. CASE ~InHandler
    <3>1. Len(stack'[c]) = 0
      BY <1>1, <2>1, TopFrame
    <3>2. (\A i \in 1 .. 0 : FALSE) /\ (\A i \in 0 + 1 .. 0 : FALSE)
      OBVIOUS
    <3>3. Nests(c, 0)'
      BY <3>1, <3>2 DEF Nests, SetAside, Distinct
    <3>4. QED
      BY <3>1, <3>3
  <2>2. CASE Spent' = Spent
    <3>1. PICK n \in 0 .. Len(stack[c]) : Nests(c, n)
      BY <1>1 DEF NestInv
    <3>2. Nests(c, n)'
      BY <2>2, <3>1 DEF Nests, SetAside, Distinct
    <3>3. QED
      BY <3>1, <3>2
  <2>3. QED
    BY <2>1, <2>2
<1>5. QED
  BY <1>2, <1>3, <1>4 DEF NestInv

LEMMA NestStart == Init => NestInv
<1> SUFFICES ASSUME Init PROVE NestInv
  OBVIOUS
<1>1. cur \in Stacks /\ \A p \in Stacks : Len(stack[p]) = 0
  BY InterruptsAssumption DEF Init, Stacks
<1>2. (\A i \in 1 .. 0 : FALSE) /\ (\A i \in 0 + 1 .. 0 : FALSE)
  OBVIOUS
<1>3. \A p \in Stacks : SetAside(p, Len(stack[p]))
  BY <1>1, <1>2 DEF SetAside, Distinct
<1>4. Nests(cur, 0)
  BY <1>1, <1>2 DEF Nests, SetAside, Distinct
<1>5. QED
  BY <1>1, <1>3, <1>4 DEF NestInv

LEMMA NestStep ==
    ASSUME TypeInv, PointsMatch, NestInv, [Next]_vars
    PROVE  NestInv'
<1>1. CASE Deliver
  BY <1>1, NestDeliver
<1>2. CASE Boot \/ Process
  BY <1>2, NestQuiet DEF Boot, Process
<1>3. CASE Device
  <2>1. Spent' = Spent
    BY <1>3 DEF Device, Tick, Key, Period, Slow, Spent
  <2>2. QED
    BY <1>3, <2>1, NestQuiet DEF Device, Tick, Key, Period, cpuVars
<1>4. CASE UNCHANGED vars
  BY <1>4, NestQuiet DEF vars, cpuVars, Spent
<1>5. CASE Iret
  BY <1>5, NestPop DEF Iret, From
<1>6. CASE EnterShell
  <2>1. cur' \in Stacks
    BY <1>6 DEF EnterShell, TypeInv
  <2>2. QED
    BY <1>6, <2>1, NestSwitch DEF EnterShell, From
<1>7. CASE SwitchStack
  <2>1. cur' \in Stacks
    BY <1>7, NextTermType DEF SwitchStack, Stacks, Terms
  <2>2. QED
    BY <1>7, <2>1, NestSwitch DEF SwitchStack, From
<1>8. CASE Sti
  BY <1>8, NestGoto DEF Sti, From, Points, PastSwitch
<1>9. CASE Popfl
  BY <1>9, NestGoto DEF Popfl, From, Points, PastSwitch
<1>10. CASE Enter \/ Count \/ ReadRegC \/ SendEoi \/ ReadKey \/ SwitchDisplay \/ StartShell
  <2>1. /\ InHandler /\ Top.at \notin PastSwitch
        /\ UNCHANGED <<cur, recent, irr>>
    BY <1>10 DEF Enter, Count, ReadRegC, SendEoi, ReadKey, SwitchDisplay,
                 StartShell, From, PastSwitch
  <2>2. \E at \in Points : Goto(at)
    BY <1>10 DEF Enter, Count, ReadRegC, SendEoi, ReadKey, SwitchDisplay,
                 StartShell, Points
  <2>3. QED
    BY <2>1, <2>2, NestGoto
<1>11. QED
  BY <1>1, <1>2, <1>3, <1>4, <1>5, <1>6, <1>7, <1>8, <1>9, <1>10
     DEF Next, Cpu, Handler

\* Only devices interrupt.
LEMMA RecentStep ==
    ASSUME TypeInv, recent \subseteq Devices, [Next]_vars
    PROVE  recent' \subseteq Devices
<1>1. CASE Deliver
  BY <1>1 DEF Deliver, Requests, TypeInv
<1>2. CASE Handler \/ Boot \/ Process \/ UNCHANGED vars
  BY <1>2 DEF Handler, Enter, Count, ReadRegC, SendEoi, ReadKey, SwitchDisplay,
              StartShell, EnterShell, SwitchStack, Sti, Popfl, Iret, Boot, Process, vars
<1>3. CASE Device
  BY <1>3 DEF Device, Tick, Key, Period, Slow, Devices
<1>4. QED
  BY <1>1, <1>2, <1>3 DEF Next, Cpu

DepthInv == NestInv /\ recent \subseteq Devices

\* A kernel stack has room for five handlers.
RoomForFive == MaxFrames >= 5

\* However interrupts nest and stacks are switched, a kernel stack never holds
\* more than five handlers: three that a tick put aside and, after its return,
\* the keyboard's and the RTC's again (the sti() of the linkage before a handler
\* returns, and scheduler's switch of stacks).
THEOREM InterruptsTypeCorrect == RoomForFive /\ Spec => []InterruptsTypeOK
<1>1. Init => DepthInv
  BY NestStart DEF Init, DepthInv
<1>2. IInv /\ DepthInv /\ [Next]_vars => DepthInv'
  BY NestStep, RecentStep DEF IInv, DepthInv
<1>3. RoomForFive => RoomForFive'
  BY DEF RoomForFive
<1>4. RoomForFive /\ IInv /\ DepthInv => InterruptsTypeOK
  <2> SUFFICES ASSUME RoomForFive, IInv, NestInv, recent \subseteq Devices
               PROVE  InterruptsTypeOK
    BY DEF DepthInv
  <2>1. TypeInv
    BY DEF IInv
  <2>2. \A p \in Stacks : Len(stack[p]) \in Nat /\ Len(stack[p]) <= 5
    BY <2>1, FiveFrames, TopFrame
  <2>3. MaxFrames \in Nat
    BY InterruptsAssumption
  <2>4. \A p \in Stacks : Len(stack[p]) <= MaxFrames
    BY <2>2, <2>3 DEF RoomForFive
  <2>5. boot \in 1 .. Len(BootOrder) + 1
    BY <2>1, BootSteps DEF TypeInv
  <2>6. QED
    BY <2>1, <2>4, <2>5 DEF TypeInv, InterruptsTypeOK
<1>5. QED
  BY InterruptInvariant, <1>1, <1>2, <1>3, <1>4, PTL DEF Spec
=============================================================================
