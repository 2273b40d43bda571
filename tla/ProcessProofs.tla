---------------------------- MODULE ProcessProofs ----------------------------
(***************************************************************************)
(* Proofs about ProcessManager, for every number of terminals and slots:   *)
(* its type correctness, whatever the races; and, when the timer stays out *)
(* of the windows that break them (SafeTimer), the safety properties and   *)
(* the refinement of ProcessStacks.                                        *)
(***************************************************************************)
EXTENDS MC_Process, SequenceLemmas

-----------------------------------------------------------------------------
(***************************************************************************)
(* Lemmas about the operators                                              *)
(***************************************************************************)

\* find_pid returns 0 when no slot is free and the lowest free slot otherwise.
LEMMA FindPid ==
    /\ FreePids = {} => find_pid = 0
    /\ FreePids # {} => /\ find_pid \in Pids
                        /\ find_pid # 0
                        /\ pcb_counter[find_pid] = 0
                        /\ \A p \in Pids : p < find_pid => pcb_counter[p] # 0
<1>1. ASSUME FreePids # {}
      PROVE  find_pid \in FreePids /\ \A p \in FreePids : find_pid <= p
  <2>1. FreePids \in SUBSET Nat
    BY ConstantsAssumption DEF FreePids, Pids
  <2>2. \E i \in FreePids : \A j \in FreePids : i <= j
    BY <1>1, <2>1, LeastElement
  <2>3. QED
    BY <1>1, <2>2 DEF find_pid
<1>2. FreePids = {} => find_pid = 0
  BY DEF find_pid
<1>3. QED
  BY <1>1, <1>2, ConstantsAssumption DEF FreePids, Pids

\* The next terminal is a terminal, and before the last one it is the successor.
LEMMA NextTermRange ==
    ASSUME running_term \in 0 .. TERM_NUM
    PROVE  /\ NextTerm \in Terms
           /\ running_term < TERM_NUM => NextTerm = running_term + 1
BY ConstantsAssumption DEF NextTerm, Terms

\* Contexts that are built, saved and resumed are contexts.
LEMMA ContextTypes ==
    ASSUME TypeOK
    PROVE  /\ \A point \in Points, k, p \in Slots : At(point, k, p) \in Context
           /\ Lost \in Context
           /\ \A f \in [Pids -> Context] : Trapped(f) \in [Pids -> Context]
           /\ Interrupted \in Context
           /\ KernelStack \in Slots
           /\ \A c \in Context : Resume(c) \in Context
           /\ CallFrame \in Context
           /\ \A k \in Slots : [Lost EXCEPT !.stk = k] \in Context
<1> USE ConstantsAssumption
<1>1. /\ \A point \in Points, k, p \in Slots : At(point, k, p) \in Context
      /\ Lost \in Context
  BY DEF At, Context, Slots, Points, Statuses, Lost
<1>2. \A f \in [Pids -> Context] : Trapped(f) \in [Pids -> Context]
  BY <1>1 DEF Trapped
<1>3. KernelStack \in Slots /\ Interrupted \in Context
  BY DEF TypeOK, KernelStack, Interrupted, Context, Slots
<1>4. \A c \in Context : Resume(c) \in Context
  BY DEF Resume, Context, Slots
<1>5. CallFrame \in Context
  BY <1>1 DEF TypeOK, CallFrame, Context, Points
<1>6. \A k \in Slots : [Lost EXCEPT !.stk = k] \in Context
  BY <1>1 DEF Context
<1>7. QED
  BY <1>1, <1>2, <1>3, <1>4, <1>5, <1>6

\* What StartProcess assigns has the right types.
LEMMA StartProcessTypes ==
    ASSUME TypeOK, NEW t \in Terms, NEW prog \in Programs,
           NEW frame \in Context, NEW point \in Points,
           current_pcb_pointer \in Pids,
           StartProcess(t, prog, frame, point)
    PROVE  /\ find_pid \in Pids
           /\ pcb_counter' \in [Pids -> {0, 1}]
           /\ parent_id'   \in [Pids -> Slots]
           /\ parent_pcb'  \in [Pids -> Slots]
           /\ cmd'         \in [Pids -> Programs \cup {NoCmd}]
           /\ saved'       \in [Pids -> Context]
           /\ files'       \in [Pids -> SUBSET Fds]
           /\ home'        \in [Pids -> Terms]
           /\ depth'       \in [Pids -> Int]
           /\ task_counter' \in [Terms -> Int]
           /\ running_pcb'  \in [Terms -> Slots]
           /\ terminal_process_running' \in [Terms -> {0, 1, 2}]
           /\ terminal_shell_counter'   \in [Terms -> Nat]
           /\ flags'        \in [Terms -> SUBSET Masking]
           /\ current_pcb_pointer' \in Pids
           /\ tss_esp0'  \in Slots
           /\ prog_page' \in Slots
           /\ cpu' \in Context
<1> USE ConstantsAssumption
<1>1. find_pid \in Pids
  BY FindPid DEF StartProcess
<1>2. find_pid \in Slots /\ current_pcb_pointer \in Slots /\ frame.stk \in Slots
      /\ 0 \in Slots
  BY <1>1 DEF Pids, Slots, Context
<1>3. Trapped(saved) \in [Pids -> Context]
  BY ContextTypes DEF TypeOK
<1>4. At(point, frame.stk, find_pid) \in Context
  BY <1>2, ContextTypes
<1>5. ParentId(t) \in Slots
  BY <1>2 DEF ParentId
<1>6. /\ pcb_counter' \in [Pids -> {0, 1}]
      /\ parent_id'   \in [Pids -> Slots]
      /\ parent_pcb'  \in [Pids -> Slots]
      /\ cmd'         \in [Pids -> Programs \cup {NoCmd}]
      /\ saved'       \in [Pids -> Context]
      /\ files'       \in [Pids -> SUBSET Fds]
      /\ home'        \in [Pids -> Terms]
      /\ depth'       \in [Pids -> Int]
  BY <1>1, <1>2, <1>3, <1>5 DEF TypeOK, StartProcess
<1>7. /\ task_counter' \in [Terms -> Int]
      /\ running_pcb'  \in [Terms -> Slots]
      /\ terminal_process_running' \in [Terms -> {0, 1, 2}]
      /\ terminal_shell_counter'   \in [Terms -> Nat]
      /\ flags'        \in [Terms -> SUBSET Masking]
  BY <1>1, <1>2 DEF TypeOK, StartProcess, CountTask
<1>8. /\ current_pcb_pointer' \in Pids
      /\ tss_esp0'  \in Slots
      /\ prog_page' \in Slots
      /\ cpu' \in Context
  BY <1>1, <1>2, <1>4 DEF StartProcess
<1>9. QED
  BY <1>1, <1>6, <1>7, <1>8

-----------------------------------------------------------------------------
(***************************************************************************)
(* Type correctness, wherever the timer lands                              *)
(***************************************************************************)

\* The locals of a context are those its point in the code needs.
GoodContext(c) ==
    /\ c.at = "halted" => c.who \in Pids
    /\ c.at = "lookup" => c.prog \in Programs \cup {NoFile}
    /\ c.at = "claim"  => c.prog \in Programs

GoodPcb(p) == p \in Pids /\ parent_pcb[p] \in Pids

\* Pointers that the steps of a running machine follow are not NULL.
WellFormed ==
    /\ cpu.at \notin {"idle", "lost"} =>
          running_term \in Terms /\ GoodPcb(current_pcb_pointer)
    /\ cpu.at = "idle" =>
          \/ GoodPcb(current_pcb_pointer)
          \/ current_pcb_pointer = 1 /\ FreePids = Pids
    /\ \A p \in Pids : parent_pcb[p] # NULL => GoodPcb(parent_pcb[p])
    /\ \A t \in Terms : running_pcb[t] # NULL => GoodPcb(running_pcb[t])
    /\ GoodContext(cpu)
    /\ \A p \in Pids : GoodContext(context[p]) /\ GoodContext(saved[p])

TypeInv == TypeOK /\ WellFormed

LEMMA GoodContexts ==
    ASSUME TypeInv
    PROVE  /\ \A p \in Pids : GoodContext(Trapped(context)[p])
                              /\ GoodContext(Trapped(saved)[p])
           /\ GoodContext(Interrupted)
           /\ \A c \in Context : GoodContext(c) => GoodContext(Resume(c))
<1>1. GoodContext(Lost)
  BY DEF GoodContext, Lost, At
<1>2. /\ \A p \in Pids : GoodContext(Trapped(context)[p])
                         /\ GoodContext(Trapped(saved)[p])
  BY <1>1 DEF TypeInv, WellFormed, Trapped
<1>3. GoodContext(Interrupted)
  BY DEF TypeInv, TypeOK, WellFormed, GoodContext, Interrupted, Context
<1>4. \A c \in Context : GoodContext(c) => GoodContext(Resume(c))
  BY DEF GoodContext, Resume, Context
<1>5. QED
  BY <1>2, <1>3, <1>4

\* Starting a process keeps every pointer good.
LEMMA StartProcessWellFormed ==
    ASSUME TypeInv, NEW t \in Terms, NEW prog \in Programs,
           NEW frame \in Context, GoodContext(frame),
           NEW point \in {"launch", "boot"},
           cpu.at # "lost",
           StartProcess(t, prog, frame, point)
    PROVE  /\ current_pcb_pointer \in Pids
           /\ GoodPcb(current_pcb_pointer)'
           /\ \A p \in Pids : parent_pcb'[p] # NULL => GoodPcb(parent_pcb[p])'
           /\ \A u \in Terms : running_pcb'[u] # NULL => GoodPcb(running_pcb[u])'
           /\ GoodContext(cpu')
           /\ \A p \in Pids : GoodContext(saved'[p])
<1> USE ConstantsAssumption
<1>1. current_pcb_pointer \in Pids
  BY DEF TypeInv, WellFormed, GoodPcb, Pids
<1>2. find_pid \in Pids
  BY FindPid DEF StartProcess
<1>3. GoodPcb(current_pcb_pointer) \/ current_pcb_pointer = find_pid
  <2>1. CASE FreePids = Pids /\ current_pcb_pointer = 1
    BY <2>1, <1>2, FindPid DEF FreePids, Pids
  <2>2. QED
    BY <2>1 DEF TypeInv, WellFormed
<1>4. /\ parent_pcb' = [parent_pcb EXCEPT ![find_pid] = current_pcb_pointer]
      /\ running_pcb' = [running_pcb EXCEPT ![t] = find_pid]
      /\ current_pcb_pointer' = find_pid
  BY DEF StartProcess
<1>5. \A p \in Pids : GoodPcb(p) => p \in Pids /\ parent_pcb'[p] \in Pids
  BY <1>1, <1>2, <1>4 DEF TypeInv, TypeOK, GoodPcb
<1>6. parent_pcb'[find_pid] \in Pids /\ parent_pcb'[current_pcb_pointer] \in Pids
  BY <1>1, <1>2, <1>3, <1>4, <1>5 DEF TypeInv, TypeOK
<1>7. GoodPcb(current_pcb_pointer)'
  BY <1>2, <1>4, <1>6 DEF GoodPcb
<1>8. \A p \in Pids : parent_pcb'[p] # NULL => GoodPcb(parent_pcb[p])'
  <2>1. TAKE p \in Pids
  <2>2. CASE p = find_pid
    BY <2>2, <1>1, <1>2, <1>4, <1>6 DEF TypeInv, TypeOK, GoodPcb
  <2>3. CASE p # find_pid
    BY <2>3, <1>4, <1>5 DEF TypeInv, TypeOK, WellFormed, GoodPcb
  <2>4. QED
    BY <2>2, <2>3
<1>9. \A u \in Terms : running_pcb'[u] # NULL => GoodPcb(running_pcb[u])'
  BY <1>2, <1>4, <1>5, <1>6 DEF TypeInv, TypeOK, WellFormed, GoodPcb
<1>10. GoodContext(cpu')
  BY DEF StartProcess, GoodContext, At
<1>11. \A p \in Pids : GoodContext(saved'[p])
  BY GoodContexts, <1>2, ContextTypes DEF StartProcess, TypeInv, TypeOK
<1>12. QED
  BY <1>1, <1>7, <1>8, <1>9, <1>10, <1>11

\* The steps that only move the processor on.
LEMMA CpuStepTypes ==
    ASSUME TypeInv, cpu' \in Context, GoodContext(cpu'),
           cpu.at \notin {"idle", "lost"}, cpu'.at # "idle",
           UNCHANGED <<pcbVars, termVars, current_pcb_pointer, running_term,
                       display_term, tss_esp0, prog_page, vid_page,
                       exception_flag>>
    PROVE  TypeInv'
<1>1. TypeOK'
  BY DEF TypeInv, TypeOK, pcbVars, termVars
<1>2. WellFormed'
  BY DEF TypeInv, WellFormed, GoodPcb, GoodContext, pcbVars, termVars
<1>3. QED
  BY <1>1, <1>2 DEF TypeInv

\* The steps of a program or a keyboard interrupt that start and end no process.
LEMMA TrapStepTypes ==
    ASSUME TypeInv, cpu' \in Context, GoodContext(cpu'),
           cpu.at # "lost", cpu' = cpu \/ (cpu.at # "idle" /\ cpu'.at # "idle"),
           cpu' = cpu \/ cpu'.at # "idle",
           context' = Trapped(context), saved' = Trapped(saved),
           files' \in [Pids -> SUBSET Fds], display_term' \in Terms,
           vid_page' \in {Unmapped, Screen} \cup Terms,
           exception_flag' \in {0, 1},
           UNCHANGED <<pcb_counter, parent_id, parent_pcb, cmd, home, depth,
                       termVars, current_pcb_pointer, running_term, tss_esp0,
                       prog_page>>
    PROVE  TypeInv'
<1>1. TypeOK'
  BY ContextTypes DEF TypeInv, TypeOK, termVars
<1>2. \A p \in Pids : GoodContext(context'[p]) /\ GoodContext(saved'[p])
  BY GoodContexts
<1>3. WellFormed'
  BY <1>2 DEF TypeInv, WellFormed, GoodPcb, GoodContext, FreePids, termVars
<1>4. QED
  BY <1>1, <1>3 DEF TypeInv

\* The steps that start a process; where they save a context, a good one.
LEMMA StartStepTypes ==
    ASSUME TypeInv, NEW t \in Terms, NEW prog \in Programs,
           NEW frame \in Context, GoodContext(frame),
           NEW point \in {"launch", "boot"},
           cpu.at # "lost",
           StartProcess(t, prog, frame, point),
           context' \in [Pids -> Context],
           \A p \in Pids : GoodContext(context'[p]),
           running_term' \in Terms,
           UNCHANGED <<display_term, vid_page, exception_flag>>
    PROVE  TypeInv'
<1>1. current_pcb_pointer \in Pids
  BY StartProcessWellFormed
<1>2. TypeOK'
  <2>1. point \in Points
    BY DEF Points
  <2>2. running_term' \in 0 .. TERM_NUM /\ current_pcb_pointer' \in Slots
    BY <1>1, <2>1, StartProcessTypes, ConstantsAssumption
    DEF Terms, TypeInv, Pids, Slots
  <2>3. QED
    BY <1>1, <2>1, <2>2, StartProcessTypes DEF TypeOK, TypeInv
<1>3. cpu'.at \notin {"idle", "lost"}
  BY DEF StartProcess, At
<1>4. WellFormed'
  BY <1>3, StartProcessWellFormed DEF WellFormed, GoodContext
<1>5. QED
  BY <1>2, <1>4 DEF TypeInv

LEMMA HaltTypes ==
    ASSUME TypeInv, NEW status \in {0, 255},
           cpu.at \in {"user", "fault", "nullfault"}, sys_halt(status)
    PROVE  TypeInv'
<1> USE ConstantsAssumption
<1>1. /\ current_pcb_pointer \in Pids
      /\ parent_pcb[current_pcb_pointer] \in Pids
      /\ running_term \in Terms
  BY DEF TypeInv, WellFormed, GoodPcb
<1>2. cpu' \in Context /\ cpu'.at = "halted" /\ cpu'.who = current_pcb_pointer
  <2>1. At("halted", KernelStack, current_pcb_pointer) \in Context
    <3>1. "halted" \in Points /\ current_pcb_pointer \in Slots
      BY <1>1 DEF Points, Pids, Slots
    <3>2. QED
      BY <3>1, ContextTypes DEF TypeInv
  <2>2. QED
    BY <2>1 DEF sys_halt, Context, Statuses, At
<1>3. TypeOK'
  <2>1. /\ pcb_counter' \in [Pids -> {0, 1}]
        /\ cmd' \in [Pids -> Programs \cup {NoCmd}]
        /\ files' \in [Pids -> SUBSET Fds]
        /\ saved' \in [Pids -> Context]
        /\ context' \in [Pids -> Context]
    BY <1>1, ContextTypes DEF sys_halt, TypeInv, TypeOK, FilesAfterHalt
  <2>2. /\ task_counter' \in [Terms -> Int]
        /\ running_pcb' \in [Terms -> Slots]
        /\ terminal_process_running' \in [Terms -> {0, 1, 2}]
        /\ flags' \in [Terms -> SUBSET Masking]
    <3>1. task_counter' \in [Terms -> Int]
      BY <1>1 DEF sys_halt, TypeInv, TypeOK
    <3>2. running_pcb' \in [Terms -> Slots]
      BY <1>1 DEF sys_halt, TypeInv, TypeOK
    <3>3. terminal_process_running' \in [Terms -> {0, 1, 2}]
      BY <1>1 DEF sys_halt, TypeInv, TypeOK
    <3>4. flags' \in [Terms -> SUBSET Masking]
      BY <1>1 DEF sys_halt, TypeInv, TypeOK
    <3>5. QED
      BY <3>1, <3>2, <3>3, <3>4
  <2>3. /\ current_pcb_pointer' \in Slots
        /\ tss_esp0' \in Slots
        /\ prog_page' \in Slots
        /\ vid_page' \in {Unmapped, Screen} \cup Terms
        /\ exception_flag' \in {0, 1}
    <3>1. parent_id[current_pcb_pointer] \in Slots
      BY <1>1 DEF TypeInv, TypeOK
    <3>2. parent_pcb[current_pcb_pointer] \in Slots
      BY <1>1 DEF TypeInv, TypeOK
    <3>3. QED
      BY <3>1, <3>2 DEF sys_halt, EspAfterHalt, PageAfterHalt, FlagAfterHalt
  <2>4. UNCHANGED <<parent_id, parent_pcb, home, depth, terminal_shell_counter,
                    running_term, display_term>>
    BY DEF sys_halt
  <2>5. QED
    BY <1>2, <2>1, <2>2, <2>3, <2>4 DEF TypeInv, TypeOK
<1>4. WellFormed'
  <2>1. /\ parent_pcb' = parent_pcb
        /\ running_term' = running_term
        /\ current_pcb_pointer' = parent_pcb[current_pcb_pointer]
        /\ running_pcb' = [running_pcb EXCEPT ![running_term] =
                                parent_pcb[current_pcb_pointer]]
    BY DEF sys_halt
  <2>2. GoodPcb(parent_pcb[current_pcb_pointer])
    BY <1>1 DEF TypeInv, WellFormed, NULL, Pids
  <2>3. \A p \in Pids : GoodContext(context'[p]) /\ GoodContext(saved'[p])
    BY GoodContexts DEF sys_halt
  <2>4. GoodContext(cpu')
    BY <1>1, <1>2 DEF GoodContext
  <2>5. QED
    BY <1>1, <1>2, <2>1, <2>2, <2>3, <2>4
    DEF TypeInv, TypeOK, WellFormed, GoodPcb, GoodContext
<1>5. QED
  BY <1>3, <1>4 DEF TypeInv

LEMMA SaveContextTypes ==
    ASSUME TypeInv, SaveContext
    PROVE  /\ context' \in [Pids -> Context]
           /\ \A p \in Pids : GoodContext(context'[p])
<1>1. /\ Trapped(context) \in [Pids -> Context]
      /\ Interrupted \in Context
  BY ContextTypes DEF TypeInv, TypeOK
<1>2. context' = [Trapped(context) EXCEPT ![current_pcb_pointer] = Interrupted]
  BY DEF SaveContext
<1>3. context' \in [Pids -> Context]
  BY <1>1, <1>2
<1>4. \A p \in Pids : GoodContext(context'[p])
  <2>1. TAKE p \in Pids
  <2>2. context'[p] = Interrupted \/ context'[p] = Trapped(context)[p]
    BY <1>1, <1>2
  <2>3. QED
    BY <2>2, GoodContexts
<1>5. QED
  BY <1>3, <1>4

LEMMA SwitchTypes ==
    ASSUME TypeInv, SwitchTerminal
    PROVE  TypeInv'
<1> USE ConstantsAssumption
<1>1. NextTerm \in Terms
  BY NextTermRange DEF TypeInv, TypeOK
<1>2. context' \in [Pids -> Context] /\ \A p \in Pids : GoodContext(context'[p])
  BY SaveContextTypes DEF SwitchTerminal
<1>3. saved' \in [Pids -> Context] /\ \A p \in Pids : GoodContext(saved'[p])
  BY ContextTypes, GoodContexts DEF SwitchTerminal, TypeInv, TypeOK
<1>4. running_term' \in Terms /\ running_term' \in 0 .. TERM_NUM
  BY <1>1 DEF SwitchTerminal, Terms
<1>5. vid_page' \in {Unmapped, Screen} \cup Terms
  BY <1>1 DEF SwitchTerminal, VidPageAfterSwitch, VidPage
<1>6. current_pcb_pointer' = running_pcb[NextTerm]
      /\ current_pcb_pointer' \in Slots
  BY <1>1 DEF SwitchTerminal, TypeInv, TypeOK
<1>7. UNCHANGED <<pcb_counter, parent_id, parent_pcb, cmd, files, home, depth,
                  task_counter, running_pcb, terminal_process_running,
                  terminal_shell_counter, flags, display_term, exception_flag>>
  BY DEF SwitchTerminal, termVars
<1>8. CASE current_pcb_pointer' = NULL
  <2>1. cpu' = Lost /\ UNCHANGED <<tss_esp0, prog_page>>
    BY <1>8 DEF SwitchTerminal
  <2>2. TypeOK'
    BY <1>2, <1>3, <1>4, <1>5, <1>6, <1>7, <2>1, ContextTypes DEF TypeInv, TypeOK
  <2>3. cpu'.at = "lost"
    BY <2>1 DEF Lost, At
  <2>4. WellFormed'
    BY <1>2, <1>3, <1>7, <2>3 DEF TypeInv, WellFormed, GoodPcb, GoodContext
  <2>5. QED
    BY <2>2, <2>4 DEF TypeInv
<1>9. CASE current_pcb_pointer' # NULL
  <2>1. /\ cpu' = Resume(context'[current_pcb_pointer'])
        /\ tss_esp0' = current_pcb_pointer'
        /\ prog_page' = current_pcb_pointer'
    BY <1>9 DEF SwitchTerminal
  <2>2. GoodPcb(current_pcb_pointer)'
    BY <1>1, <1>6, <1>7, <1>9 DEF TypeInv, WellFormed, GoodPcb
  <2>3. cpu' \in Context /\ GoodContext(cpu')
    BY <1>2, <2>1, <2>2, ContextTypes, GoodContexts DEF GoodPcb, TypeInv
  <2>4. TypeOK'
    BY <1>2, <1>3, <1>4, <1>5, <1>6, <1>7, <2>1, <2>3 DEF TypeInv, TypeOK
  <2>5. WellFormed'
    BY <1>2, <1>3, <1>4, <1>7, <2>2, <2>3
    DEF TypeInv, WellFormed, GoodPcb, GoodContext
  <2>6. QED
    BY <2>4, <2>5 DEF TypeInv
<1>10. QED
  BY <1>8, <1>9

LEMMA TypeInit == Init => TypeInv
<1> SUFFICES ASSUME Init PROVE TypeInv
  OBVIOUS
<1> USE ConstantsAssumption DEF Init
<1>1. Lost \in Context /\ At("idle", 0, 0) \in Context
  BY DEF At, Lost, Context, Points, Slots, Statuses
<1>2. TypeOK
  BY <1>1 DEF TypeOK, Pids, Terms, Slots, NULL
<1>3. WellFormed
  <2>1. FreePids = Pids
    BY DEF FreePids
  <2>2. GoodContext(cpu) /\ GoodContext(Lost)
    BY DEF GoodContext, Lost, At
  <2>3. cpu.at = "idle"
    BY DEF At
  <2>4. QED
    BY <2>1, <2>2, <2>3 DEF WellFormed, NULL
<1>4. QED
  BY <1>2, <1>3 DEF TypeInv

LEMMA TypeStep == TypeInv /\ [Next]_vars => TypeInv'
<1> SUFFICES ASSUME TypeInv, [Next]_vars PROVE TypeInv'
  OBVIOUS
<1> USE ConstantsAssumption
<1>0. TypeOK
  BY DEF TypeInv
<1>1. ASSUME NEW prog \in Programs \cup {NoFile}, ExecuteCall(prog) PROVE TypeInv'
  <2>1. cpu' \in Context /\ cpu'.at = "lookup" /\ cpu'.prog = prog
    BY <1>0, <1>1 DEF ExecuteCall, TypeOK, Context, Points
  <2>2. GoodContext(cpu')
    BY <2>1 DEF GoodContext
  <2>3. QED
    BY <1>0, <1>1, <2>1, <2>2, TrapStepTypes DEF ExecuteCall, TypeOK
<1>2. ASSUME BackToUser PROVE cpu' \in Context /\ GoodContext(cpu') /\ cpu'.at = "user"
  <2>1. cpu.who \in Slots /\ "user" \in Points /\ 0 \in Slots
    BY <1>0 DEF TypeOK, Context, Points, Slots
  <2>2. QED
    BY <1>0, <1>2, <2>1, ContextTypes DEF BackToUser, At, GoodContext
<1>3. CASE ExecuteRejected
  BY <1>3, <1>2, CpuStepTypes DEF ExecuteRejected
<1>4. CASE CheckPosition
  <2>1. CASE find_pid = 0
    BY <1>4, <2>1, <1>2, CpuStepTypes DEF CheckPosition
  <2>2. CASE find_pid # 0
    <3>1. cpu' = [cpu EXCEPT !.at = "claim"]
      BY <1>4, <2>2 DEF CheckPosition
    <3>2. cpu' \in Context /\ GoodContext(cpu') /\ cpu'.at = "claim"
      BY <1>4, <3>1 DEF CheckPosition, TypeInv, TypeOK, WellFormed, GoodContext,
                        Context, Points
    <3>3. QED
      BY <1>4, <3>2, CpuStepTypes DEF CheckPosition
  <2>3. QED
    BY <2>1, <2>2
<1>5. ASSUME cpu.at = "claim", FollowNull,
             UNCHANGED <<context, running_term, display_term, vid_page>>
      PROVE  TypeInv'
  <2>1. running_term \in Terms /\ GoodPcb(current_pcb_pointer)
    BY <1>5 DEF TypeInv, WellFormed
  <2>2. cpu' \in Context /\ cpu'.at = "nullfault"
    <3>1. cpu.stk \in Slots /\ cpu.who \in Slots /\ "nullfault" \in Points
      BY <1>0 DEF TypeOK, Context, Points
    <3>2. QED
      BY <1>0, <1>5, <3>1, ContextTypes DEF FollowNull, At
  <2>3. /\ task_counter' \in [Terms -> Int]
        /\ terminal_process_running' \in [Terms -> {0, 1, 2}]
        /\ terminal_shell_counter' \in [Terms -> Nat]
        /\ flags' \in [Terms -> SUBSET Masking]
    BY <1>0, <1>5, <2>1 DEF FollowNull, CountTask, TypeOK
  <2>4. prog_page' \in Slots /\ exception_flag' \in {0, 1}
    BY <1>5 DEF FollowNull, Slots
  <2>5. UNCHANGED <<pcb_counter, parent_id, parent_pcb, cmd, saved, context, files,
                    home, depth, running_pcb, current_pcb_pointer, running_term,
                    display_term, tss_esp0, vid_page>>
    BY <1>5 DEF FollowNull
  <2>6. TypeOK'
    BY <1>0, <2>2, <2>3, <2>4, <2>5 DEF TypeOK
  <2>7. WellFormed'
    BY <2>1, <2>2, <2>5 DEF TypeInv, WellFormed, GoodPcb, GoodContext
  <2>8. QED
    BY <2>6, <2>7 DEF TypeInv
<1>6. CASE ClaimPosition
  <2>1. CASE FollowNull
    BY <1>5, <1>6, <2>1 DEF ClaimPosition
  <2>2. CASE StartProcess(running_term, cpu.prog, CallFrame, "launch")
             /\ UNCHANGED <<context, running_term, display_term, vid_page,
                            exception_flag>>
    <3>1. running_term \in Terms /\ cpu.prog \in Programs /\ cpu.at = "claim"
      BY <1>6 DEF ClaimPosition, TypeInv, WellFormed, GoodContext
    <3>2. CallFrame \in Context /\ GoodContext(CallFrame)
      BY <1>0, ContextTypes DEF CallFrame, At, GoodContext
    <3>3. context' \in [Pids -> Context] /\ \A p \in Pids : GoodContext(context'[p])
      BY <2>2 DEF TypeInv, TypeOK, WellFormed
    <3>4. QED
      BY <2>2, <3>1, <3>2, <3>3, StartStepTypes
  <2>3. QED
    BY <1>6, <2>1, <2>2 DEF ClaimPosition
<1>7. CASE Iret
  BY <1>7, <1>2, CpuStepTypes DEF Iret
<1>8. CASE Exception
  <2>1. cpu' \in Context /\ GoodContext(cpu') /\ cpu'.at = "fault"
    <3>1. cpu.who \in Slots /\ tss_esp0 \in Slots /\ "fault" \in Points
      BY <1>0 DEF TypeOK, Context, Points
    <3>2. QED
      BY <1>0, <1>8, <3>1, ContextTypes DEF Exception, At, GoodContext
  <2>2. QED
    BY <1>0, <1>8, <2>1, TrapStepTypes DEF Exception, TypeOK
<1>9. CASE Halt
  BY <1>9, HaltTypes DEF Halt
<1>10. CASE HaltReturn
  <2>1. cpu.who \in Pids
    BY <1>10 DEF HaltReturn, TypeInv, WellFormed, GoodContext
  <2>2. cpu' \in Context /\ GoodContext(cpu')
    <3>1. Lost \in Context /\ GoodContext(Lost)
      BY <1>0, ContextTypes DEF GoodContext, Lost, At
    <3>2. saved[cpu.who] \in Context /\ GoodContext(saved[cpu.who])
      BY <2>1 DEF TypeInv, TypeOK, WellFormed
    <3>3. Resume(saved[cpu.who]) \in Context /\ GoodContext(Resume(saved[cpu.who]))
      BY <1>0, <3>2, ContextTypes, GoodContexts
    <3>4. QED
      BY <1>10, <3>1, <3>3 DEF HaltReturn
  <2>3. TypeOK'
    BY <1>10, <2>2 DEF HaltReturn, TypeInv, TypeOK, pcbVars, termVars
  <2>4. WellFormed'
    BY <1>10, <2>2
    DEF HaltReturn, TypeInv, WellFormed, GoodPcb, GoodContext, pcbVars, termVars
  <2>5. QED
    BY <2>3, <2>4 DEF TypeInv
<1>11. CASE HaltRestart
  <2>1. running_term \in Terms /\ cpu.stk \in Slots /\ cpu.at = "halted"
    BY <1>11 DEF HaltRestart, TypeInv, TypeOK, WellFormed, Context
  <2>2. [Lost EXCEPT !.stk = cpu.stk] \in Context
        /\ GoodContext([Lost EXCEPT !.stk = cpu.stk])
    BY <1>0, <2>1, ContextTypes DEF GoodContext, Lost, At
  <2>3. context' \in [Pids -> Context] /\ \A p \in Pids : GoodContext(context'[p])
    BY <1>11 DEF HaltRestart, TypeInv, TypeOK, WellFormed
  <2>4. CASE cpu' = Lost
    <3>1. UNCHANGED <<pcb_counter, parent_id, parent_pcb, cmd, saved, context,
                      files, home, depth, task_counter, running_pcb,
                      terminal_shell_counter, flags, current_pcb_pointer,
                      running_term, display_term, tss_esp0, prog_page, vid_page,
                      exception_flag>>
      BY <1>11, <2>4 DEF HaltRestart, StartProcess, Lost, At
    <3>2. terminal_process_running' \in [Terms -> {0, 1, 2}]
      BY <1>0, <1>11, <2>1, <2>4 DEF HaltRestart, StartProcess, Lost, At, TypeOK
    <3>3. TypeOK'
      BY <1>0, <2>4, <3>1, <3>2, ContextTypes DEF TypeOK
    <3>4. WellFormed'
      BY <2>4, <3>1 DEF TypeInv, WellFormed, GoodPcb, GoodContext, Lost, At
    <3>5. QED
      BY <3>3, <3>4 DEF TypeInv
  <2>5. CASE StartProcess(running_term, "shell", [Lost EXCEPT !.stk = cpu.stk],
                          "launch")
    BY <1>11, <2>1, <2>2, <2>3, <2>5, StartStepTypes, ConstantsAssumption
    DEF HaltRestart
  <2>6. QED
    BY <1>11, <2>4, <2>5 DEF HaltRestart
<1>12. CASE StartBaseShell
  <2>1. NextTerm \in Terms
    BY <1>0, NextTermRange DEF TypeOK
  <2>2. context' \in [Pids -> Context] /\ \A p \in Pids : GoodContext(context'[p])
    BY <1>12, SaveContextTypes DEF StartBaseShell
  <2>3. Interrupted \in Context /\ GoodContext(Interrupted)
    BY <1>0, ContextTypes, GoodContexts
  <2>4. cpu.at # "lost"
    <3>1. Window \in {"idle", "user", "lookup", "launch"} \cup RaceNames
      BY <1>12 DEF StartBaseShell, Interruptible
    <3>2. Window # "lost"
      BY <3>1 DEF RaceNames
    <3>3. QED
      BY <3>2 DEF Window
  <2>5. QED
    BY <1>12, <2>1, <2>2, <2>3, <2>4, StartStepTypes DEF StartBaseShell
<1>13. CASE SwitchTerminal
  BY <1>13, SwitchTypes
<1>14. CASE sys_open
  <2>1. files' \in [Pids -> SUBSET Fds]
    <3>1. FreeFds \in SUBSET Nat /\ FreeFds # {} /\ FreeFds \subseteq Fds
      BY <1>14 DEF sys_open, FreeFds, Fds
    <3>2. \E i \in FreeFds : \A j \in FreeFds : i <= j
      BY <3>1, LeastElement
    <3>3. find_next_fd \in Fds
      BY <3>1, <3>2 DEF find_next_fd
    <3>4. QED
      BY <1>14, <1>0, <3>3 DEF sys_open, TypeOK
  <2>2. QED
    BY <1>0, <1>14, <2>1, TrapStepTypes DEF sys_open, TypeOK, TypeInv, WellFormed, machVars
<1>15. ASSUME NEW fd \in Fds, sys_close(fd) PROVE TypeInv'
  <2>1. files' \in [Pids -> SUBSET Fds]
    BY <1>15, <1>0 DEF sys_close, TypeOK
  <2>2. QED
    BY <1>0, <1>15, <2>1, TrapStepTypes DEF sys_close, TypeOK, TypeInv, WellFormed, machVars
<1>16. CASE sys_vidmap
  <2>1. running_term \in Terms
    BY <1>16 DEF sys_vidmap, TypeInv, WellFormed
  <2>2. vid_page' \in {Unmapped, Screen} \cup Terms
    BY <1>16, <2>1 DEF sys_vidmap, VidPage
  <2>3. QED
    BY <1>0, <1>16, <2>2, TrapStepTypes DEF sys_vidmap, TypeOK, TypeInv, WellFormed
<1>17. ASSUME NEW t \in Terms, ShowTerminal(t) PROVE TypeInv'
  BY <1>0, <1>17, TrapStepTypes DEF ShowTerminal, TypeOK, TypeInv, WellFormed
<1>18. CASE UNCHANGED vars
  BY <1>18 DEF vars, pcbVars, termVars, machVars, TypeInv, TypeOK, WellFormed,
               GoodPcb, GoodContext, FreePids
<1>19. QED
  BY <1>1, <1>3, <1>4, <1>6, <1>7, <1>8, <1>9, <1>10, <1>11, <1>12, <1>13, <1>14,
     <1>15, <1>16, <1>17, <1>18
  DEF Next, Execute, FileCalls, scheduler

\* Type correctness of the process manager for every set of races: wherever the
\* timer lands, every variable keeps its type.
THEOREM TypeCorrect == Spec => []TypeOK
<1>1. TypeInv => TypeOK
  BY DEF TypeInv
<1>2. QED
  BY TypeInit, TypeStep, <1>1, PTL DEF Spec

-----------------------------------------------------------------------------
(***************************************************************************)
(* The inductive invariant                                                 *)
(***************************************************************************)

\* The timer does not land in the windows that the violation runs are about.
SafeTimer == Races \cap {"claim", "boot", "halted", "restart", "early"} = {}

\* Points at which the processor works for a process that has been entered.
Parked == {"user", "lookup", "claim", "launch", "fault"}

\* Slot of a base shell that has halted and is about to be started again.
Restarting(t) ==
    cpu.at = "halted" /\ running_term = t /\ task_counter[t] = 0

\* Terminals get their base shells in order, one at each of the first ticks.
BootOrder ==
    /\ Booted \/ \A t \in Terms : running_pcb[t] # NULL <=> t <= running_term
    /\ cpu.at = "idle" => /\ running_term = 0
                          /\ \A t \in Terms : running_pcb[t] = NULL
    /\ cpu.at # "idle" => running_term \in Terms
    /\ cpu.at \in {"lookup", "claim"} => Booted

\* Base shells hold the slots of their terminals; before it is up a terminal
\* has no process.
BaseSlots ==
    \A t \in Terms :
        /\ running_pcb[t] = NULL => pcb_counter[t] = 0 /\ task_counter[t] = 0
        /\ running_pcb[t] # NULL => Live(t) \/ Restarting(t)
        /\ Restarting(t) => ~Live(t)
        /\ Live(t) => home[t] = t /\ depth[t] = 1 /\ task_counter[t] > 0

\* The chain of processes of each terminal.
Chains ==
    /\ \A t \in Terms :
          /\ task_counter[t] >= 0
          /\ task_counter[t] > 0 => /\ running_pcb[t] \in Pids
                                    /\ Live(running_pcb[t])
                                    /\ home[running_pcb[t]] = t
                                    /\ depth[running_pcb[t]] = task_counter[t]
    /\ \A p \in Pids : Live(p) =>
          /\ depth[p] \in 1 .. task_counter[home[p]]
          /\ depth[p] = 1 => p \in Terms /\ parent_id[p] = 0
          /\ parent_pcb[p] \in Pids
          /\ depth[p] > 1 => /\ p \notin Terms
                             /\ parent_id[p] \in Pids
                             /\ parent_pcb[p] = parent_id[p]
                             /\ Live(parent_id[p])
                             /\ home[parent_id[p]] = home[p]
                             /\ depth[parent_id[p]] = depth[p] - 1
                             /\ saved[p] = At("user", parent_id[p], parent_id[p])
    /\ \A p, q \in Pids :
          (Live(p) /\ Live(q) /\ home[p] = home[q] /\ depth[p] = depth[q])
              => p = q

\* A context from which process p of terminal t can go on.
Resumable(c, p, t) ==
    /\ c.at \in Parked
    /\ c.who = p
    /\ c.stk \in Pids
    /\ Live(c.stk)
    /\ home[c.stk] = t
    /\ c.at # "launch" => c.stk = p

\* The processor works for the running process of the running terminal.
Processor ==
    /\ cpu.at \in Parked \cup {"boot"} =>
          /\ cpu.who = current_pcb_pointer
          /\ cpu.who = running_pcb[running_term]
          /\ cpu.who = tss_esp0
          /\ cpu.who = prog_page
          /\ task_counter[running_term] > 0
    /\ cpu.at \in Parked => Resumable(Interrupted, cpu.who, running_term)
    /\ cpu.at = "user" => cpu.stk = 0
    /\ cpu.at = "idle" => current_pcb_pointer = 1

\* A process has halted and its terminal is about to go on.
Halted ==
    cpu.at = "halted" =>
        /\ cpu.who \in Pids
        /\ ~Live(cpu.who)
        /\ cpu.stk = cpu.who
        /\ current_pcb_pointer \in Pids
        /\ running_pcb[running_term] # NULL
        /\ task_counter[running_term] = 0 => cpu.who = running_term
        /\ task_counter[running_term] > 0 =>
              /\ saved[cpu.who] = At("user", current_pcb_pointer,
                                             current_pcb_pointer)
              /\ parent_id[cpu.who] = current_pcb_pointer
              /\ current_pcb_pointer = running_pcb[running_term]
              /\ tss_esp0  = current_pcb_pointer
              /\ prog_page = current_pcb_pointer

\* Every terminal that waits for its turn has a context to go on from.
Waiting ==
    \A t \in Terms \ {running_term} :
        running_pcb[t] # NULL =>
            /\ task_counter[t] > 0
            /\ Resumable(context[running_pcb[t]], running_pcb[t], t)

\* A slot that was found free is still free when it is taken: nobody is put
\* aside between the two, and the NULL PCB is never reached.
SlotFound ==
    /\ cpu.at = "claim" => find_pid # 0
    /\ cpu.at # "nullfault"
    /\ \A t \in Terms \ {running_term} :
          running_pcb[t] # NULL => context[running_pcb[t]].at # "claim"

KernelInv == TypeInv /\ BootOrder /\ BaseSlots /\ Chains /\ Processor /\ Halted
             /\ Waiting /\ SlotFound

-----------------------------------------------------------------------------
(***************************************************************************)
(* Consequences of the invariant used in several steps                     *)
(***************************************************************************)

LEMMA ProcessorFacts ==
    ASSUME KernelInv, cpu.at \in Parked \cup {"boot"}
    PROVE  /\ running_term \in Terms
           /\ cpu.who \in Pids
           /\ Live(cpu.who)
           /\ home[cpu.who] = running_term
           /\ depth[cpu.who] = task_counter[running_term]
           /\ task_counter[running_term] > 0
           /\ cpu.who = current_pcb_pointer
           /\ cpu.who = running_pcb[running_term]
           /\ cpu.who = tss_esp0
           /\ cpu.who = prog_page
<1>1. running_term \in Terms
  BY DEF KernelInv, BootOrder, Parked
<1>2. QED
  BY <1>1 DEF KernelInv, Processor, Chains

\* A trap from user mode overwrites nothing that somebody will need.
LEMMA TrapHarmless ==
    ASSUME KernelInv
    PROVE  /\ \A t \in Terms \ {running_term} : running_pcb[t] # NULL =>
                  Trapped(context)[running_pcb[t]] = context[running_pcb[t]]
           /\ \A p \in Pids : Live(p) /\ depth[p] > 1 =>
                  Trapped(saved)[p] = saved[p]
<1> USE ConstantsAssumption
<1>1. CASE cpu.at # "user"
  BY <1>1 DEF Trapped, KernelInv, TypeInv, TypeOK, Pids, Slots, NULL
<1>2. CASE cpu.at = "user"
  <2>1. /\ running_term \in Terms
        /\ tss_esp0 \in Pids
        /\ home[tss_esp0] = running_term
        /\ depth[tss_esp0] = task_counter[running_term]
    BY <1>2, ProcessorFacts DEF Parked
  <2>2. ASSUME NEW t \in Terms \ {running_term}, running_pcb[t] # NULL
        PROVE  Trapped(context)[running_pcb[t]] = context[running_pcb[t]]
    <3>1. running_pcb[t] \in Pids
      BY <2>2 DEF KernelInv, TypeInv, TypeOK, Pids, Slots, NULL
    <3>2. home[context[running_pcb[t]].stk] = t
      BY <2>2 DEF KernelInv, Waiting, Resumable
    <3>3. QED
      BY <2>1, <2>2, <3>1, <3>2 DEF Trapped
  <2>3. ASSUME NEW p \in Pids, Live(p), depth[p] > 1
        PROVE  Trapped(saved)[p] = saved[p]
    <3>1. /\ saved[p].stk = parent_id[p]
          /\ home[parent_id[p]] = home[p]
          /\ depth[parent_id[p]] = depth[p] - 1
          /\ depth[p] <= task_counter[home[p]]
      <4>1. saved[p] = At("user", parent_id[p], parent_id[p])
        BY <2>3 DEF KernelInv, Chains
      <4>2. saved[p].stk = parent_id[p]
        BY <4>1 DEF At
      <4>3. task_counter[home[p]] \in Int /\ depth[p] \in 1 .. task_counter[home[p]]
        BY <2>3 DEF KernelInv, Chains, TypeInv, TypeOK
      <4>4. QED
        BY <2>3, <4>2, <4>3 DEF KernelInv, Chains
    <3>2. parent_id[p] # tss_esp0
      BY <2>1, <2>3, <3>1 DEF KernelInv, TypeInv, TypeOK
    <3>3. QED
      BY <3>1, <3>2 DEF Trapped
  <2>4. QED
    BY <2>2, <2>3
<1>3. QED
  BY <1>1, <1>2

\* With a safe timer a tick finds the processor idle or with a parked process.
LEMMA SafeTick ==
    ASSUME SafeTimer, Interruptible
    PROVE  cpu.at \in Parked \cup {"idle"} /\ cpu.at # "claim"
<1>1. Window \in {"idle", "user", "lookup", "launch", "fault"}
  <2>1. Races \subseteq {"fault"}
    BY ConstantsAssumption DEF SafeTimer, RaceNames
  <2>2. QED
    BY <2>1 DEF Interruptible
<1>2. Window = cpu.at
  BY <1>1 DEF Window
<1>3. QED
  BY <1>1, <1>2 DEF Parked

\* Steps that start and end no process and leave the processor's registers.
LEMMA QuietStep ==
    ASSUME KernelInv,
           UNCHANGED <<pcb_counter, parent_id, parent_pcb, home, depth,
                       task_counter, running_pcb, running_term>>,
           context' = Trapped(context) \/ context' = context,
           saved' = Trapped(saved) \/ saved' = saved,
           \/ cpu' = cpu
           \/ /\ cpu'.at # "halted"
              /\ cpu.at = "halted" => task_counter[running_term] # 0
    PROVE  BaseSlots' /\ Chains' /\ Waiting'
<1>1. \A p \in Pids : Live(p)' <=> Live(p)
  BY DEF Live
<1>2. \A t \in Terms : Restarting(t)' <=> Restarting(t)
  BY DEF Restarting
<1>3. BaseSlots'
  BY <1>2 DEF KernelInv, BaseSlots, Live
<1>4. \A p \in Pids : Live(p) /\ depth[p] > 1 => saved'[p] = saved[p]
  BY TrapHarmless
<1>5. Chains'
  BY <1>4 DEF KernelInv, Chains, Live
<1>6. \A t \in Terms \ {running_term} : running_pcb[t] # NULL =>
         context'[running_pcb[t]] = context[running_pcb[t]]
  BY TrapHarmless
<1>7. Waiting'
  BY <1>6 DEF KernelInv, Waiting, Resumable, Live
<1>8. QED
  BY <1>3, <1>5, <1>7

-----------------------------------------------------------------------------
(***************************************************************************)
(* Starting a process                                                      *)
(***************************************************************************)

\* What StartProcess does to the slots and chains, by slot and by terminal.
LEMMA StartEffect ==
    ASSUME KernelInv, NEW t \in Terms, NEW prog, NEW frame, NEW point,
           StartProcess(t, prog, frame, point)
    PROVE  /\ find_pid \in Pids /\ ~Live(find_pid) /\ pcb_counter'[find_pid] = 1
           /\ home'[find_pid] = t /\ depth'[find_pid] = task_counter[t] + 1
           /\ parent_id'[find_pid] = ParentId(t)
           /\ parent_pcb'[find_pid] = current_pcb_pointer
           /\ saved'[find_pid] = frame
           /\ \A p \in Pids \ {find_pid} :
                 /\ pcb_counter'[p] = pcb_counter[p] /\ (Live(p)' <=> Live(p))
                 /\ home'[p] = home[p] /\ depth'[p] = depth[p]
                 /\ parent_id'[p] = parent_id[p] /\ parent_pcb'[p] = parent_pcb[p]
                 /\ saved'[p] = Trapped(saved)[p]
           /\ task_counter'[t] = task_counter[t] + 1
           /\ running_pcb'[t] = find_pid
           /\ \A u \in Terms \ {t} : /\ task_counter'[u] = task_counter[u]
                                    /\ running_pcb'[u] = running_pcb[u]
<1> USE ConstantsAssumption
<1>1. find_pid \in Pids /\ pcb_counter[find_pid] = 0
  BY FindPid DEF StartProcess
<1>2. TypeOK
  BY DEF KernelInv, TypeInv
<1>3. Trapped(saved) \in [Pids -> Context]
  BY <1>2, ContextTypes DEF TypeOK
<1>4. /\ pcb_counter' = [pcb_counter EXCEPT ![find_pid] = 1]
      /\ parent_id'   = [parent_id EXCEPT ![find_pid] = ParentId(t)]
      /\ parent_pcb'  = [parent_pcb EXCEPT ![find_pid] = current_pcb_pointer]
      /\ saved'       = [Trapped(saved) EXCEPT ![find_pid] = frame]
      /\ home'        = [home EXCEPT ![find_pid] = t]
      /\ depth'       = [depth EXCEPT ![find_pid] = task_counter[t] + 1]
      /\ task_counter' = [task_counter EXCEPT ![t] = @ + 1]
      /\ running_pcb'  = [running_pcb EXCEPT ![t] = find_pid]
  BY DEF StartProcess, CountTask
<1>5. /\ find_pid \in Pids /\ ~Live(find_pid) /\ pcb_counter'[find_pid] = 1
      /\ \A p \in Pids \ {find_pid} : pcb_counter'[p] = pcb_counter[p]
                                       /\ (Live(p)' <=> Live(p))
  BY <1>1, <1>2, <1>4 DEF TypeOK, Live, StartProcess
<1>6. /\ home'[find_pid] = t /\ depth'[find_pid] = task_counter[t] + 1
      /\ parent_id'[find_pid] = ParentId(t)
      /\ parent_pcb'[find_pid] = current_pcb_pointer
      /\ saved'[find_pid] = frame
  BY <1>1, <1>2, <1>3, <1>4 DEF TypeOK
<1>7. \A p \in Pids \ {find_pid} :
          /\ home'[p] = home[p] /\ depth'[p] = depth[p]
          /\ parent_id'[p] = parent_id[p] /\ parent_pcb'[p] = parent_pcb[p]
          /\ saved'[p] = Trapped(saved)[p]
  BY <1>1, <1>2, <1>3, <1>4 DEF TypeOK
<1>8. /\ task_counter'[t] = task_counter[t] + 1
      /\ running_pcb'[t] = find_pid
      /\ \A u \in Terms \ {t} : /\ task_counter'[u] = task_counter[u]
                               /\ running_pcb'[u] = running_pcb[u]
  BY <1>2, <1>4 DEF TypeOK
<1>9. QED
  BY <1>5, <1>6, <1>7, <1>8

\* The conditions under which a process is started: the base shell of t takes
\* slot t, a program takes another slot and is called by the running process.
StartCondition(t, frame) ==
    /\ current_pcb_pointer \in Pids
    /\ task_counter[t] = 0 => find_pid = t
    /\ task_counter[t] > 0 =>
          /\ find_pid \notin Terms
          /\ current_pcb_pointer = running_pcb[t]
          /\ frame = At("user", current_pcb_pointer, current_pcb_pointer)
    /\ \A u \in Terms : Restarting(u) => u = t

LEMMA StartChains ==
    ASSUME KernelInv, NEW t \in Terms, NEW prog, NEW frame, NEW point,
           StartProcess(t, prog, frame, point),
           StartCondition(t, frame)
    PROVE  Chains'
<1> USE ConstantsAssumption
<1>0. TypeOK
  BY DEF KernelInv, TypeInv
<1> DEFINE new == find_pid
           par == current_pcb_pointer
<1>1. task_counter[t] \in Int /\ task_counter[t] >= 0
  BY <1>0 DEF KernelInv, Chains, TypeOK
<1>2. \A u \in Terms :
          /\ task_counter'[u] >= 0
          /\ task_counter'[u] > 0 => /\ running_pcb'[u] \in Pids
                                     /\ Live(running_pcb[u])'
                                     /\ home'[running_pcb'[u]] = u
                                     /\ depth'[running_pcb'[u]] = task_counter'[u]
  <2>1. TAKE u \in Terms
  <2>2. CASE u = t
    BY <1>1, <2>2, StartEffect DEF Live
  <2>3. CASE u # t
    <3>1. /\ task_counter[u] >= 0
          /\ task_counter[u] > 0 => /\ running_pcb[u] \in Pids
                                    /\ Live(running_pcb[u])
                                    /\ home[running_pcb[u]] = u
                                    /\ depth[running_pcb[u]] = task_counter[u]
      BY DEF KernelInv, Chains
    <3>2. task_counter'[u] = task_counter[u] /\ running_pcb'[u] = running_pcb[u]
      BY <2>3, StartEffect
    <3>3. task_counter[u] > 0 => running_pcb[u] # new
      BY <3>1, StartEffect
    <3>4. QED
      BY <3>1, <3>2, <3>3, StartEffect DEF Live
  <2>4. QED
    BY <2>2, <2>3
<1>3. \A p \in Pids : Live(p)' =>
          /\ depth'[p] \in 1 .. task_counter'[home'[p]]
          /\ depth'[p] = 1 => p \in Terms /\ parent_id'[p] = 0
          /\ parent_pcb'[p] \in Pids
          /\ depth'[p] > 1 => /\ p \notin Terms
                              /\ parent_id'[p] \in Pids
                              /\ parent_pcb'[p] = parent_id'[p]
                              /\ Live(parent_id[p])'
                              /\ home'[parent_id'[p]] = home'[p]
                              /\ depth'[parent_id'[p]] = depth'[p] - 1
                              /\ saved'[p] = At("user", parent_id'[p], parent_id'[p])
  <2>1. SUFFICES ASSUME NEW p \in Pids, Live(p)'
                 PROVE
          /\ depth'[p] \in 1 .. task_counter'[home'[p]]
          /\ depth'[p] = 1 => p \in Terms /\ parent_id'[p] = 0
          /\ parent_pcb'[p] \in Pids
          /\ depth'[p] > 1 => /\ p \notin Terms
                              /\ parent_id'[p] \in Pids
                              /\ parent_pcb'[p] = parent_id'[p]
                              /\ Live(parent_id[p])'
                              /\ home'[parent_id'[p]] = home'[p]
                              /\ depth'[parent_id'[p]] = depth'[p] - 1
                              /\ saved'[p] = At("user", parent_id'[p], parent_id'[p])
    OBVIOUS
  <2>2. CASE p = new /\ task_counter[t] = 0
    BY <2>2, StartEffect DEF StartCondition, ParentId
  <2>3. CASE p = new /\ task_counter[t] > 0
    <3>1. Live(par) /\ home[par] = t /\ depth[par] = task_counter[t] /\ par \in Pids
      BY <2>3 DEF StartCondition, KernelInv, Chains
    <3>2. par # new
      BY <3>1, StartEffect
    <3>3. pcb_counter'[par] = 1 /\ home'[par] = t /\ depth'[par] = task_counter[t]
      BY <3>1, <3>2, StartEffect DEF Live
    <3>4. parent_id'[p] = par /\ parent_pcb'[p] = par
      BY <2>3, StartEffect DEF ParentId
    <3>5. saved'[p] = At("user", par, par) /\ p \notin Terms
      BY <2>3, StartEffect DEF StartCondition
    <3>6. depth'[p] = task_counter[t] + 1 /\ home'[p] = t
          /\ task_counter'[t] = task_counter[t] + 1
      BY <2>3, StartEffect
    <3>7. Live(parent_id[p])'
      BY <3>3, <3>4 DEF Live
    <3>8. QED
      BY <1>1, <2>3, <3>1, <3>3, <3>4, <3>5, <3>6, <3>7
  <2>4. CASE p # new
    <3>1. /\ Live(p) /\ home'[p] = home[p] /\ depth'[p] = depth[p]
          /\ parent_id'[p] = parent_id[p] /\ parent_pcb'[p] = parent_pcb[p]
          /\ saved'[p] = Trapped(saved)[p]
      BY <2>1, <2>4, StartEffect
    <3>2. /\ depth[p] \in 1 .. task_counter[home[p]]
          /\ depth[p] = 1 => p \in Terms /\ parent_id[p] = 0
          /\ parent_pcb[p] \in Pids
          /\ depth[p] > 1 => /\ p \notin Terms
                             /\ parent_id[p] \in Pids
                             /\ parent_pcb[p] = parent_id[p]
                             /\ Live(parent_id[p])
                             /\ home[parent_id[p]] = home[p]
                             /\ depth[parent_id[p]] = depth[p] - 1
                             /\ saved[p] = At("user", parent_id[p], parent_id[p])
      BY <3>1 DEF KernelInv, Chains
    <3>3. home[p] \in Terms /\ depth[p] \in Int
      BY <1>0 DEF TypeOK
    <3>4. task_counter'[home[p]] \in Int /\ task_counter'[home[p]] >= task_counter[home[p]]
      BY <1>0, <1>1, <3>3, StartEffect DEF TypeOK
    <3>5. depth'[p] \in 1 .. task_counter'[home'[p]]
      BY <1>0, <3>1, <3>2, <3>3, <3>4 DEF TypeOK
    <3>6. ASSUME depth[p] > 1
          PROVE  /\ Live(parent_id[p])'
                 /\ home'[parent_id'[p]] = home'[p]
                 /\ depth'[parent_id'[p]] = depth'[p] - 1
                 /\ saved'[p] = At("user", parent_id'[p], parent_id'[p])
      <4>1. parent_id[p] # new
        BY <3>2, <3>6, StartEffect
      <4>2. Trapped(saved)[p] = saved[p]
        BY <3>1, <3>6, TrapHarmless
      <4>3. QED
        BY <3>1, <3>2, <3>6, <4>1, <4>2, StartEffect DEF Live
    <3>7. QED
      BY <3>1, <3>2, <3>5, <3>6
  <2>5. QED
    BY <1>1, <2>2, <2>3, <2>4
<1>4. \A p, q \in Pids :
          (Live(p)' /\ Live(q)' /\ home'[p] = home'[q] /\ depth'[p] = depth'[q])
              => p = q
  <2>1. \A p \in Pids \ {new} : Live(p) /\ home[p] = t => depth[p] < task_counter[t] + 1
    BY <1>0, <1>1 DEF KernelInv, Chains, TypeOK
  <2>2. QED
    BY <1>0, <1>1, <2>1, StartEffect DEF KernelInv, Chains, TypeOK
<1>5. QED
  BY <1>2, <1>3, <1>4 DEF Chains

LEMMA StartBaseSlots ==
    ASSUME KernelInv, NEW t \in Terms, NEW prog, NEW frame,
           NEW point \in {"launch", "boot"},
           StartProcess(t, prog, frame, point),
           StartCondition(t, frame)
    PROVE  BaseSlots'
<1> USE ConstantsAssumption
<1>0. TypeOK
  BY DEF KernelInv, TypeInv
<1>1. \A u \in Terms : ~Restarting(u)'
  BY DEF StartProcess, Restarting, At
<1>2. Terms \subseteq Pids
  BY DEF Terms, Pids
<1>3. SUFFICES ASSUME NEW u \in Terms
      PROVE  /\ running_pcb'[u] = NULL => pcb_counter'[u] = 0 /\ task_counter'[u] = 0
             /\ running_pcb'[u] # NULL => Live(u)'
             /\ Live(u)' => home'[u] = u /\ depth'[u] = 1 /\ task_counter'[u] > 0
  BY <1>1 DEF BaseSlots
<1>4. /\ running_pcb[u] = NULL => pcb_counter[u] = 0 /\ task_counter[u] = 0
      /\ running_pcb[u] # NULL => Live(u) \/ Restarting(u)
      /\ Restarting(u) => ~Live(u)
      /\ Live(u) => home[u] = u /\ depth[u] = 1 /\ task_counter[u] > 0
  BY DEF KernelInv, BaseSlots
<1>5. task_counter[t] \in Int /\ task_counter[t] >= 0
  BY <1>0 DEF KernelInv, Chains, TypeOK
<1>6. find_pid # NULL
  BY StartEffect DEF Pids, NULL
<1>7. CASE u = t /\ task_counter[t] = 0
  BY <1>2, <1>6, <1>7, StartEffect DEF StartCondition, Live
<1>8. CASE u = t /\ task_counter[t] > 0
  <2>1. find_pid # u /\ running_pcb[t] # NULL
    BY <1>4, <1>8 DEF StartCondition
  <2>2. ~Restarting(u)
    BY <1>8 DEF Restarting
  <2>3. QED
    BY <1>2, <1>4, <1>5, <1>6, <1>8, <2>1, <2>2, StartEffect
<1>9. CASE u # t
  <2>1. find_pid # u
    BY <1>5, <1>9 DEF StartCondition
  <2>2. ~Restarting(u)
    BY <1>9 DEF StartCondition
  <2>3. QED
    BY <1>2, <1>4, <1>9, <2>1, <2>2, StartEffect DEF Live
<1>10. QED
  BY <1>5, <1>7, <1>8, <1>9

\* A context that stays where it is stays good when a process is started.
LEMMA StartResumable ==
    ASSUME KernelInv, NEW t \in Terms, NEW prog, NEW frame, NEW point,
           StartProcess(t, prog, frame, point),
           NEW c, NEW p, NEW u, Resumable(c, p, u)
    PROVE  /\ c.at \in Parked /\ c.who = p /\ c.stk \in Pids
           /\ pcb_counter'[c.stk] = 1 /\ home'[c.stk] = u
           /\ c.at # "launch" => c.stk = p
<1>1. c.stk \in Pids \ {find_pid}
  BY StartEffect DEF Resumable
<1>2. QED
  BY <1>1, StartEffect DEF Resumable, Live

\* The processor just after a process has been started.
LEMMA StartProcessor ==
    ASSUME KernelInv, NEW t \in Terms, NEW prog, NEW frame,
           NEW point \in {"launch", "boot"},
           StartProcess(t, prog, frame, point),
           running_term' = t,
           point = "launch" => /\ frame.stk \in Pids
                               /\ pcb_counter'[frame.stk] = 1
                               /\ home'[frame.stk] = t
    PROVE  Processor' /\ Halted'
<1>1. cpu' = At(point, frame.stk, find_pid) /\ cpu'.at = point
      /\ cpu'.stk = frame.stk /\ cpu'.who = find_pid
  BY DEF StartProcess, At
<1>2. current_pcb_pointer' = find_pid /\ tss_esp0' = find_pid /\ prog_page' = find_pid
  BY DEF StartProcess
<1>3. running_pcb'[t] = find_pid /\ task_counter'[t] > 0
  BY StartEffect DEF KernelInv, Chains, TypeInv, TypeOK
<1>4. Halted'
  BY <1>1 DEF Halted
<1>5. ASSUME point = "launch"
      PROVE  Resumable(Interrupted, cpu.who, running_term)'
  <2>1. Interrupted' = [cpu' EXCEPT !.stk = cpu'.stk]
    BY <1>1, <1>5 DEF Interrupted, KernelStack
  <2>2. /\ Interrupted'.at = "launch" /\ Interrupted'.who = cpu'.who
        /\ Interrupted'.stk = frame.stk
    BY <1>1, <1>5, <2>1 DEF At
  <2>3. QED
    BY <1>1, <1>5, <2>2 DEF Resumable, Parked, Live
<1>6. Processor'
  <2>1. CASE point = "launch"
    BY <1>1, <1>2, <1>3, <1>5, <2>1 DEF Processor
  <2>2. CASE point = "boot"
    BY <1>1, <1>2, <1>3, <2>2 DEF Processor, Parked
  <2>3. QED
    BY <2>1, <2>2
<1>7. QED
  BY <1>4, <1>6

\* Slots of terminals that are up are in use, except the one being restarted.
LEMMA BaseSlotLive ==
    ASSUME KernelInv, NEW u \in Terms, running_pcb[u] # NULL, ~Restarting(u)
    PROVE  Live(u) /\ u \in Pids
BY ConstantsAssumption DEF KernelInv, BaseSlots, Terms, Pids

LEMMA ClaimInv ==
    ASSUME KernelInv, cpu.at = "claim",
           StartProcess(running_term, cpu.prog, CallFrame, "launch"),
           UNCHANGED <<context, running_term, display_term, vid_page,
                       exception_flag>>
    PROVE  BootOrder' /\ BaseSlots' /\ Chains' /\ Processor' /\ Halted' /\ Waiting'
<1> USE ConstantsAssumption
<1> DEFINE t == running_term
<1>1. /\ t \in Terms /\ cpu.who \in Pids /\ cpu.who = current_pcb_pointer
      /\ cpu.who = running_pcb[t] /\ task_counter[t] > 0
      /\ Live(cpu.who) /\ home[cpu.who] = t
  BY ProcessorFacts DEF Parked
<1>2. cpu.stk = cpu.who
  <2>1. Resumable(Interrupted, cpu.who, running_term)
    BY DEF KernelInv, Processor, Parked
  <2>2. Interrupted = [cpu EXCEPT !.stk = cpu.stk]
    BY DEF Interrupted, KernelStack
  <2>3. Interrupted.stk = cpu.stk /\ Interrupted.at = "claim"
    BY <2>2 DEF KernelInv, TypeInv, TypeOK, Context
  <2>4. QED
    BY <2>1, <2>3 DEF Resumable
<1>3. Booted
  BY DEF KernelInv, BootOrder
<1>4. \A u \in Terms : ~Restarting(u)
  BY DEF Restarting
<1>5. find_pid \notin Terms
  <2>1. \A u \in Terms : Live(u)
    BY <1>3, <1>4, BaseSlotLive DEF Booted
  <2>2. QED
    BY <1>1, <2>1, StartEffect
<1>6. StartCondition(t, CallFrame)
  BY <1>1, <1>2, <1>4, <1>5 DEF StartCondition, CallFrame
<1>7. Chains' /\ BaseSlots'
  BY <1>1, <1>6, StartChains, StartBaseSlots
<1>8. Processor' /\ Halted'
  <2>1. CallFrame.stk = cpu.who
    BY <1>2 DEF CallFrame, At
  <2>2. cpu.who # find_pid
    BY <1>1, StartEffect
  <2>3. pcb_counter'[cpu.who] = 1 /\ home'[cpu.who] = t
    BY <1>1, <2>2, StartEffect DEF Live
  <2>4. QED
    BY <1>1, <2>1, <2>3, StartProcessor
<1>9. BootOrder'
  <2>1. Booted'
    BY <1>1, <1>3, StartEffect DEF Booted, NULL, Pids
  <2>2. cpu'.at = "launch"
    BY DEF StartProcess, At
  <2>3. QED
    BY <1>1, <2>1, <2>2 DEF BootOrder
<1>10. Waiting'
  <2>1. SUFFICES ASSUME NEW u \in Terms \ {t}, running_pcb'[u] # NULL
                 PROVE  /\ task_counter'[u] > 0
                        /\ Resumable(context[running_pcb[u]], running_pcb[u], u)'
    BY DEF Waiting
  <2>2. running_pcb'[u] = running_pcb[u] /\ task_counter'[u] = task_counter[u]
    BY <1>1, <2>1, StartEffect
  <2>3. /\ task_counter[u] > 0
        /\ Resumable(context[running_pcb[u]], running_pcb[u], u)
    BY <2>1, <2>2 DEF KernelInv, Waiting
  <2>4. QED
    BY <1>1, <2>2, <2>3, StartResumable DEF Resumable, Live
<1>11. QED
  BY <1>7, <1>8, <1>9, <1>10

\* The slot of the base shell that halted is free for the next one.
LEMMA RestartStarts ==
    ASSUME KernelInv, HaltRestart
    PROVE  /\ cpu.at = "halted" /\ task_counter[running_term] = 0
           /\ running_term \in Terms
           /\ StartProcess(running_term, "shell", [Lost EXCEPT !.stk = cpu.stk],
                           "launch")
           /\ UNCHANGED <<context, running_term, display_term, vid_page,
                          exception_flag>>
<1>1. running_term \in Terms /\ Restarting(running_term)
  BY DEF HaltRestart, KernelInv, BootOrder, Restarting
<1>2. running_term \in Pids /\ pcb_counter[running_term] = 0
  <2>1. running_term \in Pids
    BY <1>1, ConstantsAssumption DEF Terms, Pids
  <2>2. ~Live(running_term)
    BY <1>1 DEF KernelInv, BaseSlots
  <2>3. QED
    BY <2>1, <2>2 DEF KernelInv, TypeInv, TypeOK, Live
<1>3. find_pid # 0
  BY <1>2, FindPid DEF FreePids
<1>4. QED
  BY <1>1, <1>3 DEF HaltRestart

LEMMA RestartInv ==
    ASSUME KernelInv, HaltRestart
    PROVE  BootOrder' /\ BaseSlots' /\ Chains' /\ Processor' /\ Halted' /\ Waiting'
<1> USE ConstantsAssumption
<1> DEFINE t == running_term
           frame == [Lost EXCEPT !.stk = cpu.stk]
<1>1. /\ cpu.at = "halted" /\ task_counter[t] = 0
      /\ StartProcess(t, "shell", frame, "launch")
      /\ UNCHANGED <<context, running_term, display_term, vid_page, exception_flag>>
  BY RestartStarts
<1>2. /\ t \in Terms /\ cpu.who = t /\ cpu.stk = t
      /\ current_pcb_pointer \in Pids /\ running_pcb[t] # NULL
  BY <1>1 DEF KernelInv, BootOrder, Halted
<1>3. Restarting(t) /\ \A u \in Terms : Restarting(u) => u = t
  BY <1>1 DEF Restarting
<1>4. find_pid = t
  <2>1. ~Live(t) /\ t \in Pids
    BY <1>2, <1>3 DEF KernelInv, BaseSlots, Terms, Pids
  <2>2. pcb_counter[t] = 0
    BY <2>1 DEF KernelInv, TypeInv, TypeOK, Live
  <2>3. \A u \in Terms : u < t => Live(u)
    <3>1. TAKE u \in Terms
    <3>2. HAVE u < t
    <3>3. running_pcb[u] # NULL
      BY <1>2, <3>2 DEF KernelInv, BootOrder, Booted, Terms
    <3>4. ~Restarting(u)
      BY <1>2, <1>3, <3>2 DEF Terms
    <3>5. QED
      BY <3>3, <3>4, BaseSlotLive
  <2>4. find_pid \in Pids /\ ~Live(find_pid)
    BY <1>1, <1>2, StartEffect
  <2>5. ~(find_pid < t)
    BY <1>2, <2>3, <2>4 DEF Terms, Pids
  <2>6. FreePids # {}
    BY <2>1, <2>2 DEF FreePids
  <2>7. ~(t < find_pid)
    BY <2>1, <2>2, <2>6, FindPid
  <2>8. QED
    BY <1>2, <2>4, <2>5, <2>7 DEF Terms, Pids
<1>5. StartCondition(t, frame)
  BY <1>1, <1>2, <1>3, <1>4 DEF StartCondition
<1>6. Chains' /\ BaseSlots'
  BY <1>1, <1>2, <1>5, StartChains, StartBaseSlots
<1>7. Processor' /\ Halted'
  <2>1. frame.stk = t
    BY <1>2 DEF Lost, At
  <2>2. t \in Pids /\ pcb_counter'[t] = 1 /\ home'[t] = t
    BY <1>1, <1>2, <1>4, StartEffect
  <2>3. QED
    BY <1>1, <1>2, <2>1, <2>2, StartProcessor
<1>8. BootOrder'
  <2>1. running_pcb'[t] # NULL /\ \A u \in Terms \ {t} : running_pcb'[u] = running_pcb[u]
    BY <1>1, <1>2, StartEffect DEF NULL, Pids
  <2>2. cpu'.at = "launch"
    BY <1>1 DEF StartProcess, At
  <2>3. Booted' \/ \A u \in Terms : running_pcb'[u] # NULL <=> u <= running_term'
    BY <1>1, <1>2, <2>1 DEF KernelInv, BootOrder, Booted
  <2>4. QED
    BY <1>1, <1>2, <2>2, <2>3 DEF BootOrder
<1>9. Waiting'
  <2>1. SUFFICES ASSUME NEW u \in Terms \ {t}, running_pcb'[u] # NULL
                 PROVE  /\ task_counter'[u] > 0
                        /\ Resumable(context[running_pcb[u]], running_pcb[u], u)'
    BY <1>1 DEF Waiting
  <2>2. running_pcb'[u] = running_pcb[u] /\ task_counter'[u] = task_counter[u]
    BY <1>1, <1>2, <2>1, StartEffect
  <2>3. /\ task_counter[u] > 0
        /\ Resumable(context[running_pcb[u]], running_pcb[u], u)
    BY <2>1, <2>2 DEF KernelInv, Waiting
  <2>4. QED
    BY <1>1, <1>2, <2>2, <2>3, StartResumable DEF Resumable, Live
<1>10. QED
  BY <1>6, <1>7, <1>8, <1>9

\* A base shell is started in the first terminal that has none.
LEMMA BootNext ==
    ASSUME KernelInv, SafeTimer, StartBaseShell
    PROVE  /\ \A u \in Terms : ~Restarting(u)
           /\ \A u \in Terms : running_pcb[u] # NULL <=> u <= running_term
           /\ running_term \in 0 .. TERM_NUM
           /\ NextTerm \in Terms /\ NextTerm = running_term + 1
           /\ running_pcb[NextTerm] = NULL
<1> USE ConstantsAssumption
<1>1. \A u \in Terms : ~Restarting(u)
  <2>1. cpu.at \in Parked \cup {"idle"}
    BY SafeTick DEF StartBaseShell
  <2>2. QED
    BY <2>1 DEF Restarting, Parked
<1>2. PICK i \in Terms : pcb_counter[i] = 0
  BY DEF StartBaseShell, ShellMissing
<1>3. running_pcb[i] = NULL
  BY <1>1, <1>2, BaseSlotLive DEF Live
<1>4. \A u \in Terms : running_pcb[u] # NULL <=> u <= running_term
  BY <1>3 DEF KernelInv, BootOrder, Booted
<1>5. running_term \in 0 .. TERM_NUM /\ running_term < i
  BY <1>3, <1>4 DEF KernelInv, TypeInv, TypeOK, Terms
<1>6. NextTerm \in Terms /\ NextTerm = running_term + 1
  BY <1>5, NextTermRange DEF Terms
<1>7. running_pcb[NextTerm] = NULL
  BY <1>4, <1>5, <1>6
<1>8. QED
  BY <1>1, <1>4, <1>5, <1>6, <1>7

LEMMA BootInv ==
    ASSUME KernelInv, SafeTimer, StartBaseShell
    PROVE  BootOrder' /\ BaseSlots' /\ Chains' /\ Processor' /\ Halted' /\ Waiting'
<1> USE ConstantsAssumption
<1> DEFINE t == NextTerm
<1>1. /\ running_term' = t /\ SaveContext
      /\ StartProcess(t, "shell", Interrupted, "boot")
  BY DEF StartBaseShell
<1>2. cpu.at \in Parked \cup {"idle"}
  BY SafeTick DEF StartBaseShell
<1>3. \A u \in Terms : ~Restarting(u)
  BY BootNext
<1>4. \A u \in Terms : running_pcb[u] # NULL <=> u <= running_term
  BY BootNext
<1>5. running_term \in 0 .. TERM_NUM
  BY BootNext
<1>6. t \in Terms /\ t = running_term + 1 /\ t \in Pids
  BY BootNext DEF Terms, Pids
<1>7. running_pcb[t] = NULL /\ pcb_counter[t] = 0 /\ task_counter[t] = 0
  BY <1>6, BootNext DEF KernelInv, BaseSlots
<1>8. find_pid = t
  <2>1. \A u \in Terms : u < t => Live(u)
    BY <1>3, <1>4, <1>5, <1>6, BaseSlotLive DEF Terms
  <2>2. FreePids # {}
    BY <1>6, <1>7 DEF FreePids
  <2>3. find_pid \in Pids /\ ~Live(find_pid) /\ ~(t < find_pid)
    BY <1>1, <1>6, <1>7, <2>2, FindPid, StartEffect
  <2>4. ~(find_pid < t)
    BY <1>6, <2>1, <2>3 DEF Terms, Pids
  <2>5. QED
    BY <1>6, <2>3, <2>4 DEF Terms, Pids
<1>9. current_pcb_pointer \in Pids
  <2>1. CASE cpu.at \in Parked
    BY <2>1, ProcessorFacts
  <2>2. CASE cpu.at = "idle"
    BY <2>2 DEF KernelInv, Processor, Pids
  <2>3. QED
    BY <1>2, <2>1, <2>2
<1>10. StartCondition(t, Interrupted)
  BY <1>3, <1>7, <1>8, <1>9 DEF StartCondition
<1>11. Chains' /\ BaseSlots'
  BY <1>1, <1>6, <1>10, StartChains, StartBaseSlots
<1>12. Processor' /\ Halted'
  BY <1>1, <1>6, StartProcessor
<1>13. BootOrder'
  <2>1. running_pcb'[t] # NULL /\ \A u \in Terms \ {t} : running_pcb'[u] = running_pcb[u]
    BY <1>1, <1>6, StartEffect DEF NULL, Pids
  <2>2. \A u \in Terms : running_pcb'[u] # NULL <=> u <= running_term'
    BY <1>1, <1>4, <1>5, <1>6, <2>1 DEF Terms
  <2>3. cpu'.at = "boot"
    BY <1>1 DEF StartProcess, At
  <2>4. QED
    BY <1>1, <1>6, <2>2, <2>3 DEF BootOrder
<1>14. Waiting'
  <2>1. SUFFICES ASSUME NEW u \in Terms \ {t}, running_pcb'[u] # NULL
                 PROVE  /\ task_counter'[u] > 0
                        /\ Resumable(context[running_pcb[u]], running_pcb[u], u)'
    BY <1>1 DEF Waiting
  <2>2. running_pcb'[u] = running_pcb[u] /\ task_counter'[u] = task_counter[u]
    BY <1>1, <1>6, <2>1, StartEffect
  <2>3. cpu.at \in Parked
    BY <1>2, <2>1, <2>2 DEF KernelInv, BootOrder
  <2>4. /\ task_counter[u] > 0 /\ running_pcb[u] \in Pids
        /\ Resumable(context'[running_pcb[u]], running_pcb[u], u)
    <3>1. Trapped(context) \in [Pids -> Context]
      BY ContextTypes DEF KernelInv, TypeInv, TypeOK
    <3>2. context' = [Trapped(context) EXCEPT ![current_pcb_pointer] = Interrupted]
      BY <1>1 DEF SaveContext
    <3>3. CASE u = running_term
      <4>1. running_pcb[u] = current_pcb_pointer /\ task_counter[u] > 0
        BY <2>3, <3>3, ProcessorFacts
      <4>2. Resumable(Interrupted, running_pcb[u], u)
        BY <2>3, <3>3, <4>1, ProcessorFacts DEF KernelInv, Processor
      <4>3. QED
        BY <1>9, <3>1, <3>2, <4>1, <4>2
    <3>4. CASE u # running_term
      <4>1. /\ task_counter[u] > 0
            /\ Resumable(context[running_pcb[u]], running_pcb[u], u)
        BY <2>1, <2>2, <3>4 DEF KernelInv, Waiting
      <4>2. running_pcb[u] \in Pids /\ home[running_pcb[u]] = u
        BY <4>1 DEF KernelInv, Chains
      <4>3. running_pcb[u] # current_pcb_pointer
        BY <2>3, <3>4, <4>2, ProcessorFacts
      <4>4. Trapped(context)[running_pcb[u]] = context[running_pcb[u]]
        BY <2>1, <2>2, <3>4, TrapHarmless
      <4>5. QED
        BY <3>1, <3>2, <4>1, <4>2, <4>3, <4>4
    <3>5. QED
      BY <3>3, <3>4
  <2>5. QED
    BY <1>1, <1>6, <2>2, <2>4, StartResumable DEF Resumable, Live
<1>15. QED
  BY <1>11, <1>12, <1>13, <1>14

-----------------------------------------------------------------------------
(***************************************************************************)
(* Switching and halting                                                   *)
(***************************************************************************)

LEMMA SwitchInv ==
    ASSUME KernelInv, SafeTimer, SwitchTerminal
    PROVE  BootOrder' /\ BaseSlots' /\ Chains' /\ Processor' /\ Halted' /\ Waiting'
<1> USE ConstantsAssumption
<1>0. TypeOK
  BY DEF KernelInv, TypeInv
<1>1. /\ ~ShellMissing /\ running_term' = NextTerm /\ SaveContext
      /\ saved' = Trapped(saved)
      /\ current_pcb_pointer' = running_pcb[NextTerm]
      /\ UNCHANGED <<pcb_counter, parent_id, parent_pcb, home, depth,
                     task_counter, running_pcb>>
  BY DEF SwitchTerminal, termVars
<1>2. Terms \subseteq Pids /\ NextTerm \in Terms
  BY <1>0, NextTermRange DEF Terms, Pids, TypeOK
<1>3. \A u \in Terms : Live(u) /\ running_pcb[u] # NULL
  BY <1>0, <1>1, <1>2 DEF ShellMissing, KernelInv, BaseSlots, Live, TypeOK
<1>4. cpu.at \in Parked
  <2>1. cpu.at \in Parked \cup {"idle"}
    BY SafeTick DEF SwitchTerminal
  <2>2. QED
    BY <1>2, <1>3, <2>1 DEF KernelInv, BootOrder
<1>5. \A u \in Terms : ~Restarting(u)
  BY <1>4 DEF Restarting, Parked
<1>6. \A u \in Terms :
          /\ task_counter[u] > 0 /\ running_pcb[u] \in Pids
          /\ Resumable(context'[running_pcb[u]], running_pcb[u], u)
  <2>1. TAKE u \in Terms
  <2>2. Trapped(context) \in [Pids -> Context]
    BY <1>0, ContextTypes DEF TypeOK
  <2>3. context' = [Trapped(context) EXCEPT ![current_pcb_pointer] = Interrupted]
    BY <1>1 DEF SaveContext
  <2>4. CASE u = running_term
    <3>1. running_pcb[u] = current_pcb_pointer /\ task_counter[u] > 0
          /\ current_pcb_pointer \in Pids
      BY <1>4, <2>4, ProcessorFacts
    <3>2. Resumable(Interrupted, running_pcb[u], u)
      BY <1>4, <2>4, <3>1, ProcessorFacts DEF KernelInv, Processor
    <3>3. QED
      BY <2>2, <2>3, <3>1, <3>2
  <2>5. CASE u # running_term
    <3>1. /\ task_counter[u] > 0
          /\ Resumable(context[running_pcb[u]], running_pcb[u], u)
      BY <1>3, <2>5 DEF KernelInv, Waiting
    <3>2. running_pcb[u] \in Pids /\ home[running_pcb[u]] = u
      BY <3>1 DEF KernelInv, Chains
    <3>3. running_pcb[u] # current_pcb_pointer
      BY <1>4, <2>5, <3>2, ProcessorFacts
    <3>4. Trapped(context)[running_pcb[u]] = context[running_pcb[u]]
      BY <1>3, <2>5, TrapHarmless
    <3>5. QED
      BY <2>2, <2>3, <3>1, <3>2, <3>3, <3>4
  <2>6. QED
    BY <2>4, <2>5
<1> DEFINE np == running_pcb[NextTerm]
           c  == context'[np]
<1>7. /\ np \in Pids /\ np # NULL
      /\ tss_esp0' = np /\ prog_page' = np /\ current_pcb_pointer' = np
      /\ cpu' = Resume(c)
  BY <1>1, <1>2, <1>3, <1>6 DEF SwitchTerminal
<1>8. c \in Context /\ Resumable(c, np, NextTerm)
  <2>1. context' \in [Pids -> Context]
    BY <1>1, SaveContextTypes DEF KernelInv
  <2>2. QED
    BY <1>2, <1>6, <1>7, <2>1
<1>9. /\ cpu'.at = c.at /\ cpu'.who = np /\ cpu'.at \in Parked
      /\ cpu'.at = "user" => cpu'.stk = 0
      /\ cpu'.at # "user" => cpu' = c
  BY <1>7, <1>8 DEF Resume, Resumable, Context
<1>10. Processor' /\ Halted'
  <2>1. Resumable(Interrupted, cpu.who, running_term)'
    <3>1. /\ Interrupted'.at = c.at /\ Interrupted'.who = np
          /\ Interrupted'.stk = c.stk
      <4>1. cpu' \in Context
        BY <1>0, <1>7, <1>8, ContextTypes
      <4>2. Interrupted' = [cpu' EXCEPT !.stk = KernelStack']
        BY DEF Interrupted
      <4>3. KernelStack' = c.stk
        BY <1>7, <1>8, <1>9 DEF KernelStack, Resumable
      <4>4. QED
        BY <1>9, <4>1, <4>2, <4>3 DEF Context
    <3>2. QED
      BY <1>1, <1>8, <1>9, <3>1 DEF Resumable, Live
  <2>2. cpu'.at # "halted" /\ cpu'.at # "idle"
    BY <1>9 DEF Parked
  <2>3. Halted'
    BY <2>2 DEF Halted
  <2>4. Processor'
    BY <1>1, <1>2, <1>6, <1>7, <1>9, <2>1, <2>2 DEF Processor, Parked
  <2>5. QED
    BY <2>3, <2>4
<1>11. BootOrder'
  BY <1>1, <1>2, <1>3, <1>9 DEF BootOrder, Booted, Parked
<1>12. BaseSlots'
  <2>1. \A u \in Terms : ~Restarting(u)'
    BY <1>9 DEF Restarting, Parked
  <2>2. QED
    BY <1>1, <1>3, <2>1 DEF KernelInv, BaseSlots, Live
<1>13. Chains'
  <2>1. \A p \in Pids : Live(p) /\ depth[p] > 1 => saved'[p] = saved[p]
    BY <1>1, TrapHarmless
  <2>2. QED
    BY <1>1, <2>1 DEF KernelInv, Chains, Live
<1>14. Waiting'
  BY <1>1, <1>6 DEF Waiting, Resumable, Live
<1>15. QED
  BY <1>10, <1>11, <1>12, <1>13, <1>14

\* What sys_halt does, by slot and by terminal: p is the halted process.
LEMMA HaltEffect ==
    ASSUME KernelInv, Halt
    PROVE  LET p == current_pcb_pointer
               t == running_term
           IN  /\ t \in Terms /\ p \in Pids /\ Live(p) /\ home[p] = t
               /\ depth[p] = task_counter[t] /\ task_counter[t] \in Nat \ {0}
               /\ p = running_pcb[t] /\ parent_pcb[p] \in Pids
               /\ cpu'.at = "halted" /\ cpu'.who = p /\ cpu'.stk = p
               /\ pcb_counter'[p] = 0
               /\ \A q \in Pids \ {p} : pcb_counter'[q] = pcb_counter[q]
                                        /\ (Live(q)' <=> Live(q))
               /\ task_counter'[t] = task_counter[t] - 1
               /\ running_pcb'[t] = parent_pcb[p]
               /\ \A u \in Terms \ {t} : /\ task_counter'[u] = task_counter[u]
                                        /\ running_pcb'[u] = running_pcb[u]
               /\ current_pcb_pointer' = parent_pcb[p]
               /\ tss_esp0' = parent_id[p] /\ prog_page' = parent_id[p]
               /\ context' = Trapped(context) /\ saved' = Trapped(saved)
               /\ UNCHANGED <<parent_id, parent_pcb, home, depth, running_term>>
<1> DEFINE p == current_pcb_pointer
           t == running_term
<1>0. TypeOK
  BY DEF KernelInv, TypeInv
<1>1. /\ cpu.at \in {"user", "fault"}
      /\ pcb_counter' = [pcb_counter EXCEPT ![p] = 0]
      /\ current_pcb_pointer' = parent_pcb[p]
      /\ running_pcb' = [running_pcb EXCEPT ![t] = parent_pcb[p]]
      /\ task_counter' = [task_counter EXCEPT ![t] = task_counter[t] - 1]
      /\ tss_esp0' = parent_id[p] /\ prog_page' = parent_id[p]
      /\ context' = Trapped(context) /\ saved' = Trapped(saved)
      /\ UNCHANGED <<parent_id, parent_pcb, home, depth, running_term>>
  BY DEF Halt, sys_halt, EspAfterHalt, PageAfterHalt, KernelInv, SlotFound
<1>2. /\ cpu'.at = "halted" /\ cpu'.who = p /\ cpu'.stk = KernelStack
  BY DEF Halt, sys_halt, At
<1>3. /\ t \in Terms /\ p \in Pids /\ Live(p) /\ home[p] = t
      /\ depth[p] = task_counter[t] /\ task_counter[t] > 0
      /\ p = running_pcb[t] /\ p = tss_esp0 /\ p = cpu.who
  BY <1>1, ProcessorFacts DEF Parked
<1>4. task_counter[t] \in Nat \ {0}
  BY <1>0, <1>3 DEF TypeOK
<1>5. parent_pcb[p] \in Pids
  BY <1>3 DEF KernelInv, Chains
<1>6. KernelStack = p
  <2>1. CASE cpu.at = "user"
    BY <1>3, <2>1 DEF KernelStack
  <2>2. CASE cpu.at = "fault"
    <3>1. Resumable(Interrupted, cpu.who, running_term)
      BY <2>2 DEF KernelInv, Processor, Parked
    <3>2. Interrupted.at = "fault" /\ Interrupted.stk = KernelStack
      BY <1>0, <2>2 DEF Interrupted, TypeOK, Context
    <3>3. QED
      BY <1>3, <3>1, <3>2 DEF Resumable
  <2>3. QED
    BY <1>1, <2>1, <2>2
<1>7. /\ pcb_counter'[p] = 0
      /\ \A q \in Pids \ {p} : pcb_counter'[q] = pcb_counter[q]
                               /\ (Live(q)' <=> Live(q))
  BY <1>0, <1>1, <1>3 DEF TypeOK, Live
<1>8. /\ task_counter'[t] = task_counter[t] - 1
      /\ running_pcb'[t] = parent_pcb[p]
      /\ \A u \in Terms \ {t} : /\ task_counter'[u] = task_counter[u]
                               /\ running_pcb'[u] = running_pcb[u]
  BY <1>0, <1>1, <1>3 DEF TypeOK
<1>9. QED
  BY <1>1, <1>2, <1>3, <1>4, <1>5, <1>6, <1>7, <1>8

LEMMA HaltChains ==
    ASSUME KernelInv, Halt
    PROVE  Chains'
<1> USE ConstantsAssumption
<1> DEFINE p == current_pcb_pointer
           t == running_term
<1>0. TypeOK
  BY DEF KernelInv, TypeInv
<1>1. /\ t \in Terms /\ p \in Pids /\ Live(p) /\ home[p] = t
      /\ depth[p] = task_counter[t] /\ task_counter[t] \in Nat \ {0}
      /\ pcb_counter'[p] = 0 /\ \A q \in Pids \ {p} : Live(q)' <=> Live(q)
      /\ task_counter'[t] = task_counter[t] - 1
      /\ running_pcb'[t] = parent_pcb[p]
      /\ \A u \in Terms \ {t} : /\ task_counter'[u] = task_counter[u]
                               /\ running_pcb'[u] = running_pcb[u]
      /\ saved' = Trapped(saved)
      /\ UNCHANGED <<parent_id, parent_pcb, home, depth>>
  BY HaltEffect DEF Live
<1>2. \A q \in Pids \ {p} : Live(q) /\ home[q] = t =>
          depth[q] \in 1 .. (task_counter[t] - 1)
  BY <1>0, <1>1 DEF KernelInv, Chains, TypeOK
<1>3. \A u \in Terms :
          /\ task_counter'[u] >= 0
          /\ task_counter'[u] > 0 => /\ running_pcb'[u] \in Pids
                                     /\ Live(running_pcb[u])'
                                     /\ home'[running_pcb'[u]] = u
                                     /\ depth'[running_pcb'[u]] = task_counter'[u]
  <2>1. TAKE u \in Terms
  <2>2. CASE u = t
    <3>1. task_counter[t] > 1 => /\ parent_pcb[p] \in Pids /\ Live(parent_pcb[p])
                                 /\ home[parent_pcb[p]] = t
                                 /\ depth[parent_pcb[p]] = task_counter[t] - 1
      BY <1>1 DEF KernelInv, Chains
    <3>2. task_counter[t] > 1 => parent_pcb[p] # p
      BY <1>1, <3>1
    <3>3. task_counter[t] > 1 => pcb_counter'[parent_pcb[p]] = 1
      BY <1>1, <3>1, <3>2 DEF Live
    <3>4. QED
      BY <1>1, <2>2, <3>1, <3>3 DEF Live
  <2>3. CASE u # t
    <3>1. /\ task_counter[u] >= 0
          /\ task_counter[u] > 0 => /\ running_pcb[u] \in Pids
                                    /\ Live(running_pcb[u])
                                    /\ home[running_pcb[u]] = u
                                    /\ depth[running_pcb[u]] = task_counter[u]
      BY DEF KernelInv, Chains
    <3>2. task_counter[u] > 0 => pcb_counter'[running_pcb[u]] = 1
      BY <1>1, <2>3, <3>1 DEF Live
    <3>3. QED
      BY <1>1, <2>3, <3>1, <3>2 DEF Live
  <2>4. QED
    BY <2>2, <2>3
<1>4. \A q \in Pids : Live(q)' =>
          /\ depth'[q] \in 1 .. task_counter'[home'[q]]
          /\ depth'[q] = 1 => q \in Terms /\ parent_id'[q] = 0
          /\ parent_pcb'[q] \in Pids
          /\ depth'[q] > 1 => /\ q \notin Terms
                              /\ parent_id'[q] \in Pids
                              /\ parent_pcb'[q] = parent_id'[q]
                              /\ Live(parent_id[q])'
                              /\ home'[parent_id'[q]] = home'[q]
                              /\ depth'[parent_id'[q]] = depth'[q] - 1
                              /\ saved'[q] = At("user", parent_id'[q], parent_id'[q])
  <2>1. SUFFICES ASSUME NEW q \in Pids, Live(q)'
        PROVE /\ depth'[q] \in 1 .. task_counter'[home'[q]]
              /\ depth'[q] = 1 => q \in Terms /\ parent_id'[q] = 0
              /\ parent_pcb'[q] \in Pids
              /\ depth'[q] > 1 => /\ q \notin Terms
                                  /\ parent_id'[q] \in Pids
                                  /\ parent_pcb'[q] = parent_id'[q]
                                  /\ Live(parent_id[q])'
                                  /\ home'[parent_id'[q]] = home'[q]
                                  /\ depth'[parent_id'[q]] = depth'[q] - 1
                                  /\ saved'[q] = At("user", parent_id'[q], parent_id'[q])
    OBVIOUS
  <2>2. q # p /\ Live(q) /\ home[q] \in Terms /\ depth[q] \in Int
    BY <1>0, <1>1, <2>1 DEF TypeOK, Live
  <2>3. /\ depth[q] \in 1 .. task_counter[home[q]]
        /\ depth[q] = 1 => q \in Terms /\ parent_id[q] = 0
        /\ parent_pcb[q] \in Pids
        /\ depth[q] > 1 => /\ q \notin Terms
                           /\ parent_id[q] \in Pids
                           /\ parent_pcb[q] = parent_id[q]
                           /\ Live(parent_id[q])
                           /\ home[parent_id[q]] = home[q]
                           /\ depth[parent_id[q]] = depth[q] - 1
                           /\ saved[q] = At("user", parent_id[q], parent_id[q])
    BY <2>2 DEF KernelInv, Chains
  <2>4. depth'[q] \in 1 .. task_counter'[home'[q]]
    BY <1>1, <1>2, <2>2, <2>3
  <2>5. ASSUME depth[q] > 1
        PROVE  pcb_counter'[parent_id[q]] = 1 /\ saved'[q] = saved[q]
    <3>1. parent_id[q] # p
      <4>1. home[q] = t => depth[q] <= task_counter[t] - 1
        BY <1>1, <1>2, <2>2
      <4>2. QED
        BY <1>1, <2>2, <2>3, <2>5, <4>1
    <3>2. QED
      BY <1>1, <2>2, <2>3, <2>5, <3>1, TrapHarmless DEF Live
  <2>6. QED
    BY <1>1, <2>3, <2>4, <2>5 DEF Live
<1>5. \A q, r \in Pids :
          (Live(q)' /\ Live(r)' /\ home'[q] = home'[r] /\ depth'[q] = depth'[r])
              => q = r
  BY <1>1 DEF KernelInv, Chains
<1>6. QED
  BY <1>3, <1>4, <1>5 DEF Chains

LEMMA HaltInv ==
    ASSUME KernelInv, Halt
    PROVE  BootOrder' /\ BaseSlots' /\ Chains' /\ Processor' /\ Halted' /\ Waiting'
<1> USE ConstantsAssumption
<1> DEFINE p == current_pcb_pointer
           t == running_term
<1>0. TypeOK
  BY DEF KernelInv, TypeInv
<1>1. /\ t \in Terms /\ p \in Pids /\ Live(p) /\ home[p] = t
      /\ depth[p] = task_counter[t] /\ task_counter[t] \in Nat \ {0}
      /\ p = running_pcb[t] /\ parent_pcb[p] \in Pids
      /\ cpu'.at = "halted" /\ cpu'.who = p /\ cpu'.stk = p
      /\ pcb_counter'[p] = 0
      /\ \A q \in Pids \ {p} : pcb_counter'[q] = pcb_counter[q]
                               /\ (Live(q)' <=> Live(q))
      /\ task_counter'[t] = task_counter[t] - 1
      /\ running_pcb'[t] = parent_pcb[p]
      /\ \A u \in Terms \ {t} : /\ task_counter'[u] = task_counter[u]
                               /\ running_pcb'[u] = running_pcb[u]
      /\ UNCHANGED <<parent_id, parent_pcb, home, depth, running_term>>
  BY HaltEffect DEF Live
<1>2. /\ current_pcb_pointer' = parent_pcb[p]
      /\ tss_esp0' = parent_id[p] /\ prog_page' = parent_id[p]
      /\ context' = Trapped(context) /\ saved' = Trapped(saved)
  BY HaltEffect
<1>3. \A u \in Terms : u \in Pids
  BY DEF Terms, Pids
<1>4. running_pcb[t] # NULL /\ running_pcb'[t] # NULL
  BY <1>1 DEF NULL, Pids
<1>5. /\ task_counter[t] = 1 => p = t /\ p \in Terms
      /\ task_counter[t] > 1 =>
            /\ p \notin Terms /\ parent_pcb[p] = parent_id[p]
            /\ saved[p] = At("user", parent_id[p], parent_id[p])
  BY <1>1 DEF KernelInv, Chains, BaseSlots
<1>6. BootOrder'
  BY <1>1, <1>4 DEF KernelInv, BootOrder, Booted
<1>7. Processor'
  BY <1>1 DEF Processor, Parked
<1>8. Halted'
  <2>1. task_counter[t] > 1 => saved'[p] = saved[p]
    BY <1>1, <1>2, TrapHarmless
  <2>2. CASE task_counter[t] = 1
    BY <1>1, <1>2, <1>4, <1>5, <2>2 DEF Halted, Live
  <2>3. CASE task_counter[t] > 1
    BY <1>1, <1>2, <1>4, <1>5, <2>1, <2>3 DEF Halted, Live
  <2>4. QED
    BY <1>1, <2>2, <2>3
<1>9. BaseSlots'
  <2>1. SUFFICES ASSUME NEW u \in Terms
        PROVE  /\ running_pcb'[u] = NULL => pcb_counter'[u] = 0 /\ task_counter'[u] = 0
               /\ running_pcb'[u] # NULL => Live(u)' \/ Restarting(u)'
               /\ Restarting(u)' => ~Live(u)'
               /\ Live(u)' => home'[u] = u /\ depth'[u] = 1 /\ task_counter'[u] > 0
    BY DEF BaseSlots
  <2>2. /\ running_pcb[u] = NULL => pcb_counter[u] = 0 /\ task_counter[u] = 0
        /\ running_pcb[u] # NULL => Live(u) \/ Restarting(u)
        /\ Live(u) => home[u] = u /\ depth[u] = 1 /\ task_counter[u] > 0
    BY DEF KernelInv, BaseSlots
  <2>3. ~Restarting(u)
    BY DEF Restarting, Halt
  <2>4. Restarting(u)' <=> u = t /\ task_counter[t] = 1
    BY <1>1 DEF Restarting
  <2>5. CASE u = t /\ task_counter[t] = 1
    BY <1>1, <1>4, <1>5, <2>4, <2>5 DEF Live
  <2>6. CASE u = t /\ task_counter[t] > 1
    BY <1>1, <1>3, <1>4, <1>5, <2>2, <2>3, <2>4, <2>6
  <2>7. CASE u # t
    <3>1. u # p
      BY <1>1, <1>5, <2>2, <2>7
    <3>2. QED
      BY <1>1, <1>3, <2>2, <2>3, <2>4, <2>7, <3>1
  <2>8. QED
    BY <1>1, <2>5, <2>6, <2>7
<1>10. Waiting'
  <2>1. SUFFICES ASSUME NEW u \in Terms \ {t}, running_pcb'[u] # NULL
                 PROVE  /\ task_counter'[u] > 0
                        /\ Resumable(context[running_pcb[u]], running_pcb[u], u)'
    BY <1>1 DEF Waiting
  <2>2. running_pcb'[u] = running_pcb[u] /\ task_counter'[u] = task_counter[u]
    BY <1>1, <2>1
  <2>3. /\ task_counter[u] > 0
        /\ Resumable(context[running_pcb[u]], running_pcb[u], u)
    BY <2>1, <2>2 DEF KernelInv, Waiting
  <2>4. context'[running_pcb[u]] = context[running_pcb[u]]
    BY <1>2, <2>1, <2>2, TrapHarmless
  <2>5. context[running_pcb[u]].stk # p
    BY <1>1, <2>1, <2>3 DEF Resumable
  <2>6. QED
    BY <1>1, <2>2, <2>3, <2>4, <2>5 DEF Resumable, Live
<1>11. QED
  BY <1>6, <1>7, <1>8, <1>9, <1>10, HaltChains

-----------------------------------------------------------------------------
(***************************************************************************)
(* Steps that start and end no process                                     *)
(***************************************************************************)

\* The running process goes on at another point of its own code.
LEMMA ProcessorMoves ==
    ASSUME KernelInv, cpu.at \in Parked \cup {"boot"},
           UNCHANGED <<pcb_counter, home, task_counter, running_pcb,
                       current_pcb_pointer, running_term, tss_esp0, prog_page>>,
           cpu' \in Context, cpu'.who = cpu.who, cpu'.at \in Parked \ {"launch"},
           cpu'.at = "user" => cpu'.stk = 0,
           cpu'.at # "user" => cpu'.stk = cpu.who,
           cpu'.at \in {"lookup", "claim"} => Booted
    PROVE  BootOrder' /\ Processor' /\ Halted'
<1>1. /\ running_term \in Terms /\ cpu.who \in Pids /\ Live(cpu.who)
      /\ home[cpu.who] = running_term /\ task_counter[running_term] > 0
      /\ cpu.who = current_pcb_pointer /\ cpu.who = running_pcb[running_term]
      /\ cpu.who = tss_esp0 /\ cpu.who = prog_page
  BY ProcessorFacts
<1>2. cpu'.at # "idle" /\ cpu'.at # "halted" /\ cpu'.at # "boot"
  BY DEF Parked
<1>3. BootOrder'
  BY <1>1, <1>2 DEF KernelInv, BootOrder, Booted, Parked
<1>4. Halted'
  BY <1>2 DEF Halted
<1>5. Resumable(Interrupted, cpu.who, running_term)'
  <2>1. KernelStack' = cpu.who
    BY <1>1 DEF KernelStack
  <2>2. Interrupted' = [cpu' EXCEPT !.stk = KernelStack']
    BY DEF Interrupted
  <2>3. Interrupted'.at = cpu'.at /\ Interrupted'.who = cpu.who
        /\ Interrupted'.stk = cpu.who
    BY <2>1, <2>2 DEF Context
  <2>4. QED
    BY <1>1, <2>3 DEF Resumable, Live
<1>6. Processor'
  BY <1>1, <1>2, <1>5 DEF Processor
<1>7. QED
  BY <1>3, <1>4, <1>6

\* Steps that leave the processor where it is and the machine as it was.
LEMMA ProcessorStays ==
    ASSUME KernelInv,
           UNCHANGED <<pcb_counter, parent_id, home, task_counter, running_pcb,
                       current_pcb_pointer, running_term, tss_esp0, prog_page,
                       cpu>>,
           saved' = Trapped(saved) \/ saved' = saved
    PROVE  BootOrder' /\ Processor' /\ Halted'
<1>1. BootOrder'
  BY DEF KernelInv, BootOrder, Booted
<1>2. Processor'
  BY DEF KernelInv, Processor, Resumable, Interrupted, KernelStack, Live
<1>3. Halted'
  <2>1. cpu.at = "halted" => saved'[cpu.who] = saved[cpu.who]
    BY DEF Trapped, KernelInv, Halted
  <2>2. QED
    BY <2>1 DEF KernelInv, Halted, Live
<1>4. QED
  BY <1>1, <1>2, <1>3

LEMMA QuietInv ==
    ASSUME KernelInv, SafeTimer, TypeInv',
           \/ \E prog \in Programs \cup {NoFile} : ExecuteCall(prog)
           \/ ExecuteRejected
           \/ CheckPosition
           \/ Iret
           \/ Exception
           \/ HaltReturn
           \/ FileCalls
           \/ sys_vidmap
           \/ \E t \in Terms : ShowTerminal(t)
           \/ UNCHANGED vars
    PROVE  BootOrder' /\ BaseSlots' /\ Chains' /\ Processor' /\ Halted' /\ Waiting'
<1>0. TypeOK /\ cpu' \in Context
  BY DEF KernelInv, TypeInv, TypeOK
<1>1. ASSUME NEW prog \in Programs \cup {NoFile}, ExecuteCall(prog)
      PROVE  BootOrder' /\ BaseSlots' /\ Chains' /\ Processor' /\ Halted' /\ Waiting'
  <2>1. cpu.at = "user" /\ Booted
    BY <1>1 DEF ExecuteCall, SafeTimer
  <2>2. cpu'.at = "lookup" /\ cpu'.who = cpu.who /\ cpu'.stk = tss_esp0
    BY <1>0, <1>1 DEF ExecuteCall, TypeOK, Context
  <2>3. tss_esp0 = cpu.who
    BY <2>1, ProcessorFacts DEF Parked
  <2>4. BootOrder' /\ Processor' /\ Halted'
    BY <1>0, <1>1, <2>1, <2>2, <2>3, ProcessorMoves DEF ExecuteCall, Parked, termVars
  <2>5. QED
    BY <1>1, <2>1, <2>2, <2>4, QuietStep DEF ExecuteCall, termVars
<1>2. ASSUME cpu.at \in Parked \cup {"boot"}, BackToUser,
             UNCHANGED <<pcbVars, termVars, current_pcb_pointer, running_term,
                         tss_esp0, prog_page>>
      PROVE  BootOrder' /\ BaseSlots' /\ Chains' /\ Processor' /\ Halted' /\ Waiting'
  <2>1. cpu'.at = "user" /\ cpu'.stk = 0 /\ cpu'.who = cpu.who
    BY <1>2 DEF BackToUser, At
  <2>2. BootOrder' /\ Processor' /\ Halted'
    BY <1>0, <1>2, <2>1, ProcessorMoves DEF Parked, pcbVars, termVars
  <2>3. QED
    BY <1>2, <2>1, <2>2, QuietStep DEF Parked, pcbVars, termVars
<1>3. CASE ExecuteRejected \/ Iret
  BY <1>2, <1>3 DEF ExecuteRejected, Iret, Parked
<1>4. CASE CheckPosition
  <2>1. CASE find_pid = 0
    BY <1>2, <1>4, <2>1 DEF CheckPosition, Parked
  <2>2. CASE find_pid # 0
    <3>1. /\ cpu.at = "lookup" /\ cpu' = [cpu EXCEPT !.at = "claim"]
          /\ UNCHANGED <<pcbVars, termVars, current_pcb_pointer, running_term,
                         tss_esp0, prog_page>>
      BY <1>4, <2>2 DEF CheckPosition
    <3>2. cpu'.at = "claim" /\ cpu'.who = cpu.who /\ cpu'.stk = cpu.stk
      BY <1>0, <3>1 DEF TypeOK, Context
    <3>3. Booted
      BY <3>1 DEF KernelInv, BootOrder
    <3>4. cpu.stk = cpu.who
      <4>1. Resumable(Interrupted, cpu.who, running_term)
        BY <3>1 DEF KernelInv, Processor, Parked
      <4>2. Interrupted = [cpu EXCEPT !.stk = cpu.stk]
        BY <3>1 DEF Interrupted, KernelStack
      <4>3. Interrupted.stk = cpu.stk /\ Interrupted.at = "lookup"
        BY <1>0, <3>1, <4>2 DEF TypeOK, Context
      <4>4. QED
        BY <4>1, <4>3 DEF Resumable
    <3>5. BootOrder' /\ Processor' /\ Halted'
      BY <1>0, <3>1, <3>2, <3>3, <3>4, ProcessorMoves DEF Parked, pcbVars, termVars
    <3>6. QED
      BY <3>1, <3>2, <3>5, QuietStep DEF pcbVars, termVars
  <2>3. QED
    BY <2>1, <2>2
<1>5. CASE Exception
  <2>1. cpu.at = "user" /\ cpu'.at = "fault" /\ cpu'.who = cpu.who
        /\ cpu'.stk = tss_esp0
    BY <1>5 DEF Exception, At
  <2>2. tss_esp0 = cpu.who
    BY <2>1, ProcessorFacts DEF Parked
  <2>3. BootOrder' /\ Processor' /\ Halted'
    BY <1>0, <1>5, <2>1, <2>2, ProcessorMoves DEF Exception, Parked, termVars
  <2>4. QED
    BY <1>5, <2>1, <2>3, QuietStep DEF Exception, termVars
<1>6. CASE HaltReturn
  <2>1. /\ cpu.at = "halted" /\ task_counter[running_term] # 0
        /\ prog_page # 0 => cpu' = Resume(saved[cpu.who])
        /\ UNCHANGED <<pcbVars, termVars, current_pcb_pointer, running_term,
                       tss_esp0, prog_page>>
    BY <1>6 DEF HaltReturn
  <2>2. running_term \in Terms /\ task_counter[running_term] > 0
    BY <1>0, <2>1 DEF KernelInv, BootOrder, Chains, TypeOK
  <2>3. /\ saved[cpu.who] = At("user", current_pcb_pointer, current_pcb_pointer)
        /\ current_pcb_pointer = running_pcb[running_term]
        /\ tss_esp0 = current_pcb_pointer /\ prog_page = current_pcb_pointer
        /\ prog_page # 0
    BY <2>1, <2>2 DEF KernelInv, Halted, Pids
  <2>4. cpu'.at = "user" /\ cpu'.stk = 0 /\ cpu'.who = current_pcb_pointer
    BY <2>1, <2>3 DEF Resume, At
  <2>5. current_pcb_pointer \in Pids /\ Live(current_pcb_pointer)
        /\ home[current_pcb_pointer] = running_term
    BY <2>2, <2>3 DEF KernelInv, Chains
  <2>6. Resumable(Interrupted, cpu.who, running_term)'
    <3>1. Interrupted' = [cpu' EXCEPT !.stk = current_pcb_pointer]
      BY <2>1, <2>3, <2>4 DEF Interrupted, KernelStack
    <3>2. Interrupted'.at = "user" /\ Interrupted'.who = current_pcb_pointer
          /\ Interrupted'.stk = current_pcb_pointer
      BY <1>0, <2>4, <3>1 DEF Context
    <3>3. QED
      BY <2>1, <2>4, <2>5, <3>2 DEF Resumable, Parked, Live, pcbVars
  <2>7. BootOrder' /\ Processor' /\ Halted'
    <3>1. BootOrder'
      BY <2>1, <2>2, <2>4 DEF KernelInv, BootOrder, Booted, termVars
    <3>2. Processor'
      BY <2>1, <2>2, <2>3, <2>4, <2>6 DEF Processor, termVars
    <3>3. QED
      BY <2>4, <3>1, <3>2 DEF Halted
  <2>8. QED
    BY <2>1, <2>4, <2>7, QuietStep DEF pcbVars, termVars
<1>7. CASE FileCalls \/ sys_vidmap \/ (\E t \in Terms : ShowTerminal(t))
           \/ UNCHANGED vars
  <2>1. /\ UNCHANGED <<pcb_counter, parent_id, parent_pcb, home, depth,
                       task_counter, running_pcb, current_pcb_pointer,
                       running_term, tss_esp0, prog_page, cpu>>
        /\ saved' = Trapped(saved) \/ saved' = saved
        /\ context' = Trapped(context) \/ context' = context
    BY <1>7 DEF FileCalls, sys_open, sys_close, sys_vidmap, ShowTerminal, vars,
                pcbVars, termVars, machVars
  <2>2. QED
    BY <2>1, ProcessorStays, QuietStep
<1>8. QED
  BY <1>1, <1>3, <1>4, <1>5, <1>6, <1>7

-----------------------------------------------------------------------------
(***************************************************************************)
(* The invariant is inductive                                              *)
(***************************************************************************)

LEMMA KernelInit == Init => KernelInv
<1> SUFFICES ASSUME Init PROVE KernelInv
  OBVIOUS
<1> USE ConstantsAssumption
<1>1. TypeInv
  BY TypeInit
<1>2. /\ cpu.at = "idle" /\ running_term = 0 /\ current_pcb_pointer = 1
      /\ \A t \in Terms : running_pcb[t] = NULL /\ task_counter[t] = 0
      /\ \A p \in Pids : pcb_counter[p] = 0 /\ ~Live(p)
  BY DEF Init, At, Live
<1>3. Terms \subseteq Pids
  BY DEF Terms, Pids
<1>4. BootOrder
  BY <1>2 DEF BootOrder, Terms
<1>5. BaseSlots
  BY <1>2, <1>3 DEF BaseSlots, Restarting
<1>6. Chains
  BY <1>2 DEF Chains
<1>7. Processor /\ Halted /\ Waiting /\ SlotFound
  BY <1>2 DEF Processor, Halted, Waiting, Parked, SlotFound
<1>8. QED
  BY <1>1, <1>4, <1>5, <1>6, <1>7 DEF KernelInv

\* With a safe timer the slot is taken before anybody else can have it.
LEMMA ClaimStarts ==
    ASSUME KernelInv, ClaimPosition
    PROVE  /\ cpu.at = "claim"
           /\ StartProcess(running_term, cpu.prog, CallFrame, "launch")
           /\ UNCHANGED <<context, running_term, display_term, vid_page,
                          exception_flag>>
BY DEF ClaimPosition, FollowNull, KernelInv, SlotFound

\* The steps after which the kernel holds no slot that it only found.
LEMMA SlotFoundStep ==
    ASSUME SafeTimer, KernelInv, [Next]_vars
    PROVE  SlotFound'
<1> USE ConstantsAssumption
<1>0. TypeOK
  BY DEF KernelInv, TypeInv
<1>1. ASSUME cpu'.at \notin {"claim", "nullfault"}, running_term' = running_term,
             context' = context \/ context' = Trapped(context),
             \A t \in Terms \ {running_term} : running_pcb'[t] = running_pcb[t]
      PROVE  SlotFound'
  <2>1. SUFFICES ASSUME NEW t \in Terms \ {running_term}, running_pcb'[t] # NULL
                 PROVE  context'[running_pcb'[t]].at # "claim"
    BY <1>1 DEF SlotFound
  <2>2. context'[running_pcb[t]] = context[running_pcb[t]]
    BY <1>1, <2>1, TrapHarmless
  <2>3. QED
    BY <1>1, <2>1, <2>2 DEF KernelInv, SlotFound
<1>2. ASSUME cpu' = cpu \/ (cpu' = [cpu EXCEPT !.at = "claim"] /\ find_pid # 0),
             context' = context \/ context' = Trapped(context),
             UNCHANGED <<pcb_counter, running_pcb, running_term>>
      PROVE  SlotFound'
  <2>1. find_pid' = find_pid
    BY <1>2 DEF find_pid, FreePids
  <2>2. cpu'.at = "claim" => find_pid' # 0
    BY <1>2, <2>1 DEF KernelInv, SlotFound
  <2>3. cpu'.at # "nullfault"
    BY <1>0, <1>2 DEF KernelInv, SlotFound, TypeOK, Context
  <2>4. ASSUME NEW t \in Terms \ {running_term}, running_pcb[t] # NULL
        PROVE  context'[running_pcb[t]].at # "claim"
    BY <1>2, <2>4, TrapHarmless DEF KernelInv, SlotFound
  <2>5. QED
    BY <1>2, <2>2, <2>3, <2>4 DEF SlotFound
<1>3. ASSUME scheduler PROVE SlotFound'
  <2>1. /\ running_term' = NextTerm /\ NextTerm \in Terms /\ Interruptible
        /\ context' = [Trapped(context) EXCEPT ![current_pcb_pointer] = Interrupted]
    BY <1>0, <1>3, NextTermRange
    DEF scheduler, StartBaseShell, SwitchTerminal, SaveContext, TypeOK
  <2>2. cpu.at \in Parked \cup {"idle"} /\ cpu.at # "claim"
    BY <2>1, SafeTick
  <2>3. Interrupted.at # "claim"
    BY <1>0, <2>2 DEF Interrupted, TypeOK, Context
  <2>4. Trapped(context) \in [Pids -> Context]
    BY <1>0, ContextTypes DEF TypeOK
  <2>5. ASSUME NEW t \in Terms, running_pcb[t] # NULL
        PROVE  context'[running_pcb[t]].at # "claim"
    <3>1. running_pcb[t] \in Pids
      BY <1>0, <2>5 DEF TypeOK, Pids, Slots, NULL
    <3>2. CASE running_pcb[t] = current_pcb_pointer
      BY <2>1, <2>3, <2>4, <3>1, <3>2
    <3>3. CASE running_pcb[t] # current_pcb_pointer
      <4>1. t # running_term
        BY <2>2, <2>5, <3>3, ProcessorFacts DEF KernelInv, BootOrder
      <4>2. QED
        BY <2>1, <2>4, <2>5, <3>1, <3>3, <4>1, TrapHarmless DEF KernelInv, SlotFound
    <3>4. QED
      BY <3>2, <3>3
  <2>6. CASE StartBaseShell
    <3>1. cpu'.at = "boot" /\ running_pcb' = [running_pcb EXCEPT ![NextTerm] = find_pid]
      BY <2>6 DEF StartBaseShell, StartProcess, At
    <3>2. QED
      BY <1>0, <2>1, <2>5, <3>1 DEF SlotFound, TypeOK
  <2>7. CASE SwitchTerminal
    <3>1. running_pcb' = running_pcb /\ current_pcb_pointer' = running_pcb[NextTerm]
      BY <2>7 DEF SwitchTerminal, termVars
    <3>2. cpu'.at \notin {"claim", "nullfault"}
      <4>1. CASE running_pcb[NextTerm] = NULL
        BY <2>7, <3>1, <4>1 DEF SwitchTerminal, Lost, At
      <4>2. CASE running_pcb[NextTerm] # NULL
        <5>1. running_pcb[NextTerm] # NULL /\ running_pcb[NextTerm] \in Pids
          BY <1>0, <2>1, <4>2 DEF TypeOK, Pids, Slots, NULL
        <5>2. cpu' = Resume(context'[running_pcb[NextTerm]])
          BY <2>7, <3>1, <4>2 DEF SwitchTerminal
        <5>3. context'[running_pcb[NextTerm]].at # "claim"
          BY <2>1, <2>5, <4>2
        <5>4. cpu'.at = context'[running_pcb[NextTerm]].at
          <6>1. context'[running_pcb[NextTerm]] \in Context
            BY <2>1, <2>4, <5>1, ContextTypes, <1>0
          <6>2. QED
            BY <5>2, <6>1 DEF Resume, Context
        <5>5. context'[running_pcb[NextTerm]].at # "nullfault"
          <6>1. CASE running_pcb[NextTerm] = current_pcb_pointer
            <7>1. Interrupted.at = cpu.at
              BY <1>0 DEF Interrupted, TypeOK, Context
            <7>2. context'[running_pcb[NextTerm]] = Interrupted
              BY <2>1, <2>4, <5>1, <6>1
            <7>3. QED
              BY <2>2, <7>1, <7>2 DEF Parked
          <6>2. CASE running_pcb[NextTerm] # current_pcb_pointer
            <7>1. NextTerm # running_term
              <8>1. cpu.at # "idle"
                BY <2>1, <5>1 DEF KernelInv, BootOrder
              <8>2. current_pcb_pointer = running_pcb[running_term]
                BY <2>2, <8>1, ProcessorFacts
              <8>3. QED
                BY <6>2, <8>2
            <7>2. context'[running_pcb[NextTerm]] = context[running_pcb[NextTerm]]
              BY <2>1, <2>4, <5>1, <6>2, <7>1, TrapHarmless
            <7>3. QED
              BY <2>1, <5>1, <7>1, <7>2 DEF KernelInv, Waiting, Resumable, Parked
          <6>3. QED
            BY <6>1, <6>2
        <5>6. QED
          BY <5>3, <5>4, <5>5
      <4>3. QED
        BY <4>1, <4>2
    <3>3. QED
      BY <2>1, <2>5, <3>1, <3>2 DEF SlotFound
  <2>8. QED
    BY <1>3, <2>6, <2>7 DEF scheduler
<1>4. CASE ClaimPosition \/ HaltRestart
  <2>1. /\ cpu'.at = "launch" /\ UNCHANGED <<context, running_term>>
        /\ running_pcb' = [running_pcb EXCEPT ![running_term] = find_pid]
    BY <1>4, ClaimStarts, RestartStarts DEF StartProcess, At
  <2>2. QED
    BY <1>0, <1>1, <2>1 DEF TypeOK
<1>5. CASE Halt
  <2>1. /\ cpu'.at = "halted" /\ running_term' = running_term
        /\ context' = Trapped(context)
        /\ running_pcb' = [running_pcb EXCEPT ![running_term] =
                                parent_pcb[current_pcb_pointer]]
    BY <1>5 DEF Halt, sys_halt, At
  <2>2. QED
    BY <1>0, <1>1, <2>1 DEF TypeOK
<1>6. CASE HaltReturn
  <2>1. KernelInv /\ cpu.at = "halted" /\ running_term \in Terms
        /\ task_counter[running_term] > 0
    BY <1>0, <1>6 DEF HaltReturn, KernelInv, BootOrder, Chains, TypeOK
  <2>2. cpu'.at \in {"user", "lost"}
    BY <1>6, <2>1 DEF HaltReturn, KernelInv, Halted, Resume, Lost, At
  <2>3. QED
    BY <1>1, <1>6, <2>2 DEF HaltReturn, pcbVars, termVars
<1>7. CASE CheckPosition
  <2>1. CASE find_pid = 0
    BY <1>1, <1>7, <2>1 DEF CheckPosition, BackToUser, At, pcbVars, termVars
  <2>2. CASE find_pid # 0
    BY <1>2, <1>7, <2>2 DEF CheckPosition, pcbVars, termVars
  <2>3. QED
    BY <2>1, <2>2
<1>8. CASE ExecuteRejected \/ Iret \/ Exception
           \/ \E prog \in Programs \cup {NoFile} : ExecuteCall(prog)
  <2>1. cpu'.at \in {"user", "fault", "lookup"}
    <3>1. CASE ExecuteRejected \/ Iret \/ Exception
      BY <3>1 DEF ExecuteRejected, Iret, Exception, BackToUser, At
    <3>2. CASE \E prog \in Programs \cup {NoFile} : ExecuteCall(prog)
      BY <1>0, <3>2 DEF ExecuteCall, TypeOK, Context
    <3>3. QED
      BY <1>8, <3>1, <3>2
  <2>2. /\ context' = context \/ context' = Trapped(context)
        /\ running_pcb' = running_pcb /\ running_term' = running_term
    BY <1>8 DEF ExecuteRejected, Iret, Exception, ExecuteCall, pcbVars, termVars
  <2>3. QED
    BY <1>1, <2>1, <2>2
<1>9. CASE FileCalls \/ sys_vidmap \/ (\E t \in Terms : ShowTerminal(t))
           \/ UNCHANGED vars
  <2>1. /\ UNCHANGED <<pcb_counter, running_pcb, running_term, cpu>>
        /\ context' = context \/ context' = Trapped(context)
    BY <1>9 DEF FileCalls, sys_open, sys_close, sys_vidmap, ShowTerminal, vars,
                pcbVars, termVars, machVars
  <2>2. QED
    BY <1>2, <2>1
<1>10. QED
  BY <1>3, <1>4, <1>5, <1>6, <1>7, <1>8, <1>9 DEF Next, Execute

LEMMA KernelStepInv ==
    ASSUME SafeTimer, KernelInv, [Next]_vars
    PROVE  KernelInv'
<1>1. TypeInv' /\ SlotFound'
  BY TypeStep, SlotFoundStep DEF KernelInv
<1>2. CASE ClaimPosition
  BY <1>1, <1>2, ClaimInv, ClaimStarts DEF KernelInv
<1>3. CASE Halt
  BY <1>1, <1>3, HaltInv DEF KernelInv
<1>4. CASE HaltRestart
  BY <1>1, <1>4, RestartInv DEF KernelInv
<1>5. CASE scheduler
  BY <1>1, <1>5, BootInv, SwitchInv DEF scheduler, KernelInv
<1>6. CASE \/ \E prog \in Programs \cup {NoFile} : ExecuteCall(prog)
           \/ ExecuteRejected \/ CheckPosition \/ Iret \/ Exception \/ HaltReturn
           \/ FileCalls \/ sys_vidmap \/ (\E t \in Terms : ShowTerminal(t))
           \/ UNCHANGED vars
  BY <1>1, <1>6, QuietInv DEF KernelInv
<1>7. QED
  BY <1>2, <1>3, <1>4, <1>5, <1>6 DEF Next, Execute

\* The inductive invariant holds in every reachable state.
THEOREM KernelInvariant == SafeTimer /\ Spec => []KernelInv
<1>1. SafeTimer /\ KernelInv /\ [Next]_vars => KernelInv'
  BY KernelStepInv
<1>2. SafeTimer => SafeTimer'
  BY DEF SafeTimer
<1>3. QED
  BY KernelInit, <1>1, <1>2, PTL DEF Spec

-----------------------------------------------------------------------------
(***************************************************************************)
(* The properties                                                          *)
(***************************************************************************)

\* The registers, the TSS, the page and the PCB pointer always belong to one
\* live process (sys_execute, sys_halt and scheduler never mix two of them).
THEOREM MachineTheorem == SafeTimer /\ Spec => []MachineMatchesProcess
<1>1. KernelInv => MachineMatchesProcess
  BY ProcessorFacts DEF MachineMatchesProcess, Parked
<1>2. QED
  BY KernelInvariant, <1>1, PTL

\* The scheduler always has an intact context to switch to.
THEOREM WaitingTheorem == SafeTimer /\ Spec => []WaitingContextsIntact
<1>1. KernelInv => WaitingContextsIntact
  BY DEF KernelInv, Waiting, Resumable, WaitingContextsIntact, Parked
<1>2. QED
  BY KernelInvariant, <1>1, PTL

\* execute and halt keep the processes of each terminal in one chain.
THEOREM TreeTheorem == SafeTimer /\ Spec => []ProcessTree
<1>1. KernelInv => ProcessTree
  BY DEF KernelInv, Chains, ProcessTree
<1>2. QED
  BY KernelInvariant, <1>1, PTL

\* The frame of a call of execute survives until the child halts.
THEOREM FramesTheorem == SafeTimer /\ Spec => []BlockedFramesIntact
<1>1. KernelInv => BlockedFramesIntact
  BY DEF KernelInv, Chains, BlockedFramesIntact
<1>2. QED
  BY KernelInvariant, <1>1, PTL

\* sys_halt returns into the parent with the parent's stack and page.
THEOREM HaltTheorem == SafeTimer /\ Spec => []HaltReturnsToParent
<1>1. KernelInv => HaltReturnsToParent
  <2>1. SUFFICES ASSUME KernelInv, cpu.at = "halted",
                        task_counter[running_term] # 0
                 PROVE  HaltReturnsToParent
    BY DEF HaltReturnsToParent
  <2>2. running_term \in Terms
    BY <2>1 DEF KernelInv, BootOrder
  <2>3. task_counter[running_term] > 0
    BY <2>1, <2>2 DEF KernelInv, Chains, TypeInv, TypeOK
  <2>4. QED
    BY <2>1, <2>3 DEF KernelInv, Halted, HaltReturnsToParent
<1>2. QED
  BY KernelInvariant, <1>1, PTL

\* Base shells keep the slots 1..TERM_NUM through every exit and restart.
THEOREM SlotsTheorem == SafeTimer /\ Spec => []BaseShellSlots
<1>1. KernelInv => BaseShellSlots
  <2>1. SUFFICES ASSUME KernelInv, NEW p \in Pids, Live(p)
                 PROVE  (p \in Terms <=> depth[p] = 1) /\ (p \in Terms => home[p] = p)
    BY DEF BaseShellSlots
  <2>2. p \in Terms => home[p] = p /\ depth[p] = 1
    BY <2>1 DEF KernelInv, BaseSlots
  <2>3. depth[p] = 1 => p \in Terms
    BY <2>1 DEF KernelInv, Chains
  <2>4. QED
    BY <2>2, <2>3
<1>2. QED
  BY KernelInvariant, <1>1, PTL

\* A tick saves the context of the running process and of no other terminal's.
LEMMA SaveOwnContext ==
    ASSUME KernelInv, SafeTimer, Interruptible, SaveContext,
           NEW t \in Terms \ {running_term}, running_pcb[t] # NULL
    PROVE  context'[running_pcb[t]] = context[running_pcb[t]]
<1>1. cpu.at \in Parked
  BY SafeTick DEF KernelInv, BootOrder
<1>2. running_pcb[t] \in Pids /\ home[running_pcb[t]] = t
  BY DEF KernelInv, Waiting, Chains
<1>3. running_pcb[t] # current_pcb_pointer
  BY <1>1, <1>2, ProcessorFacts
<1>4. Trapped(context) \in [Pids -> Context]
  BY ContextTypes DEF KernelInv, TypeInv, TypeOK
<1>5. QED
  BY <1>2, <1>3, <1>4, TrapHarmless DEF SaveContext

\* A process started in one terminal leaves those of the others alone.
LEMMA StartKept ==
    ASSUME KernelInv, NEW u \in Terms, NEW prog, NEW frame, NEW point,
           StartProcess(u, prog, frame, point), NEW t \in Terms \ {u}
    PROVE  ProcessesKept(t)
<1>0. TypeOK
  BY DEF KernelInv, TypeInv
<1>1. find_pid \in Pids /\ ~Live(find_pid)
  BY StartEffect
<1>2. /\ task_counter'[t] = task_counter[t]
      /\ running_pcb'[t] = running_pcb[t]
      /\ terminal_process_running'[t] = terminal_process_running[t]
      /\ terminal_shell_counter'[t] = terminal_shell_counter[t]
      /\ flags'[t] = flags[t]
  BY <1>0 DEF StartProcess, CountTask, TypeOK
<1>3. ASSUME NEW p \in Pids, Live(p), home[p] = t
      PROVE  /\ pcb_counter'[p] = 1
             /\ parent_id'[p] = parent_id[p] /\ parent_pcb'[p] = parent_pcb[p]
             /\ cmd'[p] = cmd[p] /\ home'[p] = t /\ depth'[p] = depth[p]
             /\ depth[p] > 1 => saved'[p] = saved[p]
             /\ files'[p] = files[p]
  <2>1. p # find_pid
    BY <1>1, <1>3
  <2>2. Trapped(saved) \in [Pids -> Context]
    BY <1>0, ContextTypes DEF TypeOK
  <2>3. depth[p] > 1 => Trapped(saved)[p] = saved[p]
    BY <1>3, TrapHarmless
  <2>4. QED
    BY <1>0, <1>3, <2>1, <2>2, <2>3 DEF StartProcess, Live, TypeOK
<1>4. QED
  BY <1>2, <1>3 DEF ProcessesKept

\* So does the halt of a process, but for the descriptors of the process that a
\* base shell was started from.
LEMMA HaltKept ==
    ASSUME KernelInv, Halt, NEW t \in Terms \ {running_term}
    PROVE  ProcessesKept(t)
<1> USE ConstantsAssumption
<1> DEFINE h == current_pcb_pointer
<1>0. TypeOK
  BY DEF KernelInv, TypeInv
<1>1. /\ h \in Pids /\ Live(h) /\ home[h] = running_term /\ running_term \in Terms
      /\ parent_pcb[h] \in Pids
  BY HaltEffect
<1>2. /\ task_counter'[t] = task_counter[t]
      /\ running_pcb'[t] = running_pcb[t]
      /\ terminal_process_running'[t] = terminal_process_running[t]
      /\ terminal_shell_counter'[t] = terminal_shell_counter[t]
      /\ flags'[t] = flags[t]
  BY <1>0 DEF Halt, sys_halt, TypeOK
<1>3. ASSUME NEW p \in Pids, Live(p), home[p] = t
      PROVE  /\ pcb_counter'[p] = 1
             /\ parent_id'[p] = parent_id[p] /\ parent_pcb'[p] = parent_pcb[p]
             /\ cmd'[p] = cmd[p] /\ home'[p] = t /\ depth'[p] = depth[p]
             /\ depth[p] > 1 => saved'[p] = saved[p]
             /\ files'[p] = files[p] \/ (depth[h] = 1 /\ p = parent_pcb[h]
                                         /\ files'[p] = {})
  <2>1. p # h
    BY <1>1, <1>3
  <2>2. /\ pcb_counter' = [pcb_counter EXCEPT ![h] = 0]
        /\ cmd' = [cmd EXCEPT ![h] = NoCmd]
        /\ files' = [files EXCEPT ![parent_pcb[h]] = {}, ![h] = {}]
        /\ saved' = Trapped(saved)
        /\ UNCHANGED <<parent_id, parent_pcb, home, depth>>
    BY DEF Halt, sys_halt, FilesAfterHalt
  <2>3. depth[p] > 1 => Trapped(saved)[p] = saved[p]
    BY <1>3, TrapHarmless
  <2>4. p = parent_pcb[h] => depth[h] = 1
    <3>1. depth[h] \in 1 .. task_counter[home[h]] /\ depth[h] \in Int
          /\ task_counter[home[h]] \in Int
      BY <1>0, <1>1 DEF KernelInv, Chains, TypeOK
    <3>2. depth[h] > 1 => home[parent_pcb[h]] = home[h]
      BY <1>1 DEF KernelInv, Chains
    <3>3. QED
      BY <1>1, <1>3, <3>1, <3>2
  <2>5. files'[p] = files[p] \/ (p = parent_pcb[h] /\ files'[p] = {})
    BY <1>0, <1>1, <2>1, <2>2 DEF TypeOK
  <2>6. pcb_counter'[p] = 1 /\ cmd'[p] = cmd[p]
    BY <1>0, <1>1, <1>3, <2>1, <2>2 DEF TypeOK, Live
  <2>7. QED
    BY <1>3, <2>2, <2>3, <2>4, <2>5, <2>6
<1>4. QED
  BY <1>2, <1>3 DEF ProcessesKept

LEMMA StepUntouched ==
    ASSUME KernelInv, SafeTimer, Next, NEW t \in Terms, running_pcb[t] # NULL,
           t # running_term \/ running_term' # running_term
    PROVE  /\ ProcessesKept(t)
           /\ t # running_term => context'[running_pcb[t]] = context[running_pcb[t]]
<1> USE ConstantsAssumption
<1>0. TypeOK
  BY DEF KernelInv, TypeInv
<1>1. ASSUME UNCHANGED <<pcb_counter, parent_id, parent_pcb, cmd, home, depth, termVars>>,
             saved' = Trapped(saved) \/ saved' = saved,
             \A p \in Pids : home[p] = t => files'[p] = files[p]
      PROVE  ProcessesKept(t)
  BY <1>1, TrapHarmless DEF ProcessesKept, Live, termVars
<1>2. ASSUME t # running_term, context' = Trapped(context) \/ context' = context
      PROVE  context'[running_pcb[t]] = context[running_pcb[t]]
  BY <1>2, TrapHarmless
<1>3. CASE ClaimPosition
  <2>1. running_term \in Terms /\ running_term' = running_term
    BY <1>3, ClaimStarts DEF KernelInv, BootOrder
  <2>2. QED
    BY <1>2, <1>3, <2>1, ClaimStarts, StartKept
<1>4. CASE HaltRestart
  <2>1. /\ running_term \in Terms /\ running_term' = running_term
        /\ context' = context
    BY <1>4 DEF HaltRestart, KernelInv, BootOrder
  <2>2. QED
    BY <1>2, <1>4, <2>1, RestartStarts, StartKept
<1>5. CASE Halt
  <2>1. running_term' = running_term /\ context' = Trapped(context)
    BY <1>5 DEF Halt, sys_halt
  <2>2. QED
    BY <1>2, <1>5, <2>1, HaltKept
<1>6. CASE StartBaseShell
  <2>1. NextTerm \in Terms
    BY <1>0, NextTermRange DEF TypeOK
  <2>2. running_pcb[NextTerm] = NULL
    BY <1>6, BootNext
  <2>3. QED
    BY <1>6, <2>1, <2>2, SaveOwnContext, StartKept DEF StartBaseShell
<1>7. CASE SwitchTerminal
  BY <1>1, <1>7, SaveOwnContext DEF SwitchTerminal
<1>8. CASE FileCalls
  <2>1. /\ cpu.at = "user" /\ context' = Trapped(context) /\ saved' = Trapped(saved)
        /\ \E F : files' = [files EXCEPT ![current_pcb_pointer] = F]
        /\ UNCHANGED <<pcb_counter, parent_id, parent_pcb, cmd, home, depth, termVars,
                       running_term>>
    BY <1>8 DEF FileCalls, sys_open, sys_close, machVars
  <2>2. home[current_pcb_pointer] = running_term
    BY <2>1, ProcessorFacts DEF Parked
  <2>3. \A p \in Pids : home[p] = t => files'[p] = files[p]
    BY <1>0, <2>1, <2>2 DEF TypeOK
  <2>4. QED
    BY <1>1, <1>2, <2>1, <2>3
<1>9. CASE \/ \E prog \in Programs \cup {NoFile} : ExecuteCall(prog)
           \/ ExecuteRejected \/ CheckPosition \/ Iret \/ Exception \/ HaltReturn
           \/ sys_vidmap \/ \E u \in Terms : ShowTerminal(u)
  <2>1. /\ UNCHANGED <<pcb_counter, parent_id, parent_pcb, cmd, files, home, depth,
                       termVars, running_term>>
        /\ context' = Trapped(context) \/ context' = context
        /\ saved' = Trapped(saved) \/ saved' = saved
    BY <1>9 DEF ExecuteCall, ExecuteRejected, CheckPosition, Iret, Exception,
         HaltReturn, sys_vidmap, ShowTerminal, pcbVars, termVars
  <2>2. QED
    BY <1>1, <1>2, <2>1
<1>10. QED
  BY <1>3, <1>4, <1>5, <1>6, <1>7, <1>8, <1>9 DEF Next, Execute, scheduler

\* A step taken for one terminal changes nothing of the processes of the others,
\* but for the descriptors that the halt of a base shell closes; and a tick changes
\* nothing of the terminal it leaves but the context it saves.
THEOREM UntouchedTheorem == SafeTimer /\ Spec => OtherTerminalsUntouched
<1>1. SafeTimer /\ KernelInv /\ [Next]_vars =>
          [\A t \in Terms :
              (running_pcb[t] # NULL
                  /\ (t # running_term \/ running_term' # running_term))
              => /\ ProcessesKept(t)
                 /\ t # running_term =>
                       context'[running_pcb[t]] = context[running_pcb[t]]]_vars
  BY StepUntouched
<1>2. SafeTimer => []SafeTimer
  <2>1. SafeTimer => SafeTimer'
    BY DEF SafeTimer
  <2>2. QED
    BY <2>1, PTL
<1>3. QED
  BY KernelInvariant, <1>1, <1>2, PTL DEF Spec, OtherTerminalsUntouched

-----------------------------------------------------------------------------
(***************************************************************************)
(* The vidmap page                                                         *)
(***************************************************************************)

\* Only a command maps the page, so it is unmapped until all terminals are up.
VidmapInv == vid_page # Unmapped => Booted

\* Once every terminal has a process, every terminal keeps one.
LEMMA BootedStays ==
    ASSUME KernelInv, Next, Booted
    PROVE  Booted'
<1> USE ConstantsAssumption
<1>0. TypeOK
  BY DEF KernelInv, TypeInv
<1>1. ASSUME NEW t \in Terms, NEW prog, NEW frame, NEW point,
             StartProcess(t, prog, frame, point)
      PROVE  Booted'
  BY <1>1, StartEffect DEF Booted, NULL, Pids
<1>2. CASE ClaimPosition
  BY <1>1, <1>2, ClaimStarts DEF KernelInv, BootOrder
<1>3. CASE HaltRestart
  BY <1>1, <1>3, RestartStarts
<1>4. CASE StartBaseShell
  <2>1. NextTerm \in Terms
    BY <1>0, NextTermRange DEF TypeOK
  <2>2. QED
    BY <1>1, <1>4, <2>1 DEF StartBaseShell
<1>5. CASE Halt
  BY <1>5, HaltEffect DEF Booted, NULL, Pids
<1>6. CASE \/ \E prog \in Programs \cup {NoFile} : ExecuteCall(prog)
           \/ ExecuteRejected \/ CheckPosition \/ Iret \/ Exception \/ HaltReturn
           \/ SwitchTerminal \/ FileCalls \/ sys_vidmap
           \/ \E u \in Terms : ShowTerminal(u)
  BY <1>6 DEF ExecuteCall, ExecuteRejected, CheckPosition, Iret, Exception,
       HaltReturn, SwitchTerminal, FileCalls, sys_open, sys_close, sys_vidmap,
       ShowTerminal, Booted, termVars
<1>7. QED
  BY <1>2, <1>3, <1>4, <1>5, <1>6 DEF Next, Execute, scheduler

\* The page chosen for a terminal is the right one.
LEMMA VidPageRight ==
    ASSUME vid_page' = VidPage(running_term', display_term'), running_term' \in Terms
    PROVE  VidmapRight'
BY ConstantsAssumption DEF VidPage, VidmapRight, Screen, Terms

LEMMA VidmapStep ==
    ASSUME SafeTimer, KernelInv, VidmapInv, [Next]_vars
    PROVE  /\ VidmapInv'
           /\ (running_term' # running_term
                 \/ (VidmapRight /\ display_term' = display_term)) => VidmapRight'
<1> DEFINE Kept == (running_term' # running_term
                      \/ (VidmapRight /\ display_term' = display_term)) => VidmapRight'
<1>1. CASE UNCHANGED vars
  BY <1>1 DEF VidmapInv, VidmapRight, Booted, vars, machVars, termVars
<1>2. CASE Next
  <2>1. Booted => Booted'
    BY <1>2, BootedStays
  <2>2. CASE SwitchTerminal
    <3>1. ~ShellMissing
      BY <2>2 DEF SwitchTerminal
    <3>2. \A t \in Terms : Live(t)
      BY <3>1, ConstantsAssumption DEF ShellMissing, Live, KernelInv, TypeInv, TypeOK,
                                       Terms, Pids
    <3>3. Booted
      BY <3>2 DEF KernelInv, BaseSlots, Booted, Live
    <3>4. /\ vid_page' = VidPage(running_term', display_term')
          /\ running_term' \in Terms
      BY <2>2, NextTermRange
      DEF SwitchTerminal, VidPageAfterSwitch, KernelInv, TypeInv, TypeOK
    <3>5. QED
      BY <2>1, <3>3, <3>4, VidPageRight DEF VidmapInv
  <2>3. CASE StartBaseShell
    <3>1. ~Booted
      BY <2>3, BootNext DEF Booted
    <3>2. vid_page' = vid_page
      BY <2>3 DEF StartBaseShell
    <3>3. QED
      BY <3>1, <3>2 DEF VidmapInv, VidmapRight
  <2>4. CASE Halt
    BY <2>4 DEF Halt, sys_halt, VidmapInv, VidmapRight
  <2>5. CASE sys_vidmap
    <3>1. Booted
      BY <2>5 DEF sys_vidmap, SafeTimer
    <3>2. /\ vid_page' = VidPage(running_term', display_term')
          /\ running_term' \in Terms
      BY <2>5 DEF sys_vidmap, KernelInv, BootOrder
    <3>3. QED
      BY <2>1, <3>1, <3>2, VidPageRight DEF VidmapInv
  <2>6. CASE \/ Execute \/ Exception \/ HaltReturn \/ HaltRestart \/ FileCalls
             \/ \E t \in Terms : ShowTerminal(t)
    <3>1. UNCHANGED <<vid_page, running_term>>
      BY <2>6 DEF Execute, ExecuteCall, ExecuteRejected, CheckPosition, ClaimPosition,
           Iret, Exception, HaltReturn, HaltRestart, FileCalls, sys_open, sys_close,
           ShowTerminal, machVars
    <3>2. QED
      BY <2>1, <3>1 DEF VidmapInv, VidmapRight
  <2>7. QED
    BY <1>2, <2>2, <2>3, <2>4, <2>5, <2>6 DEF Next, scheduler
<1>3. QED
  BY <1>1, <1>2

\* A program draws on the screen when its terminal is displayed and else on its
\* terminal's own page, until Alt+Fn moves the display (sys_vidmap, scheduler,
\* page_halt).
THEOREM VidmapTheorem == SafeTimer /\ Spec => VidmapFollowsTerminal
<1>1. Init => VidmapInv
  BY DEF Init, VidmapInv
<1>2. SafeTimer /\ KernelInv /\ VidmapInv /\ [Next]_vars => VidmapInv'
  BY VidmapStep
<1>3. SafeTimer /\ KernelInv /\ VidmapInv /\ [Next]_vars =>
          [(running_term' # running_term
              \/ (VidmapRight /\ display_term' = display_term)) => VidmapRight']_vars
  BY VidmapStep
<1>4. SafeTimer => SafeTimer'
  BY DEF SafeTimer
<1>5. QED
  BY KernelInvariant, <1>1, <1>2, <1>3, <1>4, PTL DEF Spec, VidmapFollowsTerminal

-----------------------------------------------------------------------------
(***************************************************************************)
(* The exception flag                                                      *)
(***************************************************************************)

\* Points inside an exception handler.
Handling == {"fault", "nullfault"}

\* Without a tick inside the exception handler, the flag is set only while the
\* handler runs, and no context is put aside there.
FlagInv ==
    /\ exception_flag = 1 <=> cpu.at \in Handling
    /\ \A p \in Pids : context[p].at \notin Handling /\ saved[p].at \notin Handling

LEMMA FlagStep ==
    ASSUME "fault" \notin Races, TypeInv, FlagInv, [Next]_vars
    PROVE  FlagInv'
<1> USE DEF Handling
<1>0. TypeOK
  BY DEF TypeInv
<1>1. \A p \in Pids : /\ Trapped(context)[p].at \notin Handling
                       /\ Trapped(saved)[p].at \notin Handling
  BY DEF FlagInv, Trapped, Lost, At
<1>2. /\ context \in [Pids -> Context] /\ Trapped(context) \in [Pids -> Context]
      /\ saved \in [Pids -> Context] /\ Trapped(saved) \in [Pids -> Context]
  BY <1>0, ContextTypes DEF TypeOK
<1>3. \A p \in Pids : /\ Resume(context[p]).at \notin Handling
                       /\ Resume(saved[p]).at \notin Handling
  BY <1>2 DEF FlagInv, Resume, Context
<1>4. ASSUME NEW t \in Terms, NEW prog, NEW frame, NEW point,
             StartProcess(t, prog, frame, point), frame.at \notin Handling
      PROVE  \A p \in Pids : saved'[p].at \notin Handling
  BY <1>1, <1>2, <1>4 DEF StartProcess
<1>5. ASSUME Interruptible
      PROVE  cpu.at \notin Handling /\ Interrupted.at \notin Handling
  <2>1. cpu.at \notin Handling
    BY <1>5, ConstantsAssumption DEF Interruptible, Window, RaceNames
  <2>2. Interrupted.at = cpu.at
    BY <1>0 DEF Interrupted, TypeOK, Context
  <2>3. QED
    BY <2>1, <2>2
<1>6. ASSUME SaveContext, Interruptible
      PROVE  \A p \in Pids : context'[p].at \notin Handling
  BY <1>1, <1>2, <1>5, <1>6 DEF SaveContext
<1>7. CASE UNCHANGED vars
  BY <1>7 DEF FlagInv, vars, pcbVars, machVars
<1>8. CASE ClaimPosition
  <2>1. CASE StartProcess(running_term, cpu.prog, CallFrame, "launch")
    <3>1. CallFrame.at \notin Handling /\ cpu'.at = "launch"
      BY <2>1 DEF CallFrame, StartProcess, At
    <3>2. UNCHANGED <<context, exception_flag>> /\ cpu.at = "claim"
      BY <1>8, <2>1 DEF ClaimPosition, FollowNull, StartProcess, At
    <3>3. \A p \in Pids : saved'[p].at \notin Handling
      <4>1. saved' = [Trapped(saved) EXCEPT ![find_pid] = CallFrame]
        BY <2>1 DEF StartProcess
      <4>2. QED
        BY <1>1, <1>2, <3>1, <4>1
    <3>4. QED
      BY <1>0, <3>1, <3>2, <3>3 DEF FlagInv, TypeOK
  <2>2. CASE FollowNull
    <3>1. /\ cpu'.at = "nullfault" /\ exception_flag' = 1
          /\ context' = context /\ saved' = saved
      BY <1>8, <2>2 DEF ClaimPosition, FollowNull, At
    <3>2. QED
      BY <3>1 DEF FlagInv
  <2>3. QED
    BY <1>8, <2>1, <2>2 DEF ClaimPosition
<1>9. CASE HaltRestart
  <2>1. /\ \/ /\ saved' = [Trapped(saved) EXCEPT ![find_pid] =
                                 [Lost EXCEPT !.stk = cpu.stk]]
              /\ cpu'.at = "launch"
           \/ saved' = saved /\ cpu'.at = "lost"
        /\ UNCHANGED <<context, exception_flag>>
        /\ cpu.at = "halted"
    BY <1>9 DEF HaltRestart, StartProcess, Lost, At
  <2>2. [Lost EXCEPT !.stk = cpu.stk].at \notin Handling
    BY DEF Lost, At
  <2>3. \A p \in Pids : saved'[p].at \notin Handling
    BY <1>1, <1>2, <2>1, <2>2 DEF FlagInv
  <2>4. QED
    BY <2>1, <2>3 DEF FlagInv
<1>10. CASE StartBaseShell
  <2>1. /\ saved' = [Trapped(saved) EXCEPT ![find_pid] = Interrupted]
        /\ cpu'.at = "boot"
        /\ UNCHANGED exception_flag
        /\ Interruptible /\ SaveContext
    BY <1>10 DEF StartBaseShell, StartProcess, At
  <2>2. \A p \in Pids : saved'[p].at \notin Handling
    BY <1>1, <1>2, <1>5, <2>1
  <2>3. QED
    BY <1>5, <1>6, <2>1, <2>2 DEF FlagInv
<1>11. CASE SwitchTerminal
  <2>1. /\ saved' = Trapped(saved) /\ UNCHANGED exception_flag
        /\ Interruptible /\ SaveContext
        /\ current_pcb_pointer' = running_pcb[NextTerm]
        /\ \/ current_pcb_pointer' # NULL /\ cpu' = Resume(context'[current_pcb_pointer'])
           \/ cpu' = Lost
    BY <1>11 DEF SwitchTerminal
  <2>2. \A p \in Pids : context'[p].at \notin Handling
    BY <1>6, <2>1
  <2>3. cpu'.at \notin Handling
    <3>1. NextTerm \in Terms
      BY <1>0, NextTermRange DEF TypeOK
    <3>2. running_pcb[NextTerm] \in Slots
      BY <1>0, <3>1 DEF TypeOK
    <3>3. current_pcb_pointer' # NULL => current_pcb_pointer' \in Pids
      BY <2>1, <3>2 DEF Slots, Pids, NULL
    <3>4. context' \in [Pids -> Context]
      BY <1>0, <1>2, <2>1, ContextTypes DEF SaveContext, TypeOK
    <3>5. \A c \in Context : c.at \notin Handling => Resume(c).at \notin Handling
      BY DEF Resume, Context
    <3>6. Lost.at \notin Handling
      BY DEF Lost, At
    <3>7. QED
      BY <2>1, <2>2, <3>3, <3>4, <3>5, <3>6
  <2>4. QED
    BY <1>1, <1>5, <2>1, <2>2, <2>3 DEF FlagInv
<1>12. CASE Halt
  <2>1. /\ context' = Trapped(context) /\ saved' = Trapped(saved)
        /\ exception_flag' = 0
    BY <1>12 DEF Halt, sys_halt, FlagAfterHalt
  <2>2. cpu'.at = "halted"
    BY <1>12 DEF Halt, sys_halt, At
  <2>3. QED
    BY <1>1, <2>1, <2>2 DEF FlagInv
<1>13. CASE HaltReturn
  <2>1. /\ UNCHANGED <<context, saved, exception_flag>>
        /\ cpu.at = "halted" /\ (cpu' = Lost \/ cpu' = Resume(saved[cpu.who]))
    BY <1>13 DEF HaltReturn, pcbVars
  <2>2. cpu.who \in Pids
    BY <2>1 DEF TypeInv, WellFormed, GoodContext
  <2>3. QED
    BY <1>3, <2>1, <2>2 DEF FlagInv, Lost, At
<1>14. CASE Exception
  BY <1>1, <1>14 DEF Exception, FlagInv, At
<1>15. CASE \/ \E prog \in Programs \cup {NoFile} : ExecuteCall(prog)
            \/ ExecuteRejected \/ CheckPosition \/ Iret \/ FileCalls \/ sys_vidmap
            \/ \E t \in Terms : ShowTerminal(t)
  <2>1. /\ context' = Trapped(context) \/ context' = context
        /\ saved' = Trapped(saved) \/ saved' = saved
        /\ UNCHANGED exception_flag
    BY <1>15 DEF ExecuteCall, ExecuteRejected, CheckPosition, Iret, FileCalls,
         sys_open, sys_close, sys_vidmap, ShowTerminal, pcbVars, machVars
  <2>2. cpu'.at \in Handling <=> cpu.at \in Handling
    <3>1. CASE \E prog \in Programs \cup {NoFile} : ExecuteCall(prog)
      BY <1>0, <3>1 DEF ExecuteCall, TypeOK, Context
    <3>2. CASE CheckPosition
      BY <1>0, <3>2 DEF CheckPosition, BackToUser, At, TypeOK, Context
    <3>3. CASE ExecuteRejected \/ Iret
      BY <3>3 DEF ExecuteRejected, Iret, BackToUser, At
    <3>4. CASE FileCalls \/ sys_vidmap \/ \E t \in Terms : ShowTerminal(t)
      BY <3>4 DEF FileCalls, sys_open, sys_close, sys_vidmap, ShowTerminal, machVars
    <3>5. QED
      BY <1>15, <3>1, <3>2, <3>3, <3>4
  <2>3. QED
    BY <1>1, <2>1, <2>2 DEF FlagInv
<1>16. QED
  BY <1>7, <1>8, <1>9, <1>10, <1>11, <1>12, <1>13, <1>14, <1>15
  DEF Next, Execute, scheduler

\* As long as no tick comes between the flag and the halt of an exception, the
\* status 256 goes to the process that faulted (exception_handler_n, sys_halt).
THEOREM StatusTheorem == "fault" \notin Races /\ Spec => HaltStatus
<1>1. Init => FlagInv
  BY DEF Init, FlagInv, At, Lost, Handling
<1>2. "fault" \notin Races /\ TypeInv /\ FlagInv /\ [Next]_vars => FlagInv'
  BY FlagStep
<1>3. TypeInv /\ FlagInv /\ [Next]_vars =>
          [(cpu'.at = "halted" /\ pcb_counter' # pcb_counter) =>
              /\ cpu.at = "fault" => cpu'.status = 256
              /\ cpu.at = "user"  => cpu'.status # 256]_vars
  <2>1. SUFFICES ASSUME TypeInv, FlagInv, Next, cpu'.at = "halted",
                        pcb_counter' # pcb_counter,
                        cpu.at \in {"fault", "user"}
                 PROVE  cpu'.status = 256 <=> cpu.at = "fault"
    BY DEF vars, machVars
  <2>2. Halt
    <3>1. ~ClaimPosition /\ ~HaltRestart
      BY <2>1 DEF ClaimPosition, HaltRestart
    <3>2. ~StartBaseShell
      BY <2>1 DEF StartBaseShell, StartProcess, At
    <3>3. ~SwitchTerminal
      BY <2>1 DEF SwitchTerminal
    <3>4. ~FileCalls /\ ~sys_vidmap /\ ~Exception
      BY <2>1 DEF FileCalls, sys_open, sys_close, sys_vidmap, Exception
    <3>5. \A t \in Terms : ~ShowTerminal(t)
      BY <2>1 DEF ShowTerminal
    <3>6. ~Iret /\ ~ExecuteRejected /\ ~CheckPosition /\ ~HaltReturn
      BY <2>1 DEF Iret, ExecuteRejected, CheckPosition, HaltReturn
    <3>7. \A prog \in Programs \cup {NoFile} : ~ExecuteCall(prog)
      BY <2>1 DEF ExecuteCall
    <3>8. QED
      BY <2>1, <3>1, <3>2, <3>3, <3>4, <3>5, <3>6, <3>7 DEF Next, Execute, scheduler
  <2>3. QED
    BY <2>1, <2>2 DEF Halt, sys_halt, FlagInv, Handling, TypeInv, TypeOK, At
<1>4. "fault" \notin Races => ("fault" \notin Races)'
  OBVIOUS
<1>5. QED
  BY TypeInit, TypeStep, <1>1, <1>2, <1>3, <1>4, PTL DEF Spec, HaltStatus

-----------------------------------------------------------------------------
(***************************************************************************)
(* The refinement of ProcessStacks                                         *)
(***************************************************************************)

\* The process of terminal t at depth d, as StackOf picks it.
Entry(t, d) == CHOOSE p \in Pids : Live(p) /\ home[p] = t /\ depth[p] = d

\* A chain has no gap: below the running process there is one at every depth.
LEMMA ChainFull ==
    ASSUME KernelInv, NEW t \in Terms, NEW d \in 1 .. task_counter[t]
    PROVE  \E p \in Pids : Live(p) /\ home[p] = t /\ depth[p] = d
<1> DEFINE n == task_counter[t]
           Held(e) == \E p \in Pids : Live(p) /\ home[p] = t /\ depth[p] = e
           Below == {k \in 0 .. n - 1 : ~Held(n - k)}
<1>1. n \in Nat
  BY DEF KernelInv, Chains, TypeInv, TypeOK
<1>2. SUFFICES ASSUME ~Held(d) PROVE FALSE
  OBVIOUS
<1>3. Below \in SUBSET Nat
  BY <1>1
<1>4. Below # {}
  <2>1. n - d \in 0 .. n - 1 /\ n - (n - d) = d
    BY <1>1
  <2>2. ~Held(n - (n - d))
    BY <1>2, <2>1
  <2>3. n - d \in Below
    BY <2>1, <2>2
  <2>4. QED
    BY <2>3
<1>5. PICK k \in Below : \A j \in Below : k <= j
  BY <1>3, <1>4, LeastElement
<1>6. Held(n)
  <2>1. n > 0
    BY <1>1
  <2>2. QED
    BY <2>1 DEF KernelInv, Chains
<1>7. k # 0
  <2>1. n - 0 = n
    BY <1>1
  <2>2. ~Held(n - k)
    BY <1>5
  <2>3. QED
    BY <1>6, <2>1, <2>2
<1>8. k \in 1 .. n - 1 /\ k - 1 \in 0 .. n - 1 /\ n - (k - 1) = (n - k) + 1
  BY <1>1, <1>5, <1>7
<1>9. Held((n - k) + 1)
  <2>1. k - 1 \notin Below
    BY <1>3, <1>5, <1>8
  <2>2. QED
    BY <1>8, <2>1
<1>10. PICK p \in Pids : Live(p) /\ home[p] = t /\ depth[p] = (n - k) + 1
  BY <1>9
<1>11. /\ parent_pcb[p] \in Pids /\ parent_id[p] = parent_pcb[p]
       /\ Live(parent_id[p]) /\ home[parent_id[p]] = t
       /\ depth[parent_id[p]] = n - k
  <2>1. depth[p] > 1
    BY <1>1, <1>8, <1>10
  <2>2. depth[parent_id[p]] = depth[p] - 1 /\ Live(parent_id[p])
        /\ home[parent_id[p]] = home[p] /\ parent_pcb[p] = parent_id[p]
        /\ parent_pcb[p] \in Pids
    BY <1>10, <2>1 DEF KernelInv, Chains
  <2>3. QED
    BY <1>1, <1>8, <1>10, <2>2
<1>12. Held(n - k)
  BY <1>11
<1>13. QED
  BY <1>5, <1>12

\* The entries of a stack are the live processes of its terminal, in order.
LEMMA Entries ==
    ASSUME KernelInv, NEW t \in Terms
    PROVE  /\ task_counter[t] \in Nat
           /\ StackOf[t] = [d \in 1 .. task_counter[t] |-> Entry(t, d)]
           /\ StackOf[t] \in Seq(Pids)
           /\ Len(StackOf[t]) = task_counter[t]
           /\ \A d \in 1 .. task_counter[t] :
                 /\ StackOf[t][d] = Entry(t, d)
                 /\ Entry(t, d) \in Pids
                 /\ Live(Entry(t, d))
                 /\ home[Entry(t, d)] = t
                 /\ depth[Entry(t, d)] = d
<1>1. task_counter[t] \in Nat
  BY DEF KernelInv, Chains, TypeInv, TypeOK
<1>2. StackOf[t] = [d \in 1 .. task_counter[t] |-> Entry(t, d)]
  BY DEF StackOf, Entry
<1>3. ASSUME NEW d \in 1 .. task_counter[t]
      PROVE  /\ Entry(t, d) \in Pids
             /\ Live(Entry(t, d))
             /\ home[Entry(t, d)] = t
             /\ depth[Entry(t, d)] = d
  BY ChainFull, Zenon DEF Entry
<1>4. StackOf[t] \in Seq(Pids) /\ Len(StackOf[t]) = task_counter[t]
  BY <1>1, <1>2, <1>3
<1>5. \A d \in 1 .. task_counter[t] : StackOf[t][d] = Entry(t, d)
  BY <1>2
<1>6. QED
  BY <1>1, <1>2, <1>3, <1>4, <1>5

\* The slots in some stack are those in use.
LEMMA SlotsInUse ==
    ASSUME KernelInv, NEW p \in Pids, ~Live(p)
    PROVE  p \in Pids \ Stacks!InUse
<1>1. ASSUME NEW t \in Terms, p \in Stacks!Range(StackOf[t])
      PROVE  FALSE
  <2>1. DOMAIN StackOf[t] = 1 .. task_counter[t]
    BY DEF StackOf
  <2>2. PICK d \in 1 .. task_counter[t] : p = StackOf[t][d]
    BY <1>1, <2>1 DEF Stacks!Range
  <2>3. QED
    BY <2>2, Entries
<1>2. QED
  BY <1>1 DEF Stacks!InUse, Stacks!Terms, Terms

\* An entry stays the same when the same processes fit it.
LEMMA SameEntry ==
    ASSUME NEW t, NEW d,
           \A p \in Pids : (Live(p) /\ home[p] = t /\ depth[p] = d)'
                               <=> (Live(p) /\ home[p] = t /\ depth[p] = d)
    PROVE  Entry(t, d)' = Entry(t, d)
BY DEF Entry

\* Stacks that keep their height and what fits their entries are the same.
LEMMA SameStack ==
    ASSUME NEW t \in Terms, task_counter'[t] = task_counter[t],
           \A d \in 1 .. task_counter[t] : Entry(t, d)' = Entry(t, d)
    PROVE  StackOf'[t] = StackOf[t]
BY DEF StackOf, Entry

\* Starting a process pushes it on its terminal's stack.
LEMMA Pushes ==
    ASSUME KernelInv, NEW t \in Terms, NEW prog, NEW frame, NEW point,
           StartProcess(t, prog, frame, point)
    PROVE  Stacks!Start(t)
<1>1. PICK n : n = task_counter[t]
  OBVIOUS
<1>2. /\ pcb_counter'[find_pid] = 1 /\ home'[find_pid] = t
      /\ depth'[find_pid] = n + 1
      /\ \A p \in Pids \ {find_pid} : /\ Live(p)' <=> Live(p)
                                      /\ home'[p] = home[p] /\ depth'[p] = depth[p]
  BY <1>1, StartEffect
<1>3. find_pid \in Pids /\ ~Live(find_pid)
  BY StartEffect
<1>4. n \in Nat /\ task_counter'[t] = n + 1
  BY <1>1, Entries, StartEffect
<1>5. ASSUME NEW u \in Terms, NEW d, u # t \/ d \in 1 .. n
      PROVE  Entry(u, d)' = Entry(u, d)
  <2>1. ASSUME NEW p \in Pids
        PROVE  (Live(p) /\ home[p] = u /\ depth[p] = d)'
                   <=> (Live(p) /\ home[p] = u /\ depth[p] = d)
    <3>1. CASE p = find_pid
      <4>1. home'[p] = t /\ depth'[p] = n + 1
        BY <1>2, <3>1
      <4>2. ~(u = t /\ d = n + 1)
        BY <1>4, <1>5
      <4>3. QED
        BY <1>3, <3>1, <4>1, <4>2
    <3>2. CASE p # find_pid
      BY <1>2, <3>2
    <3>3. QED
      BY <3>1, <3>2
  <2>2. QED
    BY <2>1, SameEntry
<1>6. Entry(t, n + 1)' = find_pid
  <2>1. ASSUME NEW p \in Pids
        PROVE  (Live(p) /\ home[p] = t /\ depth[p] = n + 1)' <=> p = find_pid
    <3>1. CASE p = find_pid
      BY <1>2, <3>1 DEF Live
    <3>2. CASE p # find_pid
      <4>1. Live(p) /\ home[p] = t => depth[p] \in 1 .. n
        BY <1>1 DEF KernelInv, Chains
      <4>2. ~(Live(p) /\ home[p] = t /\ depth[p] = n + 1)
        BY <1>4, <4>1
      <4>3. QED
        BY <1>2, <3>2, <4>2
    <3>3. QED
      BY <3>1, <3>2
  <2>2. QED
    BY <1>3, <2>1 DEF Entry
<1>7. ASSUME NEW u \in Terms, u # t
      PROVE  StackOf'[u] = StackOf[u]
  BY <1>5, <1>7, SameStack, StartEffect
<1>8. StackOf'[t] = Append(StackOf[t], find_pid)
  <2>1. StackOf'[t] = [d \in 1 .. n + 1 |-> Entry(t, d)']
    BY <1>4 DEF StackOf, Entry
  <2>2. \A d \in 1 .. n : StackOf[t][d] = Entry(t, d)'
    <3>1. TAKE d \in 1 .. n
    <3>2. StackOf[t][d] = Entry(t, d)
      BY <1>1 DEF StackOf, Entry
    <3>3. QED
      BY <1>5, <3>2
  <2>3. StackOf[t] \in Seq(Pids) /\ Len(StackOf[t]) = n
    BY <1>1, Entries
  <2>4. QED
    <3> DEFINE old == StackOf[t]
               new == StackOf'[t]
               e(d) == Entry(t, d)'
    <3>1. e(n + 1) = find_pid /\ new = [d \in 1 .. n + 1 |-> e(d)]
      BY <1>6, <2>1
    <3>2. old \in Seq(Pids) /\ Len(old) = n /\ \A d \in 1 .. n : old[d] = e(d)
      BY <2>2, <2>3
    <3> HIDE DEF old, new, e
    <3>3. new = Append(old, find_pid)
      BY <1>3, <1>4, <3>1, <3>2
    <3>4. QED
      BY <3>3 DEF old, new
<1>9. StackOf' = [StackOf EXCEPT ![t] = Append(@, find_pid)]
  BY <1>7, <1>8 DEF StackOf
<1>10. QED
  BY <1>3, <1>9, SlotsInUse DEF Stacks!Start

\* Halting pops the running process from its terminal's stack.
LEMMA Pops ==
    ASSUME KernelInv, Halt
    PROVE  Stacks!Halt
<1>0. PICK t, n : t = running_term /\ n = task_counter[t]
  OBVIOUS
<1>1. /\ t \in Terms /\ n \in Nat \ {0} /\ task_counter'[t] = n - 1
      /\ current_pcb_pointer \in Pids /\ UNCHANGED running_term
      /\ home[current_pcb_pointer] = t /\ depth[current_pcb_pointer] = n
  BY <1>0, HaltEffect
<1>2. ASSUME NEW u \in Terms, NEW d, u # t \/ d \in 1 .. n - 1
      PROVE  Entry(u, d)' = Entry(u, d)
  <2>1. ASSUME NEW p \in Pids
        PROVE  (Live(p) /\ home[p] = u /\ depth[p] = d)'
                   <=> (Live(p) /\ home[p] = u /\ depth[p] = d)
    <3>1. CASE p = current_pcb_pointer
      <4>1. ~(u = t /\ d = n)
        BY <1>1, <1>2
      <4>2. home' = home /\ depth' = depth
        BY HaltEffect
      <4>3. QED
        BY <1>1, <3>1, <4>1, <4>2
    <3>2. CASE p # current_pcb_pointer
      BY <1>0, <3>2, HaltEffect
    <3>3. QED
      BY <3>1, <3>2
  <2>2. QED
    BY <2>1, SameEntry
<1>3. ASSUME NEW u \in Terms, u # t
      PROVE  StackOf'[u] = StackOf[u]
  BY <1>0, <1>2, <1>3, SameStack, HaltEffect
<1>4. StackOf'[t] = SubSeq(StackOf[t], 1, Len(StackOf[t]) - 1)
  <2>1. StackOf'[t] = [d \in 1 .. n - 1 |-> Entry(t, d)']
    BY <1>1 DEF StackOf, Entry
  <2>2. \A d \in 1 .. n - 1 : StackOf[t][d] = Entry(t, d)'
    <3>1. TAKE d \in 1 .. n - 1
    <3>2. d \in 1 .. n
      BY <1>1
    <3>3. StackOf[t][d] = Entry(t, d)
      <4>1. \A e \in 1 .. task_counter[t] : StackOf[t][e] = Entry(t, e)
        BY <1>1 DEF StackOf, Entry
      <4>2. QED
        BY <1>0, <3>2, <4>1
    <3>4. QED
      BY <1>1, <1>2, <3>3
  <2>3. StackOf[t] \in Seq(Pids) /\ Len(StackOf[t]) = n
    BY <1>0, <1>1, Entries
  <2>4. QED
    BY <1>1, <2>1, <2>2, <2>3
<1>5. StackOf' = [StackOf EXCEPT ![t] = SubSeq(@, 1, Len(@) - 1)]
  BY <1>3, <1>4 DEF StackOf
<1>6. StackOf[t] # <<>>
  <2>1. Len(StackOf[t]) # 0
    BY <1>0, <1>1, Entries
  <2>2. QED
    BY <2>1
<1>7. QED
  BY <1>0, <1>1, <1>5, <1>6 DEF Stacks!Halt, Stacks!Terms, Terms

\* Steps that start and end no process leave the stacks alone.
LEMMA StacksKept ==
    ASSUME UNCHANGED <<pcb_counter, home, depth, task_counter>>
    PROVE  StackOf' = StackOf
BY DEF StackOf, Live

\* A tick gives the next terminal its turn, and its base shell if it has none.
LEMMA Turns ==
    ASSUME KernelInv, SafeTimer, scheduler
    PROVE  Stacks!Tick
<1> USE ConstantsAssumption
<1>1. NextTerm \in Terms /\ running_term' = NextTerm
  BY NextTermRange DEF scheduler, StartBaseShell, SwitchTerminal, KernelInv, TypeInv, TypeOK
<1>2. running_term' = (running_term % TERM_NUM) + 1
  BY <1>1 DEF NextTerm
<1>3. CASE StartBaseShell
  <2>1. StackOf[NextTerm] = <<>>
    <3>1. task_counter[NextTerm] = 0
      <4>1. cpu.at \in Parked \cup {"idle"}
        BY <1>3, SafeTick DEF StartBaseShell
      <4>2. \A u \in Terms : ~Restarting(u)
        BY <4>1 DEF Restarting, Parked
      <4>3. PICK i \in Terms : pcb_counter[i] = 0
        BY <1>3 DEF StartBaseShell, ShellMissing
      <4>4. running_pcb[i] = NULL
        BY <4>2, <4>3, BaseSlotLive DEF Live
      <4>5. \A u \in Terms : running_pcb[u] # NULL <=> u <= running_term
        BY <4>4 DEF KernelInv, BootOrder, Booted
      <4>6. running_term \in 0 .. TERM_NUM /\ running_term < i
        BY <4>4, <4>5 DEF KernelInv, TypeInv, TypeOK, Terms
      <4>7. NextTerm \in Terms /\ NextTerm = running_term + 1
        BY <4>6, NextTermRange DEF Terms
      <4>8. running_pcb[NextTerm] = NULL
        BY <4>5, <4>6, <4>7
      <4>9. QED
        BY <4>7, <4>8 DEF KernelInv, BaseSlots
    <3>2. Len(StackOf[NextTerm]) = 0 /\ StackOf[NextTerm] \in Seq(Pids)
      BY <1>1, <3>1, Entries
    <3>3. QED
      BY <3>2
  <2>2. Stacks!Start(NextTerm)
    BY <1>1, <1>3, Pushes DEF StartBaseShell
  <2>3. QED
    BY <1>1, <1>2, <2>1, <2>2 DEF Stacks!Tick
<1>4. CASE SwitchTerminal
  <2>1. StackOf[NextTerm] # <<>>
    <3>1. task_counter[NextTerm] > 0
      <4>1. pcb_counter[NextTerm] # 0 /\ NextTerm \in Pids
        BY <1>1, <1>4 DEF SwitchTerminal, ShellMissing, Terms, Pids
      <4>2. Live(NextTerm)
        BY <4>1 DEF Live, KernelInv, TypeInv, TypeOK
      <4>3. QED
        BY <1>1, <4>2 DEF KernelInv, BaseSlots
    <3>2. Len(StackOf[NextTerm]) # 0
      <4>1. Len(StackOf[NextTerm]) = task_counter[NextTerm]
        BY <1>1, Entries
      <4>2. QED
        BY <3>1, <4>1
    <3>3. QED
      BY <3>2
  <2>2. StackOf' = StackOf
    BY <1>4, StacksKept DEF SwitchTerminal, termVars
  <2>3. QED
    BY <1>1, <1>2, <2>1, <2>2 DEF Stacks!Tick
<1>5. QED
  BY <1>3, <1>4 DEF scheduler

\* At the start every stack is empty.
LEMMA StacksStart == Init => Stacks!Init
<1> SUFFICES ASSUME Init PROVE Stacks!Init
  OBVIOUS
<1>1. \A t \in Terms : task_counter[t] = 0
  BY DEF Init
<1>2. \A t \in Terms : StackOf[t] = <<>>
  BY <1>1 DEF StackOf
<1>3. QED
  BY <1>2 DEF Init, Stacks!Init, Stacks!Terms, Terms, StackOf

\* Every step is a push, a pop, a turn, or none of these.
LEMMA StacksStep ==
    ASSUME KernelInv, SafeTimer, [Next]_vars
    PROVE  [Stacks!Execute \/ Stacks!Halt \/ Stacks!Tick]_<<StackOf, running_term>>
<1>1. ASSUME cpu.at \in {"claim", "halted"}
      PROVE  running_term \in Stacks!Terms /\ running_term \in Terms
  BY <1>1 DEF KernelInv, BootOrder, Stacks!Terms, Terms
<1>2. CASE ClaimPosition
  BY <1>1, <1>2, ClaimStarts, Pushes DEF Stacks!Execute
<1>3. CASE HaltRestart
  BY <1>1, <1>3, Pushes, RestartStarts DEF Stacks!Execute
<1>4. CASE Halt
  BY <1>4, Pops
<1>5. CASE scheduler
  BY <1>5, Turns
<1>6. CASE \/ \E prog \in Programs \cup {NoFile} : ExecuteCall(prog)
           \/ ExecuteRejected \/ CheckPosition \/ Iret \/ Exception \/ HaltReturn
           \/ FileCalls \/ sys_vidmap \/ (\E t \in Terms : ShowTerminal(t))
           \/ UNCHANGED vars
  <2>1. UNCHANGED <<pcb_counter, home, depth, task_counter, running_term>>
    BY <1>6 DEF ExecuteCall, ExecuteRejected, CheckPosition, Iret, Exception,
         HaltReturn, FileCalls, sys_open, sys_close, sys_vidmap, ShowTerminal,
         vars, pcbVars, termVars, machVars
  <2>2. QED
    BY <2>1, StacksKept
<1>7. QED
  BY <1>2, <1>3, <1>4, <1>5, <1>6 DEF Next, Execute

\* The process manager implements a stack of processes per terminal: whatever
\* execute, halt, exceptions and the timer do in between, every process is
\* pushed on and popped from the stack of its own terminal while it has its
\* turn, and the turns go round.
THEOREM StacksTheorem == SafeTimer /\ Spec => ImplementsStacks
<1>1. SafeTimer => []SafeTimer
  <2>1. SafeTimer => SafeTimer'
    BY DEF SafeTimer
  <2>2. QED
    BY <2>1, PTL
<1>2. SafeTimer /\ KernelInv /\ [Next]_vars =>
          [Stacks!Execute \/ Stacks!Halt \/ Stacks!Tick]_<<StackOf, running_term>>
  BY StacksStep
<1>3. QED
  BY KernelInvariant, StacksStart, <1>1, <1>2, PTL
     DEF Spec, ImplementsStacks, Stacks!Spec
=============================================================================
