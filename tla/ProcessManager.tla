--------------------------- MODULE ProcessManager ---------------------------
(***************************************************************************)
(* The process manager of the kernel: sys_execute and sys_halt             *)
(* (syscall.c), the round-robin scheduler run by the PIT interrupt         *)
(* (scheduling.c, devices/pit.c), the exception handlers (idt.c) and the   *)
(* machine state they share: PCB slots, kernel stacks, TSS, the program    *)
(* page and the vidmap page.                                               *)
(*                                                                         *)
(* One CPU executes; `cpu' says at which point of the code it is.          *)
(* System calls and exceptions enter through trap gates and keep IF = 1,   *)
(* so the timer may land between any two steps below; every cli()..sti()   *)
(* section of the code is one step, or two when a fault divides it         *)
(* ("nullfault"), and then nothing comes in between.  A pcb_t is           *)
(* identified with its slot number, its pid field (slot k always holds     *)
(* pid k), and the slot's 8 KB kernel stack with that same number; stack 0 *)
(* is the boot stack.                                                      *)
(***************************************************************************)
EXTENDS Integers

CONSTANTS
    TERM_NUM,       \* number of terminals (3 in the code)
    MAX_PCB_NUM,    \* number of PCB slots (6 in the code)
    FD_MAX,         \* largest file descriptor (7 in the code)
    Programs,       \* names of executables a user may run, "shell" included
    ShellBound,     \* bound on terminal_shell_counter, which only grows
    Races           \* the narrow windows in which the timer may also land

\* Points of the kernel at which IF = 1 but a timer tick is harmful, and
\* "early": a command is run before every terminal has its base shell.
RaceNames == {"claim", "boot", "halted", "restart", "fault", "early"}

ASSUME ConstantsAssumption ==
    /\ TERM_NUM \in Nat \ {0}
    /\ MAX_PCB_NUM \in Nat
    /\ MAX_PCB_NUM >= TERM_NUM
    /\ FD_MAX \in Nat
    /\ "shell" \in Programs
    /\ ShellBound \in Nat
    /\ Races \subseteq RaceNames

VARIABLES
    pcb_counter,          \* 1 for a PCB slot in use
    parent_id, parent_pcb, cmd,
    saved,                \* pcb_t.saved_esp/ebp: the frame that called execute
    context,              \* pcb_t.current_esp/ebp: where the timer stopped it
    files,                \* fds 2..FD_MAX whose flag is 1
    home, depth,          \* history: terminal and depth a slot was started at
    task_counter, running_pcb, terminal_process_running,
    terminal_shell_counter,
    flags,                \* which of pingping_flag, fish_flag, grep_flag are 1
    current_pcb_pointer, running_term, display_term,
    tss_esp0,             \* the kernel stack the next trap from user mode uses
    prog_page,            \* the process whose 4 MB page is mapped at 128 MB
    vid_page,             \* what vid_page_table[0] maps
    exception_flag,
    cpu

pcbVars  == <<pcb_counter, parent_id, parent_pcb, cmd, saved, context, files,
              home, depth>>
termVars == <<task_counter, running_pcb, terminal_process_running,
              terminal_shell_counter, flags>>
machVars == <<current_pcb_pointer, running_term, display_term, tss_esp0,
              prog_page, vid_page, exception_flag, cpu>>
vars     == <<pcbVars, termVars, machVars>>

Terms == 1 .. TERM_NUM
Pids  == 1 .. MAX_PCB_NUM
Slots == 0 .. MAX_PCB_NUM         \* 0 is NULL, parent_id 0 and the boot stack
Fds   == 2 .. FD_MAX
NULL  == 0
NoCmd == ""
NoFile == "no such file"          \* a command that names no executable

Masking == {"pingpong", "fish", "grep"}   \* programs that mask typing

\* What vid_page_table[0] maps: nothing, video memory, or a backing page.
Unmapped == -1
Screen   == 0

Points == {"idle", "user", "lookup", "claim", "launch", "boot", "fault",
           "nullfault", "halted", "lost"}
Statuses == {0, 255, 256}

\* An execution context: a point in the code, the kernel stack that holds its
\* frames, the process it works for, and the locals that matter there (the
\* program being executed, the status being returned).
Context == [at : Points, stk : Slots, who : Slots,
            prog : Programs \cup {NoCmd, NoFile}, status : Statuses]

At(point, stk, who) ==
    [at |-> point, stk |-> stk, who |-> who, prog |-> NoCmd, status |-> 0]

\* Frames that another use of their kernel stack has overwritten, and the
\* machine once it has resumed such frames or gone on without a process.
Lost == At("lost", 0, 0)

-----------------------------------------------------------------------------
\* Mutant: the search starts from the last slot.
FindPidFromEnd ==
    LET free == {i \in Pids : pcb_counter[i] = 0}
    IN  IF free = {} THEN 0
        ELSE CHOOSE i \in free : \A j \in free : i >= j

\* find_pid: the lowest free slot, 0 when all are in use
FreePids == {i \in Pids : pcb_counter[i] = 0}
find_pid ==
    IF FreePids = {} THEN 0
    ELSE CHOOSE i \in FreePids : \A j \in FreePids : i <= j

\* Mutant: the backing page of the next terminal.
VidPageOffByOne(t, shown) == IF shown = t THEN Screen ELSE t + 1

VidPage(t, shown) == IF shown = t THEN Screen ELSE t

\* Mutant: the modulus misses the last terminal.
NextTermShort == (running_term % (TERM_NUM - 1)) + 1

NextTerm == (running_term % TERM_NUM) + 1

\* The stack the kernel runs on once it is entered from where the cpu is.
KernelStack == IF cpu.at = "user" THEN tss_esp0 ELSE cpu.stk

\* A trap from user mode starts at the top of stack tss_esp0: frames left there
\* by anyone else are overwritten.
Trapped(frames) ==
    [p \in Pids |-> IF cpu.at = "user" /\ frames[p].stk = tss_esp0
                    THEN Lost ELSE frames[p]]

Interrupted == [cpu EXCEPT !.stk = KernelStack]

\* Return through the frames of a context; in user mode no kernel stack is used.
Resume(c) == IF c.at = "user" THEN [c EXCEPT !.stk = 0] ELSE c

-----------------------------------------------------------------------------
Init ==
    /\ pcb_counter = [p \in Pids |-> 0]
    /\ parent_id   = [p \in Pids |-> 0]
    /\ parent_pcb  = [p \in Pids |-> NULL]
    /\ cmd         = [p \in Pids |-> NoCmd]
    /\ saved       = [p \in Pids |-> Lost]
    /\ context     = [p \in Pids |-> Lost]
    /\ files       = [p \in Pids |-> {}]
    /\ home        = [p \in Pids |-> 1]
    /\ depth       = [p \in Pids |-> 0]
    /\ task_counter = [t \in Terms |-> 0]
    /\ running_pcb  = [t \in Terms |-> NULL]
    /\ terminal_process_running = [t \in Terms |-> 0]
    /\ terminal_shell_counter   = [t \in Terms |-> 1]
    /\ flags        = [t \in Terms |-> {}]
    /\ current_pcb_pointer = 1
    /\ running_term = 0
    /\ display_term = 1
    /\ tss_esp0 = 0
    /\ prog_page = 0
    /\ vid_page = Unmapped
    /\ exception_flag = 0
    /\ cpu = At("idle", 0, 0)

-----------------------------------------------------------------------------
(***************************************************************************)
(* sys_execute                                                             *)
(***************************************************************************)
Booted == \A t \in Terms : running_pcb[t] # NULL

\* A program calls execute.
ExecuteCall(prog) ==
    /\ cpu.at = "user"
    /\ Booted \/ "early" \in Races
    /\ prog = "shell" => terminal_shell_counter[running_term] < ShellBound
    /\ cpu' = [cpu EXCEPT !.at = "lookup", !.stk = tss_esp0, !.prog = prog]
    /\ context' = Trapped(context)
    /\ saved'   = Trapped(saved)
    /\ UNCHANGED <<pcb_counter, parent_id, parent_pcb, cmd, files, home, depth,
                   termVars, current_pcb_pointer, running_term, display_term,
                   tss_esp0, prog_page, vid_page, exception_flag>>

BackToUser == cpu' = At("user", 0, cpu.who)

\* No such file, or not an executable: execute returns -1.
ExecuteRejected ==
    /\ cpu.at = "lookup"
    /\ cpu.prog = NoFile
    /\ BackToUser
    /\ UNCHANGED <<pcbVars, termVars, current_pcb_pointer, running_term,
                   display_term, tss_esp0, prog_page, vid_page, exception_flag>>

\* Mutant: execute waits for a free slot instead of returning.
CheckPositionWaits ==
    /\ cpu.at = "lookup"
    /\ cpu.prog # NoFile
    /\ find_pid # 0
    /\ cpu' = [cpu EXCEPT !.at = "claim"]
    /\ UNCHANGED <<pcbVars, termVars, current_pcb_pointer, running_term,
                   display_term, tss_esp0, prog_page, vid_page, exception_flag>>

\* The test for a free slot, made with interrupts enabled.
CheckPosition ==
    /\ cpu.at = "lookup"
    /\ cpu.prog # NoFile
    /\ IF find_pid = 0 THEN BackToUser ELSE cpu' = [cpu EXCEPT !.at = "claim"]
    /\ UNCHANGED <<pcbVars, termVars, current_pcb_pointer, running_term,
                   display_term, tss_esp0, prog_page, vid_page, exception_flag>>

\* Mutant: the test is made as if task_counter had not been incremented yet.
ParentIdOffByOne(t) == IF task_counter[t] > 1 THEN current_pcb_pointer ELSE 0

\* parent_id of a process started in terminal t: task_counter > 1 after its
\* increment means that it is not the terminal's base shell.
ParentId(t) == IF task_counter[t] > 0 THEN current_pcb_pointer ELSE 0

\* One more task in terminal t: what it runs now, and the keys it masks.
CountTask(t, prog) ==
    LET nested == task_counter[t] > 0
        shell  == prog = "shell"
    IN  /\ task_counter' = [task_counter EXCEPT ![t] = @ + 1]
        /\ terminal_process_running' =
              [terminal_process_running EXCEPT ![t] =
                  IF nested /\ ~shell THEN 2 ELSE 1]
        /\ terminal_shell_counter' =
              [terminal_shell_counter EXCEPT ![t] =
                  IF nested /\ shell THEN @ + 1 ELSE @]
        /\ flags' = [flags EXCEPT ![t] =
                  IF nested THEN @ \cup ({prog} \cap Masking) ELSE @]

\* From cli() to sti(): map and load the program, fill the PCB of a new process
\* in terminal t whose caller is current_pcb_pointer and whose frame is `frame'.
StartProcess(t, prog, frame, point) ==
    LET new == find_pid
    IN  /\ new # 0
        /\ CountTask(t, prog)
        /\ pcb_counter' = [pcb_counter EXCEPT ![new] = 1]
        /\ parent_id'   = [parent_id EXCEPT ![new] = ParentId(t)]
        /\ parent_pcb'  = [parent_pcb EXCEPT ![new] = current_pcb_pointer]
        /\ cmd'         = [cmd EXCEPT ![new] = prog]
        /\ saved'       = [Trapped(saved) EXCEPT ![new] = frame]
        /\ files'       = [files EXCEPT ![new] = {}]
        /\ home'        = [home EXCEPT ![new] = t]
        /\ depth'       = [depth EXCEPT ![new] = task_counter[t] + 1]
        /\ running_pcb'  = [running_pcb EXCEPT ![t] = new]
        /\ current_pcb_pointer' = new
        /\ tss_esp0'  = new
        /\ prog_page' = new
        /\ cpu' = At(point, frame.stk, new)

\* With the last slot gone find_pid() is 0.  The kernel's own page is mapped at
\* 128 MB and the program loaded into it (over what is there: taken to be nothing
\* that these variables hold), the task is counted, and the first store into the
\* new PCB, at NULL, faults with IF = 0.  current_pcb_pointer is still the caller.
FollowNull ==
    /\ find_pid = 0
    /\ CountTask(running_term, cpu.prog)
    /\ prog_page' = 0
    /\ exception_flag' = 1
    /\ cpu' = At("nullfault", cpu.stk, cpu.who)
    /\ UNCHANGED <<pcb_counter, parent_id, parent_pcb, cmd, saved, files, home,
                   depth, running_pcb, current_pcb_pointer, tss_esp0>>

\* Mutant: esp and ebp are read when the new process's stack is already in use.
CallFrameNewStack == At("user", find_pid, cpu.who)

\* The frame of the call of execute, kept in saved_esp and saved_ebp.
CallFrame == At("user", cpu.stk, cpu.who)

\* Mutant: the process is entered in the displayed terminal.
ClaimPositionDisplayed ==
    /\ cpu.at = "claim"
    /\ StartProcess(display_term, cpu.prog, CallFrame, "launch")
    /\ UNCHANGED <<context, running_term, display_term, vid_page, exception_flag>>

ClaimPosition ==
    /\ cpu.at = "claim"
    /\ \/ /\ StartProcess(running_term, cpu.prog, CallFrame, "launch")
          /\ UNCHANGED exception_flag
       \/ FollowNull
    /\ UNCHANGED <<context, running_term, display_term, vid_page>>

\* The IRET at the end of sys_execute enters the program.
Iret ==
    /\ cpu.at \in {"launch", "boot"}
    /\ BackToUser
    /\ UNCHANGED <<pcbVars, termVars, current_pcb_pointer, running_term,
                   display_term, tss_esp0, prog_page, vid_page, exception_flag>>

-----------------------------------------------------------------------------
(***************************************************************************)
(* Exceptions and sys_halt                                                 *)
(***************************************************************************)
\* exception_handler_n, up to its call of sys_halt(255)
Exception ==
    /\ cpu.at = "user"
    /\ exception_flag' = 1
    /\ cpu' = At("fault", tss_esp0, cpu.who)
    /\ context' = Trapped(context)
    /\ saved'   = Trapped(saved)
    /\ UNCHANGED <<pcb_counter, parent_id, parent_pcb, cmd, files, home, depth,
                   termVars, current_pcb_pointer, running_term, display_term,
                   tss_esp0, prog_page, vid_page>>

\* sys_close acts on current_pcb_pointer, which sys_halt has already moved to
\* the parent; the halted process's own flags are then cleared directly.
FilesAfterHalt(p) == [files EXCEPT ![parent_pcb[p]] = {}, ![p] = {}]

\* Mutants: tss.esp0, or the page, of the halted process is left in place.
EspKept(p)  == tss_esp0
PageKept(p) == prog_page

\* tss.esp0 and the program page go back to the parent.
EspAfterHalt(p)  == parent_id[p]
PageAfterHalt(p) == parent_id[p]

\* Mutant: sys_halt does not consume the exception flag.
FlagKept == exception_flag

FlagAfterHalt == 0

\* sys_halt up to its sti()
sys_halt(status) ==
    LET p    == current_pcb_pointer
        t    == running_term
        left == task_counter[t] - 1
        return_status == IF exception_flag = 1 THEN 256 ELSE status
    IN  /\ exception_flag' = FlagAfterHalt
        /\ pcb_counter' = [pcb_counter EXCEPT ![p] = 0]
        /\ current_pcb_pointer' = parent_pcb[p]
        /\ running_pcb' = [running_pcb EXCEPT ![t] = parent_pcb[p]]
        /\ tss_esp0'  = EspAfterHalt(p)
        /\ files'     = FilesAfterHalt(p)
        /\ cmd'       = [cmd EXCEPT ![p] = NoCmd]
        /\ prog_page' = PageAfterHalt(p)
        /\ vid_page'  = Unmapped
        /\ task_counter' = [task_counter EXCEPT ![t] = left]
        /\ terminal_process_running' =
              [terminal_process_running EXCEPT ![t] =
                  IF left < 2 \/ terminal_shell_counter[t] = left THEN 1 ELSE @]
        /\ flags' = [flags EXCEPT ![t] = @ \ {"fish", "grep"}]
        /\ cpu' = [At("halted", KernelStack, p) EXCEPT !.status = return_status]
        /\ context' = Trapped(context)
        /\ saved'   = Trapped(saved)
        /\ UNCHANGED <<parent_id, parent_pcb, home, depth,
                       terminal_shell_counter, running_term, display_term>>

\* The halt system call, and the halt that ends an exception
Halt == \/ cpu.at = "user" /\ sys_halt(0)
        \/ cpu.at \in {"fault", "nullfault"} /\ sys_halt(255)

\* Back into the parent, through the frame the halted PCB still names.  A base
\* shell that is not started again, since FollowNull has counted a task too many,
\* leaves tss.esp0 above the kernel's page and the kernel as the program: there
\* is no frame that leads back into a process.
HaltReturn ==
    /\ cpu.at = "halted"
    /\ task_counter[running_term] # 0
    /\ cpu' = IF prog_page = 0 THEN Lost ELSE Resume(saved[cpu.who])
    /\ UNCHANGED <<pcbVars, termVars, current_pcb_pointer, running_term,
                   display_term, tss_esp0, prog_page, vid_page, exception_flag>>

\* The base shell of a terminal is started again, in the slot just freed.  If the
\* "restart" window has let others take every slot, execute fails and the halted
\* program goes on, its page and stack gone.
HaltRestart ==
    /\ cpu.at = "halted"
    /\ task_counter[running_term] = 0
    /\ \/ StartProcess(running_term, "shell", [Lost EXCEPT !.stk = cpu.stk], "launch")
       \/ /\ find_pid = 0
          /\ cpu' = Lost
          /\ terminal_process_running' =
                [terminal_process_running EXCEPT ![running_term] = 1]
          /\ UNCHANGED <<pcb_counter, parent_id, parent_pcb, cmd, saved, files,
                         home, depth, task_counter, running_pcb,
                         terminal_shell_counter, flags, current_pcb_pointer,
                         tss_esp0, prog_page>>
    /\ UNCHANGED <<context, running_term, display_term, vid_page, exception_flag>>

-----------------------------------------------------------------------------
(***************************************************************************)
(* The timer interrupt                                                     *)
(***************************************************************************)
Window == IF cpu.at = "halted" /\ task_counter[running_term] = 0
          THEN "restart" ELSE cpu.at

Interruptible == Window \in {"idle", "user", "lookup", "launch"} \cup Races

\* Mutant: esp and ebp are saved after current_pcb_pointer has moved on.
SaveContextLate == context' = [Trapped(context) EXCEPT
                                  ![running_pcb[NextTerm]] = Interrupted]

SaveContext == context' = [Trapped(context) EXCEPT
                              ![current_pcb_pointer] = Interrupted]

ShellMissing == \E i \in Terms : pcb_counter[i] = 0

\* "start executing three shells before any other processes"
StartBaseShell ==
    /\ Interruptible
    /\ ShellMissing
    /\ running_term' = NextTerm
    /\ SaveContext
    /\ StartProcess(NextTerm, "shell", Interrupted, "boot")
    /\ UNCHANGED <<display_term, vid_page, exception_flag>>

\* Mutant: the page is chosen before running_term moves on.
VidPageBeforeSwitch == VidPage(running_term, display_term)

VidPageAfterSwitch == VidPage(NextTerm, display_term)

\* Switch to the process running in the next terminal.
SwitchTerminal ==
    /\ Interruptible
    /\ ~ShellMissing
    /\ running_term' = NextTerm
    /\ vid_page' = VidPageAfterSwitch
    /\ SaveContext
    /\ saved' = Trapped(saved)
    /\ current_pcb_pointer' = running_pcb[NextTerm]
    /\ \/ /\ current_pcb_pointer' # NULL
          /\ tss_esp0'  = current_pcb_pointer'
          /\ prog_page' = current_pcb_pointer'
          /\ cpu' = Resume(context'[current_pcb_pointer'])
       \/ /\ current_pcb_pointer' = NULL
          /\ cpu' = Lost
          /\ UNCHANGED <<tss_esp0, prog_page>>
    /\ UNCHANGED <<pcb_counter, parent_id, parent_pcb, cmd, files, home, depth,
                   termVars, display_term, exception_flag>>

scheduler == StartBaseShell \/ SwitchTerminal

-----------------------------------------------------------------------------
(***************************************************************************)
(* Other system calls that touch this state, and the keyboard's Alt+Fn     *)
(***************************************************************************)
FreeFds == Fds \ files[current_pcb_pointer]
find_next_fd == CHOOSE i \in FreeFds : \A j \in FreeFds : i <= j

sys_open ==
    /\ cpu.at = "user"
    /\ FreeFds # {}
    /\ files' = [files EXCEPT ![current_pcb_pointer] = @ \cup {find_next_fd}]
    /\ context' = Trapped(context)
    /\ saved'   = Trapped(saved)
    /\ UNCHANGED <<pcb_counter, parent_id, parent_pcb, cmd, home, depth,
                   termVars, machVars>>

sys_close(fd) ==
    /\ cpu.at = "user"
    /\ fd \in files[current_pcb_pointer]
    /\ files' = [files EXCEPT ![current_pcb_pointer] = @ \ {fd}]
    /\ context' = Trapped(context)
    /\ saved'   = Trapped(saved)
    /\ UNCHANGED <<pcb_counter, parent_id, parent_pcb, cmd, home, depth,
                   termVars, machVars>>

\* Programs call vidmap; the base shells do not.
sys_vidmap ==
    /\ cpu.at = "user"
    /\ Booted \/ "early" \in Races
    /\ vid_page' = VidPage(running_term, display_term)
    /\ context' = Trapped(context)
    /\ saved'   = Trapped(saved)
    /\ UNCHANGED <<pcb_counter, parent_id, parent_pcb, cmd, files, home, depth,
                   termVars, current_pcb_pointer, running_term, display_term,
                   tss_esp0, prog_page, exception_flag, cpu>>

\* Alt+Fn brings terminal t to the display (keyboard interrupt).
ShowTerminal(t) ==
    /\ cpu.at \notin {"lost", "nullfault"}
    /\ t # display_term
    /\ display_term' = t
    /\ context' = Trapped(context)
    /\ saved'   = Trapped(saved)
    /\ UNCHANGED <<pcb_counter, parent_id, parent_pcb, cmd, files, home, depth,
                   termVars, current_pcb_pointer, running_term, tss_esp0,
                   prog_page, vid_page, exception_flag, cpu>>

-----------------------------------------------------------------------------
Execute == \/ \E prog \in Programs \cup {NoFile} : ExecuteCall(prog)
           \/ ExecuteRejected
           \/ CheckPosition
           \/ ClaimPosition
           \/ Iret

FileCalls == sys_open \/ \E fd \in Fds : sys_close(fd)

Next == \/ Execute
        \/ Exception
        \/ Halt
        \/ HaltReturn
        \/ HaltRestart
        \/ scheduler
        \/ FileCalls
        \/ sys_vidmap
        \/ \E t \in Terms : ShowTerminal(t)

Spec == Init /\ [][Next]_vars

\* The PIC latches a tick that comes while IF = 0 and delivers it as soon as
\* interrupts are enabled, and a 10 ms quantum is long enough for a process in
\* the kernel to make progress in it: both fairness conditions are strong.
KernelStep(p) ==
    /\ cpu.who = p
    /\ \/ ExecuteRejected \/ CheckPosition \/ ClaimPosition \/ Iret
       \/ (cpu.at # "user" /\ Halt) \/ HaltReturn \/ HaltRestart

Fairness == /\ SF_vars(scheduler)
            /\ \A p \in Pids : SF_vars(KernelStep(p))

FairSpec == Spec /\ Fairness

-----------------------------------------------------------------------------
(***************************************************************************)
(* Properties                                                              *)
(***************************************************************************)

\* Type invariant: every variable of the process manager has its type.
TypeOK ==
    /\ pcb_counter \in [Pids -> {0, 1}]
    /\ parent_id   \in [Pids -> Slots]
    /\ parent_pcb  \in [Pids -> Slots]
    /\ cmd         \in [Pids -> Programs \cup {NoCmd}]
    /\ saved       \in [Pids -> Context]
    /\ context     \in [Pids -> Context]
    /\ files       \in [Pids -> SUBSET Fds]
    /\ home        \in [Pids -> Terms]
    /\ depth       \in [Pids -> Int]
    /\ task_counter \in [Terms -> Int]
    /\ running_pcb  \in [Terms -> Slots]
    /\ terminal_process_running \in [Terms -> {0, 1, 2}]
    /\ terminal_shell_counter   \in [Terms -> Nat]
    /\ flags        \in [Terms -> SUBSET Masking]
    /\ current_pcb_pointer \in Slots
    /\ running_term \in 0 .. TERM_NUM
    /\ display_term \in Terms
    /\ tss_esp0  \in Slots
    /\ prog_page \in Slots
    /\ vid_page  \in {Unmapped, Screen} \cup Terms
    /\ exception_flag \in {0, 1}
    /\ cpu \in Context

Live(p) == pcb_counter[p] = 1

\* Whenever the CPU works for a process (in its program or in one of its
\* system calls), the registers, current_pcb_pointer, the terminal's running
\* PCB, the TSS and the program page all belong to that one live process.
MachineMatchesProcess ==
    cpu.at \in {"user", "lookup", "claim", "launch", "boot", "fault"} =>
        /\ cpu.who \in Pids
        /\ Live(cpu.who)
        /\ cpu.who = current_pcb_pointer
        /\ cpu.who = running_pcb[running_term]
        /\ cpu.who = tss_esp0
        /\ cpu.who = prog_page

\* The process a terminal will resume when its turn comes has a context that
\* still exists, is its own, and lies on a kernel stack of that terminal.
WaitingContextsIntact ==
    \A t \in Terms \ {running_term} :
        running_pcb[t] # NULL =>
            LET c == context[running_pcb[t]]
            IN  /\ c.at # "lost"
                /\ c.who = running_pcb[t]
                /\ c.stk \in Pids /\ home[c.stk] = t /\ Live(c.stk)

\* The processes of a terminal form one chain: one process at each depth up to
\* task_counter, each started by the one above it, the deepest one running.
ProcessTree ==
    /\ \A p \in Pids : Live(p) =>
          /\ depth[p] \in 1 .. task_counter[home[p]]
          /\ depth[p] = 1 => parent_id[p] = 0
          /\ depth[p] > 1 => /\ parent_id[p] \in Pids
                             /\ parent_pcb[p] = parent_id[p]
                             /\ Live(parent_id[p])
                             /\ home[parent_id[p]] = home[p]
                             /\ depth[parent_id[p]] = depth[p] - 1
          /\ \A q \in Pids : (Live(q) /\ home[q] = home[p]
                               /\ depth[q] = depth[p]) => q = p
    /\ \A t \in Terms : task_counter[t] > 0 =>
          /\ running_pcb[t] \in Pids
          /\ Live(running_pcb[t])
          /\ home[running_pcb[t]] = t
          /\ depth[running_pcb[t]] = task_counter[t]

\* A process blocked in execute still has the frame of that call on its own
\* kernel stack, and the PCB of its child names that frame.
BlockedFramesIntact ==
    \A p \in Pids : Live(p) /\ depth[p] > 1 =>
        saved[p] = At("user", parent_id[p], parent_id[p])

\* When sys_halt jumps back, it resumes the parent of the halted process, on
\* the parent's kernel stack, with the parent's TSS and program page set up.
HaltReturnsToParent ==
    (cpu.at = "halted" /\ task_counter[running_term] # 0) =>
        /\ saved[cpu.who] = At("user", parent_id[cpu.who], parent_id[cpu.who])
        /\ parent_id[cpu.who] = current_pcb_pointer
        /\ tss_esp0  = current_pcb_pointer
        /\ prog_page = current_pcb_pointer

\* Each base shell has the slot of its terminal's number, also after any number
\* of exits and restarts: no program can take one of the first TERM_NUM slots,
\* which is what the scheduler's test for missing shells relies on.
BaseShellSlots ==
    \A p \in Pids : Live(p) => (p \in Terms <=> depth[p] = 1)
                             /\ (p \in Terms => home[p] = p)

\* What a program draws through vidmap goes to the screen exactly if its terminal
\* is the one displayed, and else to the terminal's own backing page.
VidmapRight ==
    vid_page # Unmapped => /\ vid_page \in {Screen, running_term}
                           /\ vid_page = Screen <=> display_term = running_term

\* The vidmap page is "mapped to current terminal's video page", the one that is
\* "determined by the currently displaying terminal" (scheduling.c:31-36), from
\* every switch to a terminal on, through its execute, halt and vidmap calls, its
\* faults and restarts, until Alt+Fn moves the display under a running program.
VidmapFollowsTerminal ==
    [][(running_term' # running_term \/ (VidmapRight /\ display_term' = display_term))
          => VidmapRight']_vars

\* The counters of terminal t are kept, and of its processes the PCBs, the frames
\* of blocked calls and the descriptors; but a base shell that halts closes those
\* of the process it was started from, another terminal's (syscall.c:458-468).
ProcessesKept(t) ==
    /\ task_counter'[t] = task_counter[t]
    /\ running_pcb'[t] = running_pcb[t]
    /\ terminal_process_running'[t] = terminal_process_running[t]
    /\ terminal_shell_counter'[t] = terminal_shell_counter[t]
    /\ flags'[t] = flags[t]
    /\ \A p \in Pids : Live(p) /\ home[p] = t =>
          /\ pcb_counter'[p] = 1
          /\ parent_id'[p] = parent_id[p] /\ parent_pcb'[p] = parent_pcb[p]
          /\ cmd'[p] = cmd[p] /\ home'[p] = t /\ depth'[p] = depth[p]
          /\ depth[p] > 1 => saved'[p] = saved[p]
          /\ \/ files'[p] = files[p]
             \/ /\ depth[current_pcb_pointer] = 1
                /\ p = parent_pcb[current_pcb_pointer]
                /\ files'[p] = {}

\* A step taken for one terminal changes nothing of the processes of another, the
\* context they wait with included; and a tick changes nothing of the one it
\* leaves but the context it saves, nor of the one it goes on with.
OtherTerminalsUntouched ==
    [][\A t \in Terms :
          (running_pcb[t] # NULL /\ (t # running_term \/ running_term' # running_term))
          => /\ ProcessesKept(t)
             /\ t # running_term =>
                   context'[running_pcb[t]] = context[running_pcb[t]]]_vars

\* The scheduler starves no terminal: each one gets the CPU again and again.
EveryTerminalScheduled ==
    \A t \in Terms : []<>(running_term = t)

\* A call of execute ends: the caller gets its error code or the new program
\* starts, however often the timer preempts the call.
ExecuteAnswered ==
    \A p \in Pids :
        (cpu.at = "lookup" /\ cpu.who = p) ~>
            (cpu.at = "user" /\ (cpu.who = p \/ parent_id[cpu.who] = p))

\* "check whether new pcb has the position" (syscall.c:345): once the check
\* has passed there is a slot for the new process.
PositionAvailable == cpu.at = "claim" => find_pid # 0

\* sys_halt returns "256 - exception" (syscall.c:444) for a process ended by an
\* exception and not for one that called halt, although one global flag, set by
\* the handler and consumed by whoever halts next, is all that tells them apart.
HaltStatus ==
    [][(cpu'.at = "halted" /\ pcb_counter' # pcb_counter) =>
          /\ cpu.at = "fault" => cpu'.status = 256
          /\ cpu.at = "user"  => cpu'.status # 256]_vars

\* sys_halt closes the files of the process it ends and of no other live one.
HaltClosesOwnFiles ==
    [][\A p \in Pids : (Live(p) /\ p # current_pcb_pointer)
          => files'[p] = files[p]]_vars
=============================================================================
