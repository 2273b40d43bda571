# A TLA+ verification of the MentOS kernel

MentOS (`student-distrib/`) is a small 32-bit x86 kernel: one CPU, three text
terminals, at most six processes, a round-robin scheduler driven by the timer, a
read-only file system and the devices keyboard, RTC, PIT and PIC.  User programs
(`syscalls/`, `fish/`) call the kernel through `int $0x80`.

This directory holds the TLA+ modules that model the kernel, the TLC
configurations that check them on small instances, and TLAPS proofs of the
properties that matter most for every number of terminals and process slots.
`PROJECT.json` maps every definition to the lines it translates and lists the
hazards, the runs and the theorems.

## 1. Inventory

| Component | Source | State it keeps | Operations |
|---|---|---|---|
| Processes | `syscall.c` | `pcb_counter`, PCBs, `current_pcb_pointer`, per-terminal `task_counter`, `running_pcb`, kind and flags | `sys_execute`, `sys_halt`, exceptions |
| Scheduler | `scheduling.c`, `devices/pit.c` | `running_term`, saved esp/ebp in PCBs, TSS, program page, vidmap page | `pit_interrupt_handler`, `scheduler` |
| File descriptors | `syscall.c` | `fd_entry[8]` of each PCB | `sys_open/close/read/write`, `find_next_fd` |
| Keyboard | `devices/keyboard.c` | line buffer (shared and one per terminal), modifier keys, `write_flag` | `keyboard_interrupt_handler`, `terminal_switch` |
| Terminal | `devices/terminal.c` | `display_term`, `read_flag`, `count` | `terminal_read`, `terminal_write` |
| Screens | `lib.c`, `paging.c` | video memory and three backing pages, cursors | `putc*`, `scroll_up*`, `backspace`, `switch_screen`, `switch_vid_page` |
| RTC | `devices/RTC.c` | per-terminal rate and counters | `rtc_interrupt`, `rtc_open/read/write/close` |
| File system | `file_system.c` | boot block, inodes, data blocks (read only), `file_pos` | `read_dentry_by_name/index`, `read_data`, `file_read`, `dir_read` |
| Interrupt controllers | `i8259.c`, `linkage/interrupt_link.S` | masks, requests and in-service bits of both 8259s; the handlers nested on each kernel stack | `enable_irq`, `disable_irq`, `send_eoi`, `INTR_LINK` |
| Library | `lib.c` | none (works on memory given) | `memset`, `memcpy`, `memmove`, `str...`, `itoa`, `printf` |
| Boot, descriptors, paging set-up | `kernel.c`, `idt.c`, `paging.c`, `x86_desc.S`, `boot.S` | GDT, IDT, page directory | `entry` and the set-up functions it calls, once |
| User programs | `syscalls/`, `fish/` | their buffers and descriptors | `cat`, `grep`, `ls`, `syserr`, shell, ... |

How they interact.  System calls and exceptions enter through *trap gates*, so a
process runs in the kernel with interrupts enabled; timer, keyboard and RTC enter
through interrupt gates.  The timer may therefore land between any two
instructions of a system call that are not between `cli()` and `sti()`, and it
leaves the CPU in another process.  Every handler acknowledges its line (`send_eoi`)
before it does anything that leaves its stack, and opens interrupts with `sti()` at
its end, so handlers nest on the tails of others.  The keyboard moves `display_term`, which the
scheduler, `sys_vidmap`, `terminal_read` and `terminal_write` read.

Kernel `printf`, `clear` and the keyboard echo draw on whatever is displayed; a
process that is not on display draws in its terminal's backing page.  Alt+Fn
copies pages, cursors and line buffers, and enables interrupts between the copies.

### What is hard, and what makes each part correct

| Component | Hard behaviour | Correct when |
|---|---|---|
| Processes, scheduler | ticks inside system calls; base shells started inside the timer interrupt on another process's stack; slots, stacks and PCBs used again; one global exception flag | registers, TSS, page and PCB pointers belong to one live process; a waiting context and a blocked call's frame survive; processes of a terminal form one chain; slots 1-3 stay the base shells'; every terminal is served, every `execute` ends |
| Keyboard, terminal | one line buffer swapped between terminals; readers that spin on globals moved by interrupts; counts at the edge of the buffer | every terminal keeps what is typed in it; `read` returns the line entered; a displayed reader is served |
| Screens | three copies of the drawing code, right edge meets last row, page and cursor moved in separate steps | one console per terminal, unchanged by switching |
| Files, descriptors | reads across blocks and past the end; descriptors reused; `open` failing half-way | reads are the file, consecutive and complete; directories list each name once |
| Command lines | unterminated and over-read buffers, `cmd` reused from process to process | the named file runs; a process gets its own argument |
| RTC | counter shared by interrupt and spinning reader, division by a frequency | reads paced and answered |
| Interrupts, boot | ticks leave the stack of their own handler; four boot functions open interrupts with `sti()` before they restore the flags; edge-triggered devices that interrupt once and wait to be read | no line stays blocked behind a handler that left; no handler runs before what it uses is set up; no edge is lost; handlers nest to a bounded depth |
| Library | split copies, overlapping ranges, padding, numbers at the ends of their range | a copy is the source as it was; printed digits stand for their number |
| User programs | buffers that need not match the blocks of the disk; lines cut by the end of a buffer; names without a NUL | `cat`, `ls`, `grep` show everything once; `syserr` finds what it expects |

## 2. Modules

| Module | Models | Used by |
|---|---|---|
| `ProcessManager` | `sys_execute`, `sys_halt`, exceptions, scheduler, descriptors in use, vidmap | `MC_Process`, the proof modules |
| `ProcessStacks` | abstract: per terminal a stack of processes, pushed, popped, served round robin | refined by `ProcessManager` (`MC_Process!ImplementsStacks`; proved) |
| `ProcessProofs` | proofs about `ProcessManager`: types, the inductive invariant, the safety theorems and the refinement of `ProcessStacks` (it extends `MC_Process` for the mapping `StackOf`) | |
| `TerminalInput` | keyboard handler, line editing, `terminal_read`, the buffer part of `terminal_switch` | `InputProofs` |
| `InputProofs` | proofs about `TerminalInput` | |
| `Consoles` | abstract: one console (rows and cursor) per terminal, one visible | refined by `Screens` (`ImplementsConsoles`; proved) |
| `Screens` | video memory, backing pages, cursors, every drawing routine, the screen part of `terminal_switch` | `ScreenProofs` |
| `ScreenProofs` | proofs about `Screens`, and its refinement of `Consoles` | |
| `FileSystem` | directory look-up, `read_data`, descriptors of one process | `Programs` |
| `Programs`, `MC_Programs` | `cat`, `ls`, `grep`, `syserr` and a program that makes any call, over `FileSystem`; small disk images and texts | `FileProofs` (`Programs`) |
| `FileProofs` | proofs about `FileSystem` and `Programs` | |
| `SequenceLemmas` | least numbers, quotients, flattened sequences and folds | the proof modules |
| `Commands` | `parse_arg`, the command kept in the PCB, `sys_getargs` | `MC_Commands`, `CommandProofs` |
| `CommandProofs` | proofs about `Commands` and `Lib` | |
| `Lib` | memory functions, strings, numbers and `printf` of `lib.c` | `MC_Commands` |
| `MC_Commands` | the command lines tried, and one library call before the first | |
| `RTC` | the virtualized clock of three terminals | `RtcProofs` |
| `RtcProofs` | proofs about `RTC` | |
| `Interrupts` | both 8259s, the IDT's gates, the steps of `entry`, the linkage and the acknowledgements of the three handlers | `InterruptProofs` |
| `InterruptProofs` | proofs about `Interrupts`, the depth of nesting included | |

**Processes.**  One CPU: `cpu` is the point of the code it is at (`lookup`,
`claim`, `launch` in `sys_execute`; `boot` for a base shell started by the timer;
`fault`; `halted` in `sys_halt`), the kernel stack it is on, the process it works
for, and the locals that matter.  Code between `cli()` and `sti()` is one step; the
points between steps are those where the timer may land.  A PCB is identified
with its slot and that slot's kernel stack, as the code does by address
arithmetic.  Frames are contexts with the stack they lie on: a trap from user
mode starts at the top of stack `tss_esp0`, so frames left there become `Lost`
(`Trapped`).  The boot stack is stack 0: its top coincides with stack 1, but
nothing on it is resumed once shell 1 runs.  `home` and `depth` are history.

**Timer windows.**  In `idle`, `user`, `lookup` and `launch` the timer is always
allowed.  The constant `Races` names the other windows, and each of them breaks a
property: that is where the kernel is exposed.  Only `fault` is open in a passing run
(`Process_core`), because the properties of that run and their proofs hold with it; the
others are closed there.  Each row is a counterexample that TLC gives with that window open:

| window | place | what a tick there breaks |
|---|---|---|
| `claim` | `syscall.c:346-351`, between the test for a slot and `cli()` | `PositionAvailable` (run `Process_claim_race`), `ProcessTree`, `HaltReturnsToParent`; with `halted` also `BaseShellSlots`, `MachineMatchesProcess` |
| `fault` | `idt.c:60` to `syscall.c:451` | `HaltStatus` |
| `halted` | `syscall.c:497-503`, after `sti()` with the slot already free | `HaltReturnsToParent` (run `Process_halted_race`) |
| `restart` | the same, before a base shell is started again | `BaseShellSlots`, `ProcessTree`, `HaltReturnsToParent` |
| `boot` | `syscall.c:419`, `sti()` to IRET of a base shell | `WaitingContextsIntact` |
| `early` | a command before every terminal has its shell (`scheduling.c:22` tests slots, not terminals) | `BaseShellSlots`, then a NULL `running_pcb` |
| `switching` (Screens) | after `sti()` in `switch_vid_page`, `switch_screen` | `ImplementsConsoles` |
| `switching` (TerminalInput) | the same | `EditBuffersMatch` |
| `typeahead` (TerminalInput) | a key between Enter and the reader's copy (`keyboard.c:187`) | `ReadReturnsLine` |

Most of the windows are a few instructions long in a 10 ms period, so the theorems
without them describe what the kernel does except when an interrupt hits one; they are
an assumption on timing, written as one (`SafeTimer`, `QuietSwitches`).  Two are long.
`typeahead` lasts from Enter until the reader runs again, which may be two quanta, and
`early` until every terminal has its shell, 30 ms after boot; that nobody types in these
is an assumption on the user, not on the timer.

What a lost slot does (`claim`): `FollowNull` maps the kernel's own page, counts the task and
faults at NULL with interrupts off; the handler then runs `sys_halt(255)` on the caller,
since `current_pcb_pointer` has not moved, and the kernel goes on with a counter one too
high.  A base shell that this hits is not started again.

**Keyboard and terminal.**  A character is named by the terminal it was typed in,
which is what mixing lines up would confuse.  `typed` and `line` are history.
Modifier keys only select characters and are left out; masked typing is a key
without effect; the comparison with `"exit"` in `terminal_read` is never true (the
line ends in a newline) and is left out.

**Screens.**  One step is one character, one key, or one third of
`terminal_switch`.  Backspace comes at any time (more than the code allows).  A
`putc` is not interrupted.  `Consoles` says what a user sees: rows, a cursor, what
each kind of character does to them, and that showing another terminal changes
none of them; `Console(t)` puts a console together from the page and the cursor
that are the terminal's own at the moment.

**Files.**  A byte is named by its place, `<<block, offset>>`.  What lies behind
the directory in memory is taken not to look like an entry.  `got` is history: the
bytes each descriptor has brought.

**User programs.**  A process runs one program, `client`.  A step is one system call
with the code that looks at its result; `grep` also takes a step per line of its
buffer.  `text` gives a byte on the disk a character, chosen at the start among all
texts over two letters and the newline and all binary files over a letter, the newline and
NUL (`fsdir/` holds executables, which `grep` searches too); `cat` and `ls` need none.  `out` of
`grep` has an entry for each name it has read from the directory.  `syserr` is the script of its
tests in order, but for the one of `vidmap`.  The client `any` makes every
call at any time, on any descriptor, with any name.

**Library.**  `call` is the last call with its result; the reference definitions are
in the properties.  `memset` and `memcpy` are the sequence of pieces (bytes up to a
4-byte boundary, words, bytes) that the assembly moves, so a wrong split would show.
A `printf` format is a sequence of parts; each word of the stack has a value of its
own in each of the ways a conversion may read it.

**Command lines.**  Buffers are functions from index to byte and anything may be
in memory behind the caller's line.  Memory is zero when a slot is first used.

**Interrupts.**  The controllers are modelled from how the code programs them (ICW
values in `i8259.h`): fully nested, edge-triggered, the slave on line 2.  An edge is
latched in `irr` even while its line is masked, moves to `isr` when the CPU takes
it, and blocks its own and all lower lines until the EOI.  `stack[p]` holds the
handlers entered on the kernel stack of terminal `p` (0 is the boot stack), each
with the point it has reached; a tick changes `cur` in the middle of its handler, as
`scheduler` does.  Between two steps of the code the CPU takes a due interrupt
before it goes on (`NotInterrupted`).  `recent` says that devices are slow: between
two steps of what the handlers interrupt, each device interrupts once at most (a
period of the RTC or PIT is some milliseconds, a handler some microseconds).
The keyboard is not used before `i8259_init`: ICW1 would forget the edge (`i8259.c:33`).

**RTC.**  Counters saturate at `MaxCount`: the code compares them with a bound at
most that large.

## 3. Runs

| Run | Checks | Bounds and why they are enough |
|---|---|---|
| `Process_core` | type, machine state, contexts, process tree, frames, halting, slots; vidmap page follows the terminal; refinement of `ProcessStacks` | 2 terminals, 4 slots: two processes beside the base shells that nest or compete, `cat` and one nested `shell` per terminal, every interleaving; no descriptors (`FD_MAX` is 1); window `fault` open. Deadlock is checked. |
| `Process_live` | every terminal scheduled, every `execute` answered, exit status; other terminals untouched | fair scheduler, no windows; 2 terminals, 3 slots, one descriptor, a program that masks keys, no nested shell. With 2 terminals a tick leaves one and enters the other: `OtherTerminalsUntouched` compares both |
| `Input` | type, edit buffers, lines, reader served | 2 terminals, buffer of 3 bytes (empty line, one character, full), one typist, Alt+Fn anywhere |
| `Screens` | type (cursors on their pages), refinement of `Consoles` | 2 terminals, 2 x 2 screens: right edge, last row and both at once are two steps apart |
| `Files` | type, contents, consecutive reads, listing; `cat` and `ls` complete; `grep` finds every line; `syserr` passes | 14 images, files of 0 to 3 blocks of 2 bytes, blocks out of order; two descriptors beside stdin and stdout; buffers of 3 bytes, so that they cut blocks and lines everywhere; every text and every binary file of up to 6 characters, with a text behind it; names that exist, one that does not, one too long |
| `Commands` | type, own argument, named file; bytes moved, copies compare equal, numbers and formats print | 2 slots; every line of up to 4 characters over two letters and space, and four longer ones; names of up to 2. Library: 14 bytes of memory, every range and overlap (two boundaries and two whole words fit), strings of up to 3, words of 8 bits (every number), formats of up to 3 parts |
| `Interrupts` | type and depth of nesting, acknowledgements, boot order, edges, every device answered | 2 terminals and the boot stack, all three devices anywhere; the nesting bound of 5 is exact: 4 fails |
| `Rtc` | type, reads paced, reads answered | 3 terminals, rates 2, 4, 8 of a chip at 8 |
| `Process_claim_race`, `Process_halted_race` | what a tick in those windows does | smallest instances that show it; `FollowNull` is reached only with `claim` open, so in no passing run |
| `Process_files` | `sys_halt` closes the parent's descriptors, not its own (`syscall.c:458, 468`) | 1 terminal |
| `Input_wakeup` | `terminal_read` of a hidden terminal clears the displayed terminal's flag (`terminal.c:80`) | 2 terminals |

The last four are expected to be violated and are listed as findings, with the
comment of the code they contradict.  Everything else passes.

**Fairness.**  The scheduler and the kernel steps of each process are strongly
fair in `Process_live`: the PIC keeps a tick that comes while IF = 0 and delivers it
at the next `sti`, so a timer enabled again and again does fire; and a 10 ms quantum
is far longer than a step in the kernel, so a process that is scheduled again and
again does take it.  A program in user mode need never call the kernel.  `Input`
adds that somebody goes on pressing Enter, `Rtc` that the RTC interrupt goes on.
`Interrupts` assumes only that the CPU goes on (weak fairness of all its steps
together: deliver an interrupt, run a handler, boot, run a process); no device is
obliged to interrupt.

**Known deviations kept in the model.**  Found while translating, with no run of
their own: `terminal_shell_counter` is never decremented, so a shell may stay
marked as a program (`syscall.c:490`); the newline of a line of `KEY_BUF_SIZE - 3`
characters is stored one place too far (`keyboard.c:180`, the exception named in
`ReadReturnsLine`); `pingping_flag` is never cleared; `putc` never wraps to the next row
(`lib.c:229`); the vidmap page is stale from Alt+Fn until the next tick (the one
exception in `VidmapFollowsTerminal`); the halt of a base shell closes the descriptors of the
process it was started from, another terminal's (`syscall.c:458, 468`; the one exception in
`OtherTerminalsUntouched`); a command longer than `cmd` is copied over the descriptors
(`syscall.c:398`; `CommandsAssumption` takes lines that fit); what a program overwrites that
`FollowNull` loads into the kernel's page is taken to be none of the state modelled;
`terminal_write` drops a shell's output between Alt+Fn and the next key
(`terminal.c:156`); `read` returns 0 with interrupts off when the terminal is no
longer displayed (`terminal.c:86`); a child's RTC rate stays with its terminal;
an `open` of a name longer than a directory entry's fails and keeps its descriptor
(`syscall.c:190`); `sys_getargs` ignores `nbytes` (`syscall.c:640`); the scan for a name
is bounded by the size of the boot block in bytes (`file_system.c:59`); `grep` looks
one byte behind its buffer when the buffer is full (`ece391grep.c:33`; `StaleBytes`
gives that byte, and with a newline there `GrepFindsLines` does not hold); of a file with
NULs it loses and cuts lines (`ece391grep.c:36, 47`), and it cuts a line longer than its buffer,
so `GrepFindsLines` speaks of text files with lines that fit;
`memmove` leaves the direction flag set (`lib.c:670`); a `printf` format that ends
inside a conversion runs past its NUL (the formats here do not).

## 4. Theorems

What TLC checks on one small instance is proved by TLAPS for every value of the
constants that the named `ASSUME` of the module allows.  Where a theorem has a
further hypothesis it is an operator with a name; this is all of them:

| Hypothesis | Says | Why the code is entitled to it |
|---|---|---|
| `SafeTimer` | the windows `claim`, `boot`, `halted`, `restart`, `early` of section 2 are closed: of the windows only `fault` may be open | a few instructions in a 10 ms period, and nobody types a command in the first 30 ms (`early`); a tick in one does break the property (same table) |
| `QuietSwitches` | `Races = {}` in `Screens`: no tick inside `terminal_switch` | some instructions of each Alt+Fn |
| `QuietInput` | `Races = {}` in `TerminalInput`: no key or tick inside `terminal_switch`, no key between Enter and the reader's copy | the first as above; the second asks of the user that nobody types ahead before the reader has had its quantum. A key there does break `ReadReturnsLine` |
| `SoundImages` | no file has a block number above `DATA_BLOCK_SIZE` | such an image is damaged: `read_data` answers -1 (`file_system.c:161`), and the properties speak of contents |
| `RootListed` | there are descriptors beside stdin and stdout, every image lists `"."`, and it is the directory | `filesys_img` is built so, and `ls` opens `"."` |
| `ErrorsKnown` | `BIG_FD` is no descriptor and the names of `err_open` are on no image | `ece391syserr.c` presupposes both |
| `PlainFiles` | a descriptor for the directory and one for a file; no name twice on an image; only names with a dot in front are directories; no NL in the byte behind `grep`'s buffer | `filesys_img` is built so; the last is the hazard at `ece391grep.c:33`, without it `GrepFindsLines` does not hold. Nothing is asked of the contents: which files are texts is part of the property (`TextFile`) |
| `RoomForFive` | `MaxFrames >= 5` | the bound of the model; the theorem says that five is enough |

Every other theorem holds of the specification as it stands.  TLC evaluates the four
about disks on the images of the run `Files` (`OrdinaryDisks` in `MC_Programs`).

**`ProcessManager`** (any number of terminals, slots and descriptors, any programs)

- `TypeCorrect`: `Spec => []TypeInv`, a strengthening of `TypeOK`
  with what typing needs in order to be inductive.  No assumption on the timer.
- `KernelInvariant`: `SafeTimer /\ Spec => []KernelInv`, and from it
  `MachineTheorem`, `WaitingTheorem`, `TreeTheorem`, `FramesTheorem`, `HaltTheorem`,
  `SlotsTheorem`, and the action properties `UntouchedTheorem` (`OtherTerminalsUntouched`)
  and `VidmapTheorem` (`VidmapFollowsTerminal`).  A tick may come between a fault and its halt.
- `StatusTheorem`: `"fault" \notin Races /\ Spec => HaltStatus`.
- `StacksTheorem`: `SafeTimer /\ Spec => ImplementsStacks`, the refinement of `ProcessStacks`.

None of the safety properties is inductive.  `KernelInv` adds: `BootOrder` (shells
start in the order of the terminals, until all have one), `BaseSlots` (a slot is a
base shell's exactly when its number is a terminal's), `Chains` (the process tree
with the frames of blocked calls), `Processor` (what the machine state is at each
point of the code), `Halted` (what it is in the middle of `sys_halt`), `Waiting`
(what the running process of every other terminal will be resumed with), and `SlotFound`
(at `claim` there is still a free slot, so `FollowNull` is not taken).
`SafeTick` shows where a tick may come under `SafeTimer`; `TrapHarmless`, that no
trap overwrites frames still needed; the `Start...` lemmas, what starting a process
does to each part, for `execute`, restart and boot alike; then one lemma per action.
`TypeCorrect` is used throughout.

For the refinement, `ChainFull` shows that the chain of a terminal has no gap: at each
depth there is one process (`SlotsInUse`), so the `CHOOSE` in `StackOf` is determined
(`SameEntry`, `SameStack`).  Then every action is a push (`Pushes`), a pop (`Pops`), a
turn of the scheduler (`Turns`) or leaves the stacks alone (`StacksKept`).

**`RTC`** (any number of terminals, any chip whose lowest rate divides its own)

- `RtcTypeCorrect`: `Spec => []RtcTypeOK`.  It is inductive; its content is that every
  accepted frequency gives a bound from 1 to `MaxCount`, by lemmas on quotients.
- `PaceTheorem`: `Spec => []ReadsPaced`, from the stronger `PaceInv`: the counter is never
  ahead of the interrupts since the last read.  It is needed where the loop of
  `rtc_read` looks at the counter.

**`Interrupts`** (any number of terminals, any interleaving of the devices)

- `InterruptInvariant`: `Spec => []IInv`, and from it `AcknowledgeTheorem`
  (`ServiceMatchesStack`), `ReadyTheorem` (`HandlersReady`) and `EdgesTheorem` (`EdgesKept`).
- `InterruptsTypeCorrect`: `RoomForFive /\ Spec => []InterruptsTypeOK`: handlers nest at
  most five deep.

`IInv` adds to the three: `TypeInv` (the type invariant without the depth);
`Shielded` (IF = 0 while the running handler owes its EOI: without it a
second handler could nest on one that owes); `PointsMatch` (only the timer's handler
reaches the scheduler, only the RTC's register C); `BootInv` (how far `entry` is when
interrupts are open and when handlers are on a stack) with `MaskInv` (which lines
`entry` has not unmasked there): an open window lets in only lines that are
unmasked, so the first handler can come in the window of `pit_init`; `QuietBefore`
(no device holds its line up before ICW1 forgets edges).  Frame lemmas (`GotoFrames`,
`PushFrames`, `PopFrames`) say what the three things that happen to a stack leave of it;
then there is one step lemma per part.

The depth needs `NestInv`.  A stack that a tick has put aside holds one frame per
line, and the timer's is past the scheduler.  On the stack that runs, the frames
above such a bottom part belong to lines that have interrupted since the switch
(`Spent`), which devices as slow as these do once; if the bottom is not empty the
timer is one of them, so a frame above it is the keyboard's or the RTC's.  Three below and
two above make five.

**`TerminalInput`** (any number of terminals and users, any length of the buffer)

- `InputTypeCorrect`: `Spec => []InputTypeOK`, whatever windows are open: no key writes
  outside `keyboard_buf` and no count leaves it.
- `InputInvariant`: `QuietInput /\ Spec => []IInv`, and from it `EditTheorem`
  (`EditBuffersMatch`) and `ReadTheorem` (`ReadReturnsLine`).

`IInv` says what the properties do not: `SwitchInv` (outside a switch the terminal on
display is the one whose line is in the shared buffer), `FlagInv` (a read flag is up
only for that terminal) and `LinesInv` (in every terminal, displayed or not, the buffer
holds what is being typed, and the line that waits once Enter has woken its reader).

**`Screens`** (any number of terminals, any size of the screen)

- `ScreensInvariant` and `ScreensTypeCorrect`: `Spec => []ScreensTypeOK` even when a
  switch is interrupted: every cursor stays on its page.
- `ConsolesTheorem`: `QuietSwitches /\ Spec => ImplementsConsoles`.

`ScreensInv` is the types with: between switches, `last_term` is `display_term`.  `Own(t)`
is the page and the cursor that are the terminal's own at each stage of a switch;
the three copies of the drawing code (`putc`, `putc_terminal`, the echo) are shown to do to
them what `Consoles` asks, and the steps of `terminal_switch` to change none.

**`FileSystem` and `Programs`** (any images, buffers, blocks and numbers of descriptors)

- `ReadDataTheorem`: `read_data` returns the bytes asked for.  `ReadDataSlice` goes through
  its loop block by block, `ReadDataPart` cuts the result at the end of the file.
- `FilesInvariant` (any order of calls) and `ProgramsInvariant` (the programs), and from
  them `FilesTypeCorrect`, `ReadsTheorem` (`ReadsAreConsecutive`), `ListingTheorem`
  (`ListingComplete`) and `CatAndLsTheorem` (`CatAndLsComplete`).

`FilesInv`: what an open file or directory has given so far is what lies before its
position.  `ProgramsInv` adds to it where each program is in its loop, with what it has
written by then (`CatInv`, `LsInv`), and the bounds of `grep`'s buffer (`GrepInv`).

- `SyserrTheorem`: `SoundImages /\ RootListed /\ ErrorsKnown /\ ProgramsSpec => []SyserrPasses`.

`TestsInv` is what each call of `syserr` presupposes of the ones before it: the
descriptors are opened from the lowest on and closed in the same order, so the
script's position says which are open (`DescriptorsAfter`); `TestStep` goes through the
calls of the script.

- `GrepTheorem`: `SoundImages /\ RootListed /\ PlainFiles /\ ProgramsSpec => []GrepFindsLines`.

`GrepFindsLines` speaks of `grep` when it is done; `FoundInv` says what holds on the way.
`Part[i][p]` is what is to be written of the first `p` characters of entry `i`.  `Wrote(n)`
says that the entries up to `n` are written: `Part[i]` of the whole text of each that is
`Readable` (a text file, or no file to search, of which nothing is to be written), anything of the others.
`Before` says it of those before the entry in work.  Of that one `out` holds `Part[i][p]`
if it is readable, where `p` is the place in the file of the first byte that is still to be
searched, and `p` is in `Breaks[i]`: a line starts there, or a line that filled the buffer
ended there.  From `line_start` on the buffer holds what the file has from there on
(`TextFill`, `TextLine`).  This is what makes the cut of a line at the end of the buffer
harmless: the part that is kept is moved to the front and `p` stays (`MoveFound`, where
`LineStopIs` shows that `ece391_strcpy` copies just that part because a text has no NUL); a line
that is searched ends at an NL or at the end of the file (`WholeLine`: if it ended with
the buffer only, it would be longer than the buffer), and nothing but that line is to be
written between `p` and its end (`SearchLine`, `TextSearched`).  A binary file may leave anything in the
buffer and in its own entry of `out`, but touches no earlier entry (`OutputGrows`), and the
next file starts with `last = 0`, so that what is left in the buffer does not matter.
`FlatStep` and `FlatSame` are the induction over `FlattenSeq` that
these lemmas use.

**`Commands`** (any number of slots, any executables, any command lines that fit `cmd`)

- `CommandsInvariant`: `Spec => []CommandsInv`, and from it `CommandsTypeCorrect`,
  `ArgumentTheorem` (`ArgumentIsOwn`) and `NamedFileTheorem` (`RunsNamedFile`).

`CommandsInv`: the buffer of a live slot holds its own line with zeros behind, the
buffer of a free one zeros.  It is what makes an unterminated line harmless when a slot is used
again.  The lemmas before it say which words `parse_arg` finds in a line.

**`Lib`** (any size of memory and of buffers, formats of any length, words of 4 to 32 bits;
`MCSpec`, as in the run)

- `BytesTheorem`: `MCSpec => []BytesMoved`; `StringsTheorem`: `MCSpec => []CopiesCompareEqual`;
  `PrintfTheorem`: `MCSpec => []PrintfPrints`.

A memory function is a fold over pieces.  `FoldExists` shows that the recursion a fold is
defined by has a solution, `FoldRun` that the fold is the last of a run of values,
`AlongRun` is induction along it; `MovesOf` and `FillsOf` make a copy such a run.
`PiecesInOrder` is the arithmetic of the 4-byte boundaries: each piece begins where the
last one ended and the last ends at `n`.  `MoveExtends` is where the direction matters:
one move more copies what the source held before the call because none of its bytes
lies where the copy has been.  For strings, `StrlenOf` and `StrncmpZero` say what the two
`CHOOSE`s find.

For numbers, `PlacesAre` is the loop of `itoa`: the quotients that it goes through, down to
0, with a digit for each.  Read from the last quotient to the first, they are what the digits
stand for so far (`DigitRun`), so the value of the string is the first quotient, the
number itself (`ValueIs`); its first digit is not 0 because the last quotient but one is not.  A word
has at most one digit for each four bits (`ItoaShort`: otherwise a quotient would be below
the power of 16 that is left for it, which is 1), so the padding of `%#x` has room.  For
formats, `PrintsMore` says that `printf` takes one character after the other,
`PrintsToken` what it does with a part, and `PrintedStep` that behind `k` parts it has taken
exactly the words that these consume (`Consumed`).

**Only model-checked.**  Liveness and `ENABLED` are beyond the proof system: the liveness
properties of `Process_live`, `Input`, `Rtc` and `Interrupts` stay with TLC; every safety
property of the passing runs is proved.  The library's
induction theorems take an operator as a parameter, which the provers cannot
instantiate; what a recursive *function* computes can still be shown by the
least counterexample over the naturals (`LeastElement`, with `Flattened` for `FlattenSeq`,
`AlongRun` for folds, `PlacesExist` for `Places`).  The provers know nothing of
exponents: that `Words` is a power of 16 is shown width by width (`PowersExist`), which is
why `LibAssumption` lists the widths.

## 5. Not modelled

- GDT, LDT, TSS descriptor and page tables (`kernel.c:107-137`, `paging_init`, `x86_desc.S`),
  the dividers written to the PIT and RTC: straight-line code whose result is a
  constant; `ProcessManager` and `Interrupts` start from it.  The multiboot report.
- Code nobody calls: `disable_irq`, `memset_word`, `memset_dword`, `command_to_arg`;
  and what only the tests call: `files_ls`, `read_dentry_by_index` by itself.
- `set_handler` and `sigreturn`, which return -1; `file_write`, `dir_write`, and the opens
  and closes of devices that change nothing.
- Colours and the hardware cursor; the exact characters of modifier keys.
- The banner (`game/`), the tests, and the programs that only write or compute (`fish`,
  `pingpong`, `counter`, `hello`, `testprint`, `sigtest`): `any` and the user steps of
  `ProcessManager` stand for them.  `syserr`'s test of `vidmap`: `ProcessManager`
  has the page it maps, not the pointers it refuses.  `ece391emulate.c` runs programs on
  Linux instead of this kernel.
- An interrupt inside one `putc` of a kernel message, and the uninitialised buffer in
  which `sys_execute` looks for the magic number of an empty file (`syscall.c:340`),
  are hazards without a property, as are the others that `PROJECT.json` lists with a
  note.

## 6. Plan

What is left: `putc` cut into loads and stores, to bound what an interrupted kernel
message can do; a composition of `RTC` with nested processes.
