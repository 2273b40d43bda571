---------------------------- MODULE ProcessStacks ----------------------------
(***************************************************************************)
(* What the process manager promises: each terminal has a stack of         *)
(* processes, the terminals take turns in a fixed cyclic order, and only   *)
(* the stack of the terminal whose turn it is changes, only at its top.    *)
(***************************************************************************)
EXTENDS Integers, Sequences, Functions

CONSTANTS TERM_NUM, Pids

VARIABLES stack, turn

Terms == 1 .. TERM_NUM

InUse == UNION {Range(stack[t]) : t \in Terms}

Init == /\ stack = [t \in Terms |-> <<>>]
        /\ turn = 0

\* A process that is in no stack is put on top of terminal t's.
Start(t) == \E p \in Pids \ InUse :
                stack' = [stack EXCEPT ![t] = Append(@, p)]

Execute == /\ turn \in Terms
           /\ Start(turn)
           /\ UNCHANGED turn

Halt == /\ turn \in Terms
        /\ stack[turn] # <<>>
        /\ stack' = [stack EXCEPT ![turn] = SubSeq(@, 1, Len(@) - 1)]
        /\ UNCHANGED turn

\* The next terminal's turn; a terminal without a process gets its first one.
Tick == /\ turn' = (turn % TERM_NUM) + 1
        /\ IF stack[turn'] = <<>> THEN Start(turn') ELSE UNCHANGED stack

Spec == Init /\ [][Execute \/ Halt \/ Tick]_<<stack, turn>>
=============================================================================
