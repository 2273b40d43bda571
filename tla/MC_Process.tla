------------------------------ MODULE MC_Process ------------------------------
(***************************************************************************)
(* Model checking of ProcessManager: the refinement of ProcessStacks.      *)
(***************************************************************************)
EXTENDS ProcessManager

\* The processes of each terminal, from its base shell to the running one.
StackOf ==
    [t \in Terms |->
        [d \in 1 .. task_counter[t] |->
            CHOOSE p \in Pids : Live(p) /\ home[p] = t /\ depth[p] = d]]

Stacks == INSTANCE ProcessStacks WITH stack <- StackOf, turn <- running_term

\* Every step of execute, halt and the scheduler is a push on or a pop from the
\* running terminal's process stack, or a turn of the round robin.
ImplementsStacks == Stacks!Spec
=============================================================================
