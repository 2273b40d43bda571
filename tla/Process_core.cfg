SPECIFICATION Spec
CONSTANTS
    TERM_NUM = 2
    MAX_PCB_NUM = 4
    FD_MAX = 1
    Programs = {"shell", "cat"}
    ShellBound = 2
    Races = {"fault"}
INVARIANTS
    TypeOK MachineMatchesProcess WaitingContextsIntact ProcessTree BlockedFramesIntact HaltReturnsToParent BaseShellSlots
PROPERTIES
     ImplementsStacks
