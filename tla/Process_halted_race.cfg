SPECIFICATION Spec
CONSTANTS
    TERM_NUM = 2
    MAX_PCB_NUM = 4
    FD_MAX = 1
    Programs = {"shell", "cat"}
    ShellBound = 1
    Races = {"halted"}
INVARIANT HaltReturnsToParent
CHECK_DEADLOCK FALSE
