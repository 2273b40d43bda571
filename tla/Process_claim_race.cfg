SPECIFICATION Spec
CONSTANTS
    TERM_NUM = 2
    MAX_PCB_NUM = 3
    FD_MAX = 1
    Programs = {"shell", "cat"}
    ShellBound = 1
    Races = {"claim"}
INVARIANT PositionAvailable
CHECK_DEADLOCK FALSE
