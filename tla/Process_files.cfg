SPECIFICATION Spec
CONSTANTS
    TERM_NUM = 1
    MAX_PCB_NUM = 2
    FD_MAX = 3
    Programs = {"shell", "cat"}
    ShellBound = 1
    Races = {}
PROPERTY HaltClosesOwnFiles
CHECK_DEADLOCK FALSE
