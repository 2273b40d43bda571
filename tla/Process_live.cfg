SPECIFICATION FairSpec
CONSTANTS
    TERM_NUM = 2
    MAX_PCB_NUM = 3
    FD_MAX = 2
    Programs = {"shell", "fish"}
    ShellBound = 1
    Races = {}
PROPERTIES
    OtherTerminalsUntouched EveryTerminalScheduled ExecuteAnswered HaltStatus
