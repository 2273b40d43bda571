SPECIFICATION Spec
CONSTANTS
    TERM_NUM = 2
    NUM_COLS = 2
    NUM_ROWS = 2
    Chars = {"x"}
    Blank = " "
    Races = {}
INVARIANT ScreensTypeOK
PROPERTY ImplementsConsoles
