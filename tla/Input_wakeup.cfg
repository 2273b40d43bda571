SPECIFICATION Spec
CONSTANTS
    TERM_NUM = 2
    KEY_BUF_SIZE = 4
    MAX_INPUT_COUNT = 1
    Typists = {1}
    ReadSizes = {4}
    Races = {}
PROPERTY WakeupKept
