SPECIFICATION MCSpec
CONSTANTS
    MAX_PCB_NUM = 2
    CMD_LENGTH = 7
    FILENAME_LEN = 2
    Letters = {"a", "b"}
    Executables <- MCExecutables
    Lines <- MCLines
    WordBits = 8
    MemSize = 14
    StrSize = 4
    MaxTokens = 3
CHECK_DEADLOCK FALSE
INVARIANTS
    CommandsTypeOK ArgumentIsOwn RunsNamedFile
    BytesMoved CopiesCompareEqual PrintfPrints
