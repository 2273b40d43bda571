SPECIFICATION FairSpec
CONSTANTS
    TERM_NUM = 2
    KEY_BUF_SIZE = 3
    MAX_INPUT_COUNT = 1
    Typists = {1}
    ReadSizes = {2}
    Races = {}
INVARIANTS
    InputTypeOK  
PROPERTY ReaderServed
