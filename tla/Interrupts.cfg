SPECIFICATION Spec
CONSTANTS
    TERM_NUM = 2
    MaxFrames = 5
INVARIANTS
    InterruptsTypeOK ServiceMatchesStack HandlersReady EdgesKept
PROPERTIES
    DevicesAnswered
