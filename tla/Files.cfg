SPECIFICATION ProgramsSpec
CONSTANTS
    FILENAME_LEN = 2
    DENTRY_SIZE = 5
    DATA_BLOCK_ENTRY_SIZE = 2
    DATA_BLOCK_SIZE = 5
    FD_MAX = 3
    Images <- MCImages
    Names <- MCNames
    Sizes = {0, 1, 2, 3, 5, 7}
    CatBufSize = 3
    BUFSIZE = 3
    Args <- MCNames
    Patterns <- MCPatterns
    Texts <- MCTexts
    WrongNames <- MCWrongNames
    StaleBytes = {"nul", "a"}
CHECK_DEADLOCK FALSE
INVARIANTS
    FilesTypeOK ReadDataMatches ReadsAreConsecutive ListingComplete
    CatAndLsComplete GrepFindsLines SyserrPasses
