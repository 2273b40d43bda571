SPECIFICATION FairSpec
CONSTANTS
    TERM_NUM = 3
    RTC_MAX_FREQ = 8
    RTC_MIN_FREQ = 2
    Freqs = {0, 1, 2, 3, 4, 8, 16}
INVARIANTS
    RtcTypeOK ReadsPaced
PROPERTY ReadsAnswered
