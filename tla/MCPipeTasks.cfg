SPECIFICATION FairSpec
CONSTANTS
    p1 = p1  p2 = p2  p3 = p3
    Proc <- ThreeProcs
    PipeId <- OnePipe
    MAX_FDS = 2
    FirstFd = 0
    PIPE_CAPACITY = 1
    CHUNK = 1
    Byte = {0}
    Zero = 0
    Lengths <- ShortAndLong
    BadBuffer <- Good
INVARIANTS CountsAreDescriptors NoLostWakeup
PROPERTIES HangupSeen
CHECK_DEADLOCK FALSE
