SPECIFICATION Spec
CONSTANTS
    p1 = p1  p2 = p2  p3 = p3
    Proc <- TwoProcs
    PipeId <- OnePipe
    MAX_FDS = 2
    FirstFd = 0
    PIPE_CAPACITY = 1
    CHUNK = 1
    Byte = {0}
    Zero = 0
    Lengths <- Short
    BadBuffer <- GoodAndBad
SYMMETRY Interchangeable
INVARIANTS NoLostWakeup
CHECK_DEADLOCK FALSE
