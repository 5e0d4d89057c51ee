CONSTANTS
    Keys = {1, 2, 3}
    Timestamps = {1, 2}
    BlockSize = 2
    MaxAdds = 5
    MaxFinish = 1
    MaxWriteFail = 1
    NONE = NONE
    PANIC = PANIC
    CORRUPT = CORRUPT
SPECIFICATION Spec
INVARIANT FinishedTableReadsBack FinishedTableGetsEach
CHECK_DEADLOCK FALSE
