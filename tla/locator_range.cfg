CONSTANTS
    NONE = NONE
    PANIC = PANIC
    MaxKey = 4
    MaxCrc = 5
    MaxShards = 3
SPECIFICATION RangeSpec
INVARIANT RangeFindShardCorrect
CHECK_DEADLOCK FALSE
