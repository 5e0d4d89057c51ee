CONSTANTS
    Keys = {1, 2, 3, 4}
    Step = 0
    MinCap = 4
    MaxOps = 7
    Limits = {2, 5}
    NONE = NONE
SPECIFICATION Spec
INVARIANT ReturnsPreviousObject
CHECK_DEADLOCK FALSE
