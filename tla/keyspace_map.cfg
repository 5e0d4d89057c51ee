CONSTANTS
    Keys = {1, 2, 3, 4}
    Step = 0
    MinCap = 2
    MaxOps = 7
    Limits = {2, 5}
    NONE = NONE
SPECIFICATION Spec
INVARIANT KeyInOneTable TablesWithinCapacity
PROPERTY KeySpaceIsAMap
CHECK_DEADLOCK FALSE
