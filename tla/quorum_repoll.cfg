CONSTANTS
    Replicas = {r1, r2, r3}
    MaxAppends = 2
SPECIFICATION Spec
INVARIANT NeverPollsCompletedFlight
CHECK_DEADLOCK FALSE
