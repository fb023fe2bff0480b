\* One timer and well-behaved callers: no stale handle, no race on the map.
CONSTANTS
    Address = {a1}
    Free = Free
    Millisecond = 2
    Durations = {2}
    Times = {2}
    MaxTime = 4
    Times = {2}
    MaxTimers = 1
    MaxQueue = 1
    Dangling = FALSE
    Racing = FALSE
SPECIFICATION Spec
INVARIANT CancelHolds
\* The clock stops.
CHECK_DEADLOCK FALSE
