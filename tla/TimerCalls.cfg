\* Two addresses for two timers: an address is used again and handles outlive timers.
CONSTANTS
    Address = {a1, a2}
    Free = Free
    Millisecond = 2
    Durations = {1, 2}
    Times = {2}
    MaxTime = 4
    Times = {2}
    MaxTimers = 2
    MaxQueue = 1
    Dangling = TRUE
    Racing = TRUE
SPECIFICATION FairSpec
INVARIANTS TypeOK MapKept OncePerPeriod
PROPERTIES DueIsOffered HandleEnds
\* The clock stops and the pool need not go on.
CHECK_DEADLOCK FALSE
