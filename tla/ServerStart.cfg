\* One thread starts, no spurious wakeup: the notification may come between
\* the test of the entry and the wait.
CONSTANTS
    MaxThreads = 2
    Callers = {}
    Clients = {}
    MaxRefused = 0
    Spurious = FALSE
    EarlyStop = FALSE
SPECIFICATION FairSpec
PROPERTY StartsAll
CHECK_DEADLOCK FALSE
