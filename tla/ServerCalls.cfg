\* Up to two sub-loops and three callers of start(); the server is destroyed
\* once every loop it started is in loop().
CONSTANTS
    MaxThreads = 3
    Callers = {t1, t2}
    Clients = {c1}
    MaxRefused = 2
    Spurious = TRUE
    EarlyStop = FALSE
SPECIFICATION FairSpec
INVARIANTS Safe StartPublishes
PROPERTIES Served StopEnds
\* The destructor is the end of the program, and so is a failed assert.
CHECK_DEADLOCK FALSE
