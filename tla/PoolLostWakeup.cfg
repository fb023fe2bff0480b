\* One worker that may be between its critical section and cond_wait.
CONSTANTS
    Clients = {c1}
    threadnum = 1
    MaxQueue = 2
    MaxSubmit = 2
    TasksSubmit = FALSE
    MaxSpurious = 0
    NoThread = NoThread
SPECIFICATION FairSpec
PROPERTY TaskRuns
\* The pool is destroyed or idle.
CHECK_DEADLOCK FALSE
