\* A client of three calls, two workers, a queue of two and one spurious wakeup.
CONSTANTS
    Clients = {c1}
    threadnum = 2
    MaxQueue = 2
    MaxSubmit = 3
    TasksSubmit = FALSE
    MaxSpurious = 1
    NoThread = NoThread
SPECIFICATION FairSpec
INVARIANTS TypeOK QuietAfterStop
PROPERTIES ImplementsTaskFifo DestroyEnds AddTaskReturns
\* The pool is destroyed or idle.
CHECK_DEADLOCK FALSE
