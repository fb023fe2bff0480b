\* Two threads log two lines each while the clock ticks; the program may end
\* at any time.
CONSTANTS
    Threads = {t1, t2}
    MaxLines = 2
    MaxTime = 1
    Parts = {date, clock}
SPECIFICATION FairSpec
INVARIANT Safe
PROPERTIES ImplementsTaskFifo LineWritten
\* The program ends.
CHECK_DEADLOCK FALSE
