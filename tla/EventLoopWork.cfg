\* Producers, the loop thread and its set-up; sleep() is called once loop()
\* has begun; wakeup() writes a value that makes the eventfd readable, and a
\* second write would overflow it.
CONSTANTS
    Producers = {p1, p2}
    Loop = Loop
    Setup = Setup
    MaxSubmit = 1
    MaxDirect = 1
    Garbage = {2}
    CounterMax = 3
    EarlySleep = FALSE
SPECIFICATION FairSpec
INVARIANTS TypeOK NoLostWakeup
PROPERTIES ImplementsTaskFifo TaskRuns SleepStops
\* loop() returns.
CHECK_DEADLOCK FALSE
