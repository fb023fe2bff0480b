------------------------------- MODULE Logger -------------------------------
(***************************************************************************)
(* net::Logger, the variant with a queue (the one the build compiles):     *)
(* every thread of the program logs through the one instance, whose thread *)
(* takes the lines from the queue and writes them to the file.             *)
(*                                                                         *)
(* A step of a logging thread is one access to what another can see: the   *)
(* struct tm that localtime() shares between all threads, and the queue.   *)
(* A call below LOG_LEVEL returns at once and is no step.  A line is the   *)
(* call that made it and its stamp: for each part of the stamp, the time   *)
(* that part was taken from.  The instance is made by the first call and   *)
(* lives as long as the program.                                           *)
(***************************************************************************)
EXTENDS Naturals, Sequences

CONSTANTS
    Threads,  \* the threads that log
    MaxLines, \* bound: calls of Log per thread
    MaxTime,  \* bound: seconds that pass
    Parts     \* the parts of a stamp: date, hour, minute and so on

ASSUME BoundAssumption ==
    /\ MaxLines \in Nat
    /\ MaxTime \in Nat
    /\ Parts # {}

VARIABLES
    now,        \* the clock, in seconds
    tm,         \* the time the struct tm of localtime() stands for
    at,         \* where each thread is in Log
    read,       \* per thread: the time its call has read
    stamp,      \* per thread: the parts of its stamp printed so far
    count,      \* per thread: calls so far
    queue,      \* _queue, guarded by _mutex
    wpc,        \* where the writer thread is
    buffer,     \* its static `line`
    submitted,  \* history: the lines enqueued, in order
    served,     \* history: the lines given to write(2), in order
    oldest,     \* history: per thread, the oldest time read by a call that was
                \* under way when its own began
    exited      \* the program has ended

callVars == <<tm, at, read, stamp, count, oldest>>
logVars  == <<queue, wpc, buffer, submitted, served>>
vars     == <<now, callVars, logVars, exited>>

Time    == 0 .. MaxTime
Stamp   == [Parts -> Time]
Printed == UNION {[P -> Time] : P \in SUBSET Parts}
Line    == [by : Threads, no : 1 .. MaxLines, stamp : Stamp]
NoLine  == [by |-> "nobody", no |-> 0]

TypeOK ==
    /\ now \in Time /\ tm \in Time
    /\ at \in [Threads -> {"idle", "convert", "format", "enqueue"}]
    /\ read \in [Threads -> Time]
    /\ stamp \in [Threads -> Printed]
    /\ count \in [Threads -> 0 .. MaxLines]
    /\ queue \in Seq(Line)
    /\ wpc \in {"test", "dequeue", "write"}
    /\ buffer \in Line \cup {NoLine}
    /\ submitted \in Seq(Line) /\ served \in Seq(Line)
    /\ oldest \in [Threads -> Time]
    /\ exited \in BOOLEAN

Init ==
    /\ now = 0 /\ tm = 0
    /\ at = [t \in Threads |-> "idle"]
    /\ read = [t \in Threads |-> 0]
    /\ stamp = [t \in Threads |-> <<>>]
    /\ count = [t \in Threads |-> 0]
    /\ queue = <<>>
    /\ wpc = "test" /\ buffer = NoLine
    /\ submitted = <<>> /\ served = <<>>
    /\ oldest = [t \in Threads |-> 0]
    /\ exited = FALSE

Advance(t, from, to) == at[t] = from /\ at' = [at EXCEPT ![t] = to]

(***************************************************************************)
(* Log                                                                     *)
(***************************************************************************)
\* system_clock::now().
ReadClock(t) ==
    /\ count[t] < MaxLines
    /\ Advance(t, "idle", "convert")
    /\ count' = [count EXCEPT ![t] = @ + 1]
    /\ read' = [read EXCEPT ![t] = now]
    /\ LET times == {now} \cup {read[u] : u \in {v \in Threads : at[v] # "idle"}}
       IN  \E first \in times : /\ \A time \in times : first <= time
                               /\ oldest' = [oldest EXCEPT ![t] = first]
    /\ UNCHANGED <<now, tm, stamp, logVars, exited>>

\* Mutant of Convert: the struct is filled once and used from then on.
ConvertOnce(t) ==
    /\ Advance(t, "convert", "format")
    /\ tm' = IF count[t] = 1 THEN read[t] ELSE tm
    /\ UNCHANGED <<now, read, stamp, count, oldest, logVars, exited>>

\* localtime() fills the one struct tm there is.
Convert(t) ==
    /\ Advance(t, "convert", "format")
    /\ tm' = read[t]
    /\ UNCHANGED <<now, read, stamp, count, oldest, logVars, exited>>

With(f, p) == [q \in DOMAIN f \cup {p} |-> IF q = p THEN tm ELSE f[q]]

\* One part of the snprintf.  Nothing orders it with the localtime() of another
\* thread, which may have filled the struct since, or may do so between two
\* parts; the compiler chooses the order of the parts.
FormatPart(t) ==
    /\ at[t] = "format"
    /\ \E p \in Parts \ DOMAIN stamp[t] : stamp' = [stamp EXCEPT ![t] = With(@, p)]
    /\ UNCHANGED <<now, tm, at, read, count, oldest, logVars, exited>>

\* The name of the level and the text.
Format(t) ==
    /\ DOMAIN stamp[t] = Parts
    /\ Advance(t, "format", "enqueue")
    /\ UNCHANGED <<now, tm, read, stamp, count, oldest, logVars, exited>>

Enqueue(t) ==
    /\ Advance(t, "enqueue", "idle")
    /\ LET line == [by |-> t, no |-> count[t], stamp |-> stamp[t]]
       IN  queue' = Append(queue, line) /\ submitted' = Append(submitted, line)
    /\ stamp' = [stamp EXCEPT ![t] = <<>>]
    /\ UNCHANGED <<now, tm, read, count, oldest, wpc, buffer, served, exited>>

(***************************************************************************)
(* The writer thread                                                       *)
(***************************************************************************)
\* Mutant of TestQueue: the queue is not tested.
TestQueueNot ==
    /\ wpc = "test"
    /\ wpc' = "dequeue"
    /\ UNCHANGED <<now, callVars, queue, buffer, submitted, served, exited>>

\* Mutant of TestQueue: one line is held back.
TestQueueForTwo ==
    /\ wpc = "test" /\ Len(queue) > 1
    /\ wpc' = "dequeue"
    /\ UNCHANGED <<now, callVars, queue, buffer, submitted, served, exited>>

\* The test of _queue.empty() takes no lock; while it says yes the thread
\* spins.
TestQueue ==
    /\ wpc = "test" /\ queue # <<>>
    /\ wpc' = "dequeue"
    /\ UNCHANGED <<now, callVars, queue, buffer, submitted, served, exited>>

\* Mutant of Dequeue: the front is copied and not popped.
DequeueNot ==
    /\ wpc = "dequeue"
    /\ buffer' = IF queue = <<>> THEN buffer ELSE Head(queue)
    /\ wpc' = "write"
    /\ UNCHANGED <<now, callVars, queue, submitted, served, exited>>

\* Dequeue tests the queue again under the lock and leaves the string alone if
\* it is empty; nobody looks at its result.
Dequeue ==
    /\ wpc = "dequeue"
    /\ IF queue = <<>> THEN UNCHANGED <<buffer, queue>>
                       ELSE buffer' = Head(queue) /\ queue' = Tail(queue)
    /\ wpc' = "write"
    /\ UNCHANGED <<now, callVars, submitted, served, exited>>

\* write(2), whose result is ignored too.
Write ==
    /\ wpc = "write"
    /\ served' = Append(served, buffer)
    /\ wpc' = "test"
    /\ UNCHANGED <<now, callVars, queue, buffer, submitted, exited>>

(***************************************************************************)
(* The whole                                                               *)
(***************************************************************************)
Second ==
    /\ now < MaxTime
    /\ now' = now + 1
    /\ UNCHANGED <<callVars, logVars, exited>>

\* main() returns: the instance is never destroyed, and what is in the queue
\* is not written.
Exit ==
    /\ exited' = TRUE
    /\ UNCHANGED <<now, callVars, logVars>>

Finish(t)  == Convert(t) \/ FormatPart(t) \/ Format(t) \/ Enqueue(t)
Log(t)     == ReadClock(t) \/ Finish(t)
WriterStep == TestQueue \/ Dequeue \/ Write

Next ==
    /\ ~exited
    /\ \/ \E t \in Threads : Log(t)
       \/ WriterStep
       \/ Second \/ Exit

Spec == Init /\ [][Next]_vars

\* The writer thread is scheduled, and so is a thread inside Log.
Fairness ==
    /\ WF_vars(~exited /\ WriterStep)
    /\ \A t \in Threads : WF_vars(~exited /\ Finish(t))

FairSpec == Spec /\ Fairness

(***************************************************************************)
(* Properties                                                              *)
(***************************************************************************)
\* Lines reach the file in the order in which they entered the queue, none
\* twice and none that was not logged: the test without the lock and the
\* ignored result of Dequeue do no harm with one writer thread.
FIFO == INSTANCE TaskFifo WITH Task <- Line
ImplementsTaskFifo == FIFO!Spec

\* A call of Log ends, and its line is given to write(2), unless the program
\* ends first.
LineWritten ==
    \A t \in Threads : \A n \in 1 .. MaxLines :
        (count[t] >= n)
            ~> (exited \/ \E i \in 1 .. Len(served) : served[i].by = t /\ served[i].no = n)

\* A stamp may be mixed of several threads' times, but no part of it is older
\* than the oldest call that was under way when its own began, or of the
\* future: it is wrong by no more than the calls overlap.
StampRecent ==
    \A t \in Threads : \A p \in DOMAIN stamp[t] :
        oldest[t] <= stamp[t][p] /\ stamp[t][p] <= now

\* The writer holds a line whenever it writes one, although nobody looks at the
\* result of Dequeue, and no stamp is wrong by more than that.
Safe == TypeOK /\ (wpc = "write" => buffer # NoLine) /\ StampRecent
=============================================================================
