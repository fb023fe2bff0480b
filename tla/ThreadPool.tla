----------------------------- MODULE ThreadPool -----------------------------
(***************************************************************************)
(* Util::ThreadPool and the Util::Thread objects it owns: client threads   *)
(* call AddTask, the workers run the tasks, and the owner destroys the     *)
(* pool when no client is inside a call any more.                          *)
(*                                                                         *)
(* A step is one access to state that another thread can see: one critical *)
(* section of the pool's _lock, one access to an atomic, one operation on  *)
(* the condition variable.  A task runs inside the critical section of the *)
(* worker that took it, so _lock is held across several steps there.       *)
(***************************************************************************)
EXTENDS Naturals, Sequences

CONSTANTS
    Clients,      \* threads that call AddTask
    threadnum,    \* _threadnum: workers are numbered as in _threads
    MaxQueue,     \* _initqueuesize
    MaxSubmit,    \* bound: AddTask calls per thread
    TasksSubmit,  \* do tasks call AddTask on their own pool?
    MaxSpurious,  \* bound: spurious wakeups of pthread_cond_wait
    NoThread      \* the holder of a free lock

Workers == 1 .. threadnum
Callers == Clients \cup Workers
Task    == Callers \X (1 .. MaxSubmit)

ASSUME PoolAssumption ==
    /\ threadnum \in Nat \ {0}
    /\ MaxQueue \in Nat \ {0}
    /\ MaxSubmit \in Nat
    /\ TasksSubmit \in BOOLEAN
    /\ MaxSpurious \in Nat
    /\ Clients \cap Workers = {}
    /\ NoThread \notin Callers

VARIABLES
    lock,         \* who holds _lock
    taskqueue,    \* _taskqueue
    freethreads,  \* _freethreads
    poolInRun,    \* _pool_is_in_run
    flags,        \* per worker, the atomics _run, _block and _running
    waiting,      \* the workers inside pthread_cond_wait
    wpc,          \* per worker: where it is in Thread::Start's function
    cpc,          \* per caller: where it is in AddTask
    opc,          \* where the owner is in ~ThreadPool
    next,         \* the worker whose turn it is in the owner's loop
    sent,         \* per caller: how many AddTask calls it has made
    spurious,     \* how many spurious wakeups there have been
    submitted,    \* history: the tasks accepted, in order
    served        \* history: the tasks started, in order

queueVars  == <<lock, taskqueue, freethreads>>
threadVars == <<flags, waiting, wpc, spurious>>
callVars   == <<cpc, sent>>
ownerVars  == <<poolInRun, opc, next>>
history    == <<submitted, served>>
vars       == <<queueVars, threadVars, callVars, ownerVars, history>>

Init ==
    /\ lock = NoThread
    /\ taskqueue = <<>>
    /\ freethreads = <<>>
    /\ poolInRun = TRUE
    /\ flags = [w \in Workers |-> [run |-> FALSE, block |-> FALSE, running |-> FALSE]]
    /\ waiting = {}
    /\ wpc = [w \in Workers |-> "created"]
    /\ cpc = [c \in Callers |-> "out"]
    /\ opc = "using"
    /\ next = 1
    /\ sent = [c \in Callers |-> 0]
    /\ spurious = 0
    /\ submitted = <<>>
    /\ served = <<>>

Alive == opc # "terminated"

\* Worker w moves from one place to another, setting one of its atomics or none.
Goto(w, from, to) ==
    /\ Alive
    /\ wpc[w] = from
    /\ wpc' = [wpc EXCEPT ![w] = to]

SetFlag(w, flag, value) == flags' = [flags EXCEPT ![w][flag] = value]

(***************************************************************************)
(* AddTask                                                                 *)
(***************************************************************************)
\* A client calls until the owner destroys the pool; a task may call too.
MayCall(c) ==
    IF c \in Clients THEN opc = "using" ELSE TasksSubmit /\ wpc[c] = "task"

\* The unlocked test of _pool_is_in_run; PoolStop is returned at once.
CallAddTask(c) ==
    /\ Alive
    /\ MayCall(c)
    /\ cpc[c] = "out"
    /\ sent[c] < MaxSubmit
    /\ sent' = [sent EXCEPT ![c] = @ + 1]
    /\ cpc' = [cpc EXCEPT ![c] = IF poolInRun THEN "locking" ELSE "out"]
    /\ UNCHANGED <<queueVars, threadVars, ownerVars, history>>

\* Mutant of Enqueue: one task too many is accepted.
EnqueueOneMore(c) ==
    /\ Alive
    /\ cpc[c] = "locking"
    /\ lock = NoThread
    /\ IF Len(taskqueue) > MaxQueue
         THEN UNCHANGED <<taskqueue, submitted>>
         ELSE /\ taskqueue' = Append(taskqueue, <<c, sent[c]>>)
              /\ submitted' = Append(submitted, <<c, sent[c]>>)
    /\ cpc' = [cpc EXCEPT ![c] = "out"]
    /\ UNCHANGED <<lock, freethreads, threadVars, sent, ownerVars, served>>

\* The critical section: refuse when full, else queue; a free worker's
\* _block is still to be read, with the lock held.
Enqueue(c) ==
    /\ Alive
    /\ cpc[c] = "locking"
    /\ lock = NoThread
    /\ IF Len(taskqueue) >= MaxQueue
         THEN UNCHANGED <<taskqueue, submitted>>
         ELSE /\ taskqueue' = Append(taskqueue, <<c, sent[c]>>)
              /\ submitted' = Append(submitted, <<c, sent[c]>>)
    /\ IF Len(taskqueue) < MaxQueue /\ freethreads # <<>>
         THEN /\ cpc' = [cpc EXCEPT ![c] = "waking"]
              /\ lock' = c
         ELSE /\ cpc' = [cpc EXCEPT ![c] = "out"]
              /\ UNCHANGED lock
    /\ UNCHANGED <<freethreads, threadVars, sent, ownerVars, served>>

\* WakeUpOne: the worker is popped whether ReStart found it blocked or not.
\* ReStart's read of _block:
WakeUpOne(c) ==
    /\ Alive
    /\ cpc[c] = "waking"
    /\ IF flags[Head(freethreads)].block
         THEN /\ cpc' = [cpc EXCEPT ![c] = "notifying"]
              /\ UNCHANGED <<lock, freethreads>>
         ELSE /\ cpc' = [cpc EXCEPT ![c] = "out"]
              /\ lock' = NoThread
              /\ freethreads' = Tail(freethreads)
    /\ UNCHANGED <<taskqueue, threadVars, sent, ownerVars, history>>

\* ReStart's notify_all, which only reaches a worker already in cond_wait.
Notify(c) ==
    /\ Alive
    /\ cpc[c] = "notifying"
    /\ waiting' = waiting \ {Head(freethreads)}
    /\ freethreads' = Tail(freethreads)
    /\ lock' = NoThread
    /\ cpc' = [cpc EXCEPT ![c] = "out"]
    /\ UNCHANGED <<taskqueue, flags, wpc, spurious, sent, ownerVars, history>>

(***************************************************************************)
(* A worker: Thread::Start's function around the pool's step               *)
(***************************************************************************)
Begin(w) ==
    /\ Goto(w, "created", "started")
    /\ SetFlag(w, "running", TRUE)
    /\ UNCHANGED <<queueVars, waiting, spurious, callVars, ownerVars, history>>

SetRun(w) ==
    /\ Goto(w, "started", "loop")
    /\ SetFlag(w, "run", TRUE)
    /\ UNCHANGED <<queueVars, waiting, spurious, callVars, ownerVars, history>>

TestRun(w) ==
    /\ Goto(w, "loop", IF flags[w].run THEN "step" ELSE "leaving")
    /\ UNCHANGED <<queueVars, flags, waiting, spurious, callVars, ownerVars, history>>

TestPool(w) ==
    /\ Goto(w, "step", IF poolInRun THEN "locking" ELSE "stopping")
    /\ UNCHANGED <<queueVars, flags, waiting, spurious, callVars, ownerVars, history>>

\* Mutant of BecomeFree: Block is called inside the critical section.
BecomeFreeLocked(w) ==
    /\ lock = NoThread
    /\ taskqueue = <<>>
    /\ Goto(w, "locking", "blocking")
    /\ lock' = w
    /\ freethreads' = Append(freethreads, w)
    /\ UNCHANGED <<taskqueue, flags, waiting, spurious, callVars, ownerVars, history>>

\* The critical section, when there is nothing to do.
BecomeFree(w) ==
    /\ lock = NoThread
    /\ taskqueue = <<>>
    /\ Goto(w, "locking", "blocking")
    /\ freethreads' = Append(freethreads, w)
    /\ UNCHANGED <<lock, taskqueue, flags, waiting, spurious, callVars, ownerVars, history>>

\* Mutant of StartTask: the task runs outside the critical section.
StartTaskUnlocked(w) ==
    /\ lock = NoThread
    /\ taskqueue # <<>>
    /\ Goto(w, "locking", "task")
    /\ served' = Append(served, Head(taskqueue))
    /\ UNCHANGED <<lock, taskqueue, freethreads, flags, waiting, spurious, callVars,
                   ownerVars, submitted>>

\* The critical section, when there is: the task runs with _lock held.
StartTask(w) ==
    /\ lock = NoThread
    /\ taskqueue # <<>>
    /\ Goto(w, "locking", "task")
    /\ lock' = w
    /\ served' = Append(served, Head(taskqueue))
    /\ UNCHANGED <<taskqueue, freethreads, flags, waiting, spurious, callVars,
                   ownerVars, submitted>>

\* The task returns, is popped, and the lock is released.
TaskReturns(w) ==
    /\ cpc[w] = "out"
    /\ Goto(w, "task", "loop")
    /\ taskqueue' = Tail(taskqueue)
    /\ lock' = NoThread
    /\ UNCHANGED <<freethreads, flags, waiting, spurious, callVars, ownerVars, history>>

\* Thread::Block, after the pool's lock has been released.
Block(w) ==
    /\ Goto(w, "blocking", "waiting")
    /\ SetFlag(w, "block", TRUE)
    /\ UNCHANGED <<queueVars, waiting, spurious, callVars, ownerVars, history>>

CondWait(w) ==
    /\ Goto(w, "waiting", "asleep")
    /\ waiting' = waiting \cup {w}
    /\ UNCHANGED <<queueVars, flags, spurious, callVars, ownerVars, history>>

WakeSpuriously(w) ==
    /\ Alive
    /\ w \in waiting
    /\ spurious < MaxSpurious
    /\ spurious' = spurious + 1
    /\ waiting' = waiting \ {w}
    /\ UNCHANGED <<queueVars, flags, wpc, callVars, ownerVars, history>>

Unblock(w) ==
    /\ w \notin waiting
    /\ Goto(w, "asleep", "loop")
    /\ SetFlag(w, "block", FALSE)
    /\ UNCHANGED <<queueVars, waiting, spurious, callVars, ownerVars, history>>

\* Mutant of StopRunning: the break of the switch ends the step, not the loop.
StopRunningNot(w) ==
    /\ Goto(w, "stopping", "loop")
    /\ UNCHANGED <<queueVars, flags, waiting, spurious, callVars, ownerVars, history>>

\* The pool's step returned Stop.
StopRunning(w) ==
    /\ Goto(w, "stopping", "loop")
    /\ SetFlag(w, "run", FALSE)
    /\ UNCHANGED <<queueVars, waiting, spurious, callVars, ownerVars, history>>

Leave(w) ==
    /\ Goto(w, "leaving", "left")
    /\ SetFlag(w, "running", FALSE)
    /\ UNCHANGED <<queueVars, waiting, spurious, callVars, ownerVars, history>>

(***************************************************************************)
(* The owner: ~ThreadPool, that is stop() and then a ~Thread per worker    *)
(***************************************************************************)
OwnerGoto(from, to) ==
    /\ opc = from
    /\ opc' = to

\* The owner's loop goes on to the next worker, or to what follows the loop.
NextWorker(stay, after) ==
    IF next < threadnum THEN next' = next + 1 /\ opc' = stay
                        ELSE next' = 1 /\ opc' = after

Destroy ==
    /\ \A c \in Clients : cpc[c] = "out"
    /\ OwnerGoto("using", "stop")
    /\ poolInRun' = FALSE
    /\ UNCHANGED <<queueVars, threadVars, callVars, next, history>>

\* Mutant of PassWorker: every worker is looked at once.
PassAnyWorker ==
    /\ opc = "stop"
    /\ ~ flags[next].block
    /\ NextWorker("stop", "clear")
    /\ UNCHANGED <<queueVars, threadVars, callVars, poolInRun, history>>

\* A worker that does not run is passed over; the loop spins on one that runs
\* and is not blocked.
PassWorker ==
    /\ opc = "stop"
    /\ ~ flags[next].run
    /\ NextWorker("stop", "clear")
    /\ UNCHANGED <<queueVars, threadVars, callVars, poolInRun, history>>

FindBlocked ==
    /\ flags[next].run
    /\ flags[next].block
    /\ OwnerGoto("stop", "restart")
    /\ UNCHANGED <<queueVars, threadVars, callVars, poolInRun, next, history>>

ReStart ==
    /\ OwnerGoto("restart", "stop")
    /\ waiting' = IF flags[next].block THEN waiting \ {next} ELSE waiting
    /\ UNCHANGED <<queueVars, flags, wpc, spurious, callVars, poolInRun, next, history>>

\* ~Thread: _run is cleared, then _running is polled ten times.
ClearRun ==
    /\ OwnerGoto("clear", "poll")
    /\ SetFlag(next, "run", FALSE)
    /\ UNCHANGED <<queueVars, waiting, wpc, spurious, callVars, poolInRun, next, history>>

\* The poll ends when _running is clear or the time is over.
PollRunning ==
    /\ OwnerGoto("poll", "test")
    /\ UNCHANGED <<queueVars, threadVars, callVars, poolInRun, next, history>>

\* The thread is joined only if it is not running; a std::thread destroyed
\* unjoined ends the program.
TestRunning ==
    /\ OwnerGoto("test", IF flags[next].running THEN "terminated" ELSE "join")
    /\ UNCHANGED <<queueVars, threadVars, callVars, poolInRun, next, history>>

Join ==
    /\ opc = "join"
    /\ wpc[next] = "left"
    /\ NextWorker("clear", "destroyed")
    /\ UNCHANGED <<queueVars, threadVars, callVars, poolInRun, history>>

(***************************************************************************)
(* The specification                                                       *)
(***************************************************************************)
CallStep(c) == Enqueue(c) \/ WakeUpOne(c) \/ Notify(c)

WorkerStep(w) ==
    \/ Begin(w) \/ SetRun(w) \/ TestRun(w) \/ TestPool(w)
    \/ BecomeFree(w) \/ StartTask(w) \/ TaskReturns(w)
    \/ Block(w) \/ CondWait(w) \/ Unblock(w)
    \/ StopRunning(w) \/ Leave(w)

StopStep == PassWorker \/ FindBlocked \/ ReStart

JoinStep == ClearRun \/ PollRunning \/ TestRunning \/ Join

Next ==
    \/ \E c \in Callers : CallAddTask(c) \/ CallStep(c)
    \/ \E w \in Workers : WorkerStep(w) \/ WakeSpuriously(w)
    \/ Destroy \/ StopStep \/ JoinStep

Spec == Init /\ [][Next]_vars

\* A thread that can go on does.  Nobody has to call AddTask or to destroy the
\* pool, and no spurious wakeup has to come.
Fairness ==
    /\ \A c \in Callers : WF_vars(CallStep(c))
    /\ \A w \in Workers : WF_vars(WorkerStep(w))
    /\ WF_vars(StopStep \/ JoinStep)

FairSpec == Spec /\ Fairness

(***************************************************************************)
(* Properties                                                              *)
(***************************************************************************)
WorkerPc == {"created", "started", "loop", "step", "locking", "task", "blocking",
             "waiting", "asleep", "stopping", "leaving", "left"}
CallPc   == {"out", "locking", "waking", "notifying"}
OwnerPc  == {"using", "stop", "restart", "clear", "poll", "test", "join",
             "destroyed", "terminated"}

\* The type invariant; the queue never holds more than _initqueuesize tasks,
\* the task being run included.
TypeOK ==
    /\ lock \in Callers \cup {NoThread}
    /\ taskqueue \in Seq(Task)
    /\ Len(taskqueue) <= MaxQueue
    /\ freethreads \in Seq(Workers)
    /\ poolInRun \in BOOLEAN
    /\ flags \in [Workers -> [run : BOOLEAN, block : BOOLEAN, running : BOOLEAN]]
    /\ waiting \subseteq Workers
    /\ wpc \in [Workers -> WorkerPc]
    /\ cpc \in [Callers -> CallPc]
    /\ opc \in OwnerPc
    /\ next \in Workers
    /\ sent \in [Callers -> 0 .. MaxSubmit]
    /\ spurious \in 0 .. MaxSpurious
    /\ submitted \in Seq(Task)
    /\ served \in Seq(Task)

\* The pool implements the abstract FIFO of tasks: what AddTask accepted is
\* started once, in the order of acceptance, whichever worker takes it; what
\* AddTask refused is never started.
FIFO == INSTANCE TaskFifo
ImplementsTaskFifo == FIFO!Spec

\* stop() waits for the tasks that are being run: once it has returned, no
\* worker is inside the pool's critical section or on its way into it, one
\* that was passed over because it had not started included.
QuietAfterStop ==
    opc \in {"clear", "poll", "test", "join", "destroyed"} =>
        \A w \in Workers : wpc[w] \notin {"locking", "task", "blocking"}

\* The destructor comes to an end: a worker about to sleep when stop() first
\* notifies it is notified again.  One such end is that of the whole program, in
\* a ~Thread whose ten polls were over before its worker had left (see
\* NeverTerminates, which the code does not keep).
DestroyEnds == opc = "stop" ~> opc \in {"destroyed", "terminated"}

\* The header's workflow: a task that was queued wakes a blocked thread, or a
\* running one takes it.  While the pool is not destroyed it is started.
TaskRuns ==
    \A t \in Task :
        (\E i \in 1 .. Len(submitted) : submitted[i] = t)
            ~> (opc # "using" \/ \E i \in 1 .. Len(served) : served[i] = t)

\* A call of AddTask returns: whoever holds the lock gives it back, unless its
\* task waits for the lock itself (TasksSubmit).
AddTaskReturns == \A c \in Callers : cpc[c] # "out" ~> cpc[c] = "out"

\* ~Thread waits and then joins the thread, as the comment above it says: it never
\* destroys a std::thread that is still joinable.  No run checks it, because it
\* does not hold.
NeverTerminates == opc # "terminated"

=============================================================================
