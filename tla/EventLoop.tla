----------------------------- MODULE EventLoop ------------------------------
(***************************************************************************)
(* net::EventLoop: one thread runs loop(), any thread may hand it work     *)
(* with addTask/addInQueue or ask it to stop with sleep().  The eventfd    *)
(* counter is what turns such a request into a return of epoll_wait.       *)
(*                                                                         *)
(* A step is one access to state that another thread can see: the push or  *)
(* the swap under _mutex, a write or a read of the eventfd, an access to   *)
(* the atomic _sleeping.  _doingPendingTasks and _channels belong to the   *)
(* loop thread and change together with the step next to them.             *)
(***************************************************************************)
EXTENDS Naturals, Sequences, FiniteSets

CONSTANTS
    Producers,   \* threads other than the loop thread
    Loop,        \* the loop thread, once inside loop()
    Setup,       \* the loop thread, before it calls loop()
    MaxSubmit,   \* bound: addInQueue calls per thread
    MaxDirect,   \* bound: addTask calls run inline
    Garbage,     \* the values wakeup() may find in its uninitialised word
    CounterMax,  \* largest value of an eventfd counter (2^64 - 2)
    EarlySleep   \* may sleep() be called before the loop thread is in loop()?

ASSUME ThreadAssumption ==
    /\ Loop # Setup
    /\ {Loop, Setup} \cap Producers = {}

ASSUME BoundAssumption ==
    /\ MaxSubmit \in Nat
    /\ MaxDirect \in Nat
    /\ EarlySleep \in BOOLEAN

\* write(2) refuses 2^64 - 1 and accepts everything below it.
ASSUME CounterAssumption ==
    /\ CounterMax \in Nat \ {0}
    /\ Garbage # {}
    /\ Garbage \subseteq 0 .. CounterMax + 1

VARIABLES
    pendingTasks,  \* _pendingTasks, guarded by _mutex
    tasks,         \* what is left of the vector doPendingTasks swapped out
    doing,         \* _doingPendingTasks
    sleeping,      \* _sleeping
    wakeupFd,      \* the counter of the eventfd
    active,        \* _channels: what the last poll returned and is not done yet
    lpc,           \* where the loop thread is
    ppc,           \* per producer: between the push (or store) and wakeup()?
    sent,          \* per thread: how many tasks it has queued
    submitted,     \* history: the tasks pushed, in order
    served,        \* history: the tasks started from the queue, in order
    direct,        \* history: how many addTask calls ran inline
    asked          \* sleep() has been called

loopVars == <<pendingTasks, tasks, doing, sleeping, wakeupFd, active, lpc>>
history  == <<submitted, served, direct, asked>>
vars     == <<loopVars, ppc, sent, history>>

Threads == Producers \cup {Loop, Setup}
Task    == Threads \X (1 .. MaxSubmit)
Pc      == {"init", "check", "poll", "dispatch", "callback", "run", "task", "quit"}

TypeOK ==
    /\ pendingTasks \in Seq(Task)
    /\ tasks \in Seq(Task)
    /\ doing \in BOOLEAN
    /\ sleeping \in BOOLEAN
    /\ wakeupFd \in 0 .. CounterMax
    /\ active \subseteq {"wakeup", "io"}
    /\ lpc \in Pc
    /\ ppc \in [Producers -> {"idle", "waking"}]
    /\ sent \in [Threads -> 0 .. MaxSubmit]
    /\ submitted \in Seq(Task)
    /\ served \in Seq(Task)
    /\ direct \in 0 .. MaxDirect
    /\ asked \in BOOLEAN

Init ==
    /\ pendingTasks = <<>>
    /\ tasks = <<>>
    /\ doing = FALSE
    /\ sleeping = FALSE
    /\ wakeupFd = 0
    /\ active = {}
    /\ lpc = "init"
    /\ ppc = [p \in Producers |-> "idle"]
    /\ sent = [t \in Threads |-> 0]
    /\ submitted = <<>>
    /\ served = <<>>
    /\ direct = 0
    /\ asked = FALSE

(***************************************************************************)
(* Pieces of the handlers                                                  *)
(***************************************************************************)
\* The critical section of addInQueue, run by thread t.
Push(t) ==
    /\ sent[t] < MaxSubmit
    /\ LET task == <<t, sent[t] + 1>> IN
         /\ pendingTasks' = Append(pendingTasks, task)
         /\ submitted' = Append(submitted, task)
    /\ sent' = [sent EXCEPT ![t] = @ + 1]

\* Mutant of Wakeup: the counter is taken for unbounded.
WakeupUnbounded ==
    \E v \in Garbage : wakeupFd' = v + wakeupFd

\* wakeup(): it writes whatever its uninitialised word holds.  The eventfd
\* is non-blocking: a write that would overflow the counter changes nothing,
\* and the error is only logged.
Wakeup ==
    \E v \in Garbage :
        wakeupFd' = IF v + wakeupFd <= CounterMax THEN v + wakeupFd ELSE wakeupFd

\* sleep() up to its wakeup().  The assertion !_sleeping is the caller's
\* obligation: the library calls sleep() once per loop.
AskSleep ==
    /\ ~asked
    /\ asked' = TRUE
    /\ sleeping' = TRUE

(***************************************************************************)
(* Other threads                                                           *)
(***************************************************************************)
\* addInQueue, or addTask (which queues when the caller is not the loop).
Submit(p) ==
    /\ ppc[p] = "idle"
    /\ Push(p)
    /\ ppc' = [ppc EXCEPT ![p] = "waking"]
    /\ UNCHANGED <<tasks, doing, sleeping, wakeupFd, active, lpc, served, direct, asked>>

Sleep(p) ==
    /\ ppc[p] = "idle"
    /\ lpc = "init" => EarlySleep
    /\ AskSleep
    /\ ppc' = [ppc EXCEPT ![p] = "waking"]
    /\ UNCHANGED <<pendingTasks, tasks, doing, wakeupFd, active, lpc, sent,
                   submitted, served, direct>>

WakeLoop(p) ==
    /\ ppc[p] = "waking"
    /\ Wakeup
    /\ ppc' = [ppc EXCEPT ![p] = "idle"]
    /\ UNCHANGED <<pendingTasks, tasks, doing, sleeping, active, lpc, sent, history>>

(***************************************************************************)
(* Calls the loop thread makes on its own loop: before loop(), and from a  *)
(* channel's callback or a task                                            *)
(***************************************************************************)
\* Mutant of SelfSubmit: the loop thread never wakes itself.
SelfSubmitSilently ==
    /\ lpc \in {"init", "callback", "task"}
    /\ Push(IF lpc = "init" THEN Setup ELSE Loop)
    /\ UNCHANGED <<tasks, doing, sleeping, wakeupFd, active, lpc, ppc, served, direct, asked>>

\* No other thread reads the eventfd, so the push and the wakeup() behind it
\* are one step.
SelfSubmit ==
    /\ lpc \in {"init", "callback", "task"}
    /\ Push(IF lpc = "init" THEN Setup ELSE Loop)
    /\ IF doing THEN Wakeup ELSE UNCHANGED wakeupFd
    /\ UNCHANGED <<tasks, doing, sleeping, active, lpc, ppc, served, direct, asked>>

\* addTask in the loop thread calls the task at once.
SelfDirect ==
    /\ lpc \in {"callback", "task"}
    /\ direct < MaxDirect
    /\ direct' = direct + 1
    /\ UNCHANGED <<loopVars, ppc, sent, submitted, served, asked>>

SelfSleep ==
    /\ lpc \in {"callback", "task"}
    /\ AskSleep
    /\ UNCHANGED <<pendingTasks, tasks, doing, wakeupFd, active, lpc, ppc, sent,
                   submitted, served, direct>>

(***************************************************************************)
(* loop()                                                                  *)
(***************************************************************************)
EnterLoop ==
    /\ lpc = "init"
    /\ sleeping' = FALSE
    /\ lpc' = "check"
    /\ UNCHANGED <<pendingTasks, tasks, doing, wakeupFd, active, ppc, sent, history>>

\* Mutant of TestSleeping: `_sleeping = false` moved into the while loop.
TestSleepingAfterReset ==
    /\ lpc = "check"
    /\ sleeping' = FALSE
    /\ lpc' = "poll"
    /\ UNCHANGED <<pendingTasks, tasks, doing, wakeupFd, active, ppc, sent, history>>

TestSleeping ==
    /\ lpc = "check"
    /\ lpc' = IF sleeping THEN "quit" ELSE "poll"
    /\ UNCHANGED <<pendingTasks, tasks, doing, sleeping, wakeupFd, active, ppc, sent, history>>

\* epoll_wait: the ready channels, or nothing after 100 ms or a signal.
Poll ==
    /\ lpc = "poll"
    /\ \E io \in SUBSET {"io"} :
         active' = io \cup (IF wakeupFd > 0 THEN {"wakeup"} ELSE {})
    /\ lpc' = "dispatch"
    /\ UNCHANGED <<pendingTasks, tasks, doing, sleeping, wakeupFd, ppc, sent, history>>

\* p->doTask() of the wakeup channel: handleRead takes the whole counter.
HandleRead ==
    /\ lpc = "dispatch"
    /\ "wakeup" \in active
    /\ active' = active \ {"wakeup"}
    /\ wakeupFd' = 0
    /\ UNCHANGED <<pendingTasks, tasks, doing, sleeping, lpc, ppc, sent, history>>

\* p->doTask() of any other channel: user code runs until CallbackReturns.
Dispatch ==
    /\ lpc = "dispatch"
    /\ "io" \in active
    /\ active' = active \ {"io"}
    /\ lpc' = "callback"
    /\ UNCHANGED <<pendingTasks, tasks, doing, sleeping, wakeupFd, ppc, sent, history>>

CallbackReturns ==
    /\ lpc = "callback"
    /\ lpc' = "dispatch"
    /\ UNCHANGED <<pendingTasks, tasks, doing, sleeping, wakeupFd, active, ppc, sent, history>>

\* Mutant of SwapTasks: the pending tasks are dropped.
DropTasks ==
    /\ lpc = "dispatch"
    /\ active = {}
    /\ pendingTasks' = <<>>
    /\ doing' = TRUE
    /\ lpc' = "run"
    /\ UNCHANGED <<tasks, sleeping, wakeupFd, active, ppc, sent, history>>

\* The critical section of doPendingTasks.
SwapTasks ==
    /\ lpc = "dispatch"
    /\ active = {}
    /\ tasks' = pendingTasks
    /\ pendingTasks' = <<>>
    /\ doing' = TRUE
    /\ lpc' = "run"
    /\ UNCHANGED <<sleeping, wakeupFd, active, ppc, sent, history>>

\* Mutant of RunTask: the vector is run from its back.
RunLastTask ==
    /\ lpc = "run"
    /\ tasks # <<>>
    /\ served' = Append(served, tasks[Len(tasks)])
    /\ tasks' = SubSeq(tasks, 1, Len(tasks) - 1)
    /\ lpc' = "task"
    /\ UNCHANGED <<pendingTasks, doing, sleeping, wakeupFd, active, ppc, sent,
                   submitted, direct, asked>>

RunTask ==
    /\ lpc = "run"
    /\ tasks # <<>>
    /\ served' = Append(served, Head(tasks))
    /\ tasks' = Tail(tasks)
    /\ lpc' = "task"
    /\ UNCHANGED <<pendingTasks, doing, sleeping, wakeupFd, active, ppc, sent,
                   submitted, direct, asked>>

TaskReturns ==
    /\ lpc = "task"
    /\ lpc' = "run"
    /\ UNCHANGED <<pendingTasks, tasks, doing, sleeping, wakeupFd, active, ppc, sent, history>>

TasksDone ==
    /\ lpc = "run"
    /\ tasks = <<>>
    /\ doing' = FALSE
    /\ lpc' = "check"
    /\ UNCHANGED <<pendingTasks, tasks, sleeping, wakeupFd, active, ppc, sent, history>>

LoopStep ==
    \/ EnterLoop \/ TestSleeping \/ Poll \/ HandleRead \/ Dispatch \/ CallbackReturns
    \/ SwapTasks \/ RunTask \/ TaskReturns \/ TasksDone

Self == SelfSubmit \/ SelfDirect \/ SelfSleep

Next ==
    \/ LoopStep
    \/ Self
    \/ \E p \in Producers : Submit(p) \/ Sleep(p) \/ WakeLoop(p)

Spec == Init /\ [][Next]_vars

\* The loop thread keeps running, the callbacks and tasks it calls return, a
\* poll returns at the latest after its 100 ms, and a thread inside addInQueue
\* or sleep() goes on to its wakeup().  Nobody has to call anything.
Fairness ==
    /\ WF_vars(LoopStep)
    /\ \A p \in Producers : WF_vars(WakeLoop(p))

FairSpec == Spec /\ Fairness

(***************************************************************************)
(* Properties                                                              *)
(***************************************************************************)
\* What is queued, in the order in which it will run.
Queue == tasks \o pendingTasks

\* Every task pushed under the lock is in exactly one place (started, in the
\* swapped vector, or still pending) and the order of the pushes is kept
\* across the swap: the double queue of doPendingTasks loses and repeats
\* nothing.
QueueOrder == submitted = served \o Queue

\* The tasks of a call that owes the loop a wakeup().  A task queued before
\* loop() is not announced (addInQueue sees the loop thread outside
\* doPendingTasks) and waits for the first poll to time out.
Announced(s) == \E i \in 1 .. Len(s) : s[i][1] # Setup

Waking == \E p \in Producers : ppc[p] = "waking"

\* When the loop is about to block in epoll_wait with a task or a stop request
\* outstanding, the eventfd is readable or the thread that made the request
\* is still on its way to wakeup(): nothing waits for the poll's timeout.
NoLostWakeup ==
    lpc = "poll" /\ (sleeping \/ Announced(pendingTasks)) => wakeupFd > 0 \/ Waking

\* addInQueue implements the abstract FIFO of tasks.
FIFO == INSTANCE TaskFifo
ImplementsTaskFifo == FIFO!Spec

\* A queued task is started, whatever else is queued behind it, unless the
\* loop has been asked to stop.
TaskRuns ==
    \A t \in Task :
        (\E i \in 1 .. Len(submitted) : submitted[i] = t)
            ~> (lpc = "quit" \/ \E i \in 1 .. Len(served) : served[i] = t)

\* sleep() ends loop(): once it has been called the loop thread leaves.
SleepStops == asked ~> lpc = "quit"
=============================================================================
