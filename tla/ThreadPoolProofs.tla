-------------------------- MODULE ThreadPoolProofs --------------------------
(***************************************************************************)
(* ThreadPool for every number of clients, workers, calls and spurious     *)
(* wakeups and every queue size, whether tasks call AddTask or not.        *)
(***************************************************************************)
EXTENDS ThreadPool, SequenceTheorems, TLAPS

(***************************************************************************)
(* Type correctness and the lock                                           *)
(***************************************************************************)
Flags == [run : BOOLEAN, block : BOOLEAN, running : BOOLEAN]

\* TypeOK is not inductive: Enqueue must append a call that has been counted,
\* and whoever pops the front of a queue must know, from holding the lock since
\* it looked, that there is one.
Held ==
    /\ \A c \in Clients : cpc[c] \in {"waking", "notifying"} <=> lock = c
    /\ \A w \in Workers : wpc[w] = "task" <=> lock = w
    /\ \A w \in Workers : /\ cpc[w] \in {"out", "locking"}
                          /\ cpc[w] = "locking" => wpc[w] = "task"
    /\ lock \in Clients => freethreads # <<>>
    /\ lock \in Workers => taskqueue # <<>>

Counted == \A c \in Callers : cpc[c] # "out" => sent[c] \in 1 .. MaxSubmit

TypeInv == TypeOK /\ Held /\ Counted

\* Setting one atomic of a worker leaves its others and the other workers alone.
LEMMA FlagSet ==
  ASSUME NEW w \in Workers, flags \in [Workers -> Flags],
         NEW flag \in {"run", "block", "running"}, NEW value \in BOOLEAN,
         SetFlag(w, flag, value)
  PROVE  /\ flags' \in [Workers -> Flags]
         /\ flags'[w][flag] = value
         /\ \A f \in {"run", "block", "running"} \ {flag} : flags'[w][f] = flags[w][f]
         /\ \A u \in Workers \ {w} : flags'[u] = flags[u]
<1>1. flags' = [flags EXCEPT ![w] = [flags[w] EXCEPT ![flag] = value]]
  BY DEF SetFlag
<1>2. flags[w] \in Flags
  OBVIOUS
<1>3. [flags[w] EXCEPT ![flag] = value] \in Flags
  BY <1>2 DEF Flags
<1> QED
  BY <1>1, <1>2, <1>3 DEF Flags

\* A worker's step that does not touch the queue.
LEMMA Quietly ==
  ASSUME TypeInv, NEW w \in Workers, NEW from \in WorkerPc, NEW to \in WorkerPc,
         from # "task", to # "task", Goto(w, from, to),
         flags' \in [Workers -> Flags], waiting' \subseteq Workers,
         UNCHANGED <<queueVars, spurious, callVars, ownerVars, history>>
  PROVE  TypeInv'
<1>1. TypeOK'
  BY DEF TypeInv, TypeOK, Goto, queueVars, callVars, ownerVars, history, Flags
<1>2. Held'
  BY DEF TypeInv, TypeOK, Held, Goto, queueVars, callVars
<1>3. Counted'
  BY DEF TypeInv, Counted, callVars
<1> QED
  BY <1>1, <1>2, <1>3 DEF TypeInv

\* A step of the owner.
LEMMA OwnerTypes ==
  ASSUME TypeInv, poolInRun' \in BOOLEAN, opc' \in OwnerPc, next' \in Workers,
         flags' \in [Workers -> Flags], waiting' \subseteq Workers,
         UNCHANGED <<queueVars, wpc, spurious, callVars, history>>
  PROVE  TypeInv'
<1>1. TypeOK'
  BY DEF TypeInv, TypeOK, queueVars, callVars, history, Flags
<1>2. Held'
  BY DEF TypeInv, Held, queueVars, callVars
<1>3. Counted'
  BY DEF TypeInv, Counted, callVars
<1> QED
  BY <1>1, <1>2, <1>3 DEF TypeInv

\* The owner's loop stays within the workers.
LEMMA WithinWorkers ==
  ASSUME next \in Workers, NEW stay, NEW after, NextWorker(stay, after)
  PROVE  next' \in Workers /\ opc' \in {stay, after}
BY PoolAssumption DEF Workers, NextWorker

\* Only a client gets into the critical section of AddTask: a task that calls it
\* holds the lock it waits for.
LEMMA OnlyClients ==
  ASSUME TypeInv, NEW c \in Callers, cpc[c] = "locking", lock = NoThread
  PROVE  c \in Clients /\ <<c, sent[c]>> \in Task
<1>1. c \notin Workers
  BY PoolAssumption DEF TypeInv, Held, Callers
<1> QED
  BY <1>1 DEF TypeInv, Counted, Callers, Task

\* The type invariant under the steps of AddTask.
LEMMA CallTypes ==
  ASSUME TypeInv, NEW c \in Callers, CallAddTask(c) \/ CallStep(c)
  PROVE  TypeInv'
<1>0. /\ Clients \cap Workers = {} /\ NoThread \notin Callers
      /\ Callers = Clients \cup Workers
      /\ MaxSubmit \in Nat /\ MaxQueue \in Nat
  BY PoolAssumption DEF Callers
<1>1. CASE CallAddTask(c)
  <2>1. sent' \in [Callers -> 0 .. MaxSubmit] /\ sent'[c] \in 1 .. MaxSubmit
    BY <1>0, <1>1 DEF CallAddTask, TypeInv, TypeOK
  <2>2. TypeOK'
    BY <1>1, <2>1 DEF CallAddTask, TypeInv, TypeOK, CallPc, queueVars, threadVars,
                      ownerVars, history
  <2>3. Held'
    BY <1>0, <1>1 DEF CallAddTask, MayCall, TypeInv, TypeOK, Held, queueVars, threadVars
  <2>4. Counted'
    BY <1>1, <2>1 DEF CallAddTask, TypeInv, TypeOK, Counted
  <2> QED
    BY <2>2, <2>3, <2>4 DEF TypeInv
<1>2. CASE Enqueue(c)
  <2>1. c \in Clients /\ <<c, sent[c]>> \in Task
    BY <1>2, OnlyClients DEF Enqueue
  <2>2. /\ taskqueue' \in Seq(Task) /\ submitted' \in Seq(Task)
        /\ Len(taskqueue') <= MaxQueue
    <3>1. CASE Len(taskqueue) >= MaxQueue
      BY <1>2, <3>1 DEF Enqueue, TypeInv, TypeOK
    <3>2. CASE ~ Len(taskqueue) >= MaxQueue
      <4>1. /\ taskqueue' = Append(taskqueue, <<c, sent[c]>>)
            /\ submitted' = Append(submitted, <<c, sent[c]>>)
        BY <1>2, <3>2 DEF Enqueue
      <4>2. taskqueue \in Seq(Task) /\ submitted \in Seq(Task) /\ Len(taskqueue) \in Nat
        BY LenProperties DEF TypeInv, TypeOK
      <4> QED
        BY <1>0, <2>1, <3>2, <4>1, <4>2, AppendProperties
    <3> QED
      BY <3>1, <3>2
  <2>3. TypeOK'
    BY <1>2, <2>2 DEF Enqueue, TypeInv, TypeOK, CallPc, threadVars, ownerVars
  <2>4. Held'
    <3>1. CASE Len(taskqueue) < MaxQueue /\ freethreads # <<>>
      <4>1. cpc' = [cpc EXCEPT ![c] = "waking"] /\ lock' = c /\ lock = NoThread
            /\ UNCHANGED <<wpc, freethreads>>
        BY <1>2, <3>1 DEF Enqueue, threadVars
      <4> QED
        BY <1>0, <2>1, <3>1, <4>1 DEF TypeInv, TypeOK, Held
    <3>2. CASE ~ (Len(taskqueue) < MaxQueue /\ freethreads # <<>>)
      <4>1. cpc' = [cpc EXCEPT ![c] = "out"] /\ lock' = NoThread /\ lock = NoThread
            /\ UNCHANGED <<wpc, freethreads>>
        BY <1>2, <3>2 DEF Enqueue, threadVars
      <4> QED
        BY <1>0, <2>1, <4>1 DEF TypeInv, TypeOK, Held
    <3> QED
      BY <3>1, <3>2
  <2>5. Counted'
    BY <1>2 DEF Enqueue, TypeInv, TypeOK, Counted
  <2> QED
    BY <2>3, <2>4, <2>5 DEF TypeInv
<1>3. CASE WakeUpOne(c) \/ Notify(c)
  <2>1. c \in Clients /\ lock = c /\ freethreads # <<>>
    BY <1>0, <1>3 DEF WakeUpOne, Notify, TypeInv, Held
  <2>2. Tail(freethreads) \in Seq(Workers)
    BY <2>1, HeadTailProperties DEF TypeInv, TypeOK
  <2>3. CASE WakeUpOne(c)
    <3>1. TypeOK'
      BY <2>2, <2>3 DEF WakeUpOne, TypeInv, TypeOK, CallPc, threadVars, ownerVars, history
    <3>2. Held'
      BY <1>0, <2>1, <2>3 DEF WakeUpOne, TypeInv, TypeOK, Held, threadVars
    <3>3. Counted'
      BY <2>3 DEF WakeUpOne, TypeInv, TypeOK, Counted
    <3> QED
      BY <3>1, <3>2, <3>3 DEF TypeInv
  <2>4. CASE Notify(c)
    <3>1. TypeOK'
      BY <2>2, <2>4 DEF Notify, TypeInv, TypeOK, CallPc, ownerVars, history
    <3>2. Held'
      BY <1>0, <2>1, <2>4 DEF Notify, TypeInv, TypeOK, Held
    <3>3. Counted'
      BY <2>4 DEF Notify, TypeInv, TypeOK, Counted
    <3> QED
      BY <3>1, <3>2, <3>3 DEF TypeInv
  <2> QED
    BY <1>3, <2>3, <2>4
<1> QED
  BY <1>1, <1>2, <1>3 DEF CallStep

\* The type invariant under the steps of a worker.
LEMMA WorkerTypes ==
  ASSUME TypeInv, NEW w \in Workers, WorkerStep(w)
  PROVE  TypeInv'
<1>0. /\ Clients \cap Workers = {} /\ NoThread \notin Callers
      /\ Callers = Clients \cup Workers
  BY PoolAssumption DEF Callers
<1>1. flags \in [Workers -> Flags] /\ waiting \subseteq Workers
  BY DEF TypeInv, TypeOK, Flags
<1>2. CASE Begin(w)
  BY <1>1, <1>2, Quietly, FlagSet DEF Begin, WorkerPc
<1>3. CASE SetRun(w)
  BY <1>1, <1>3, Quietly, FlagSet DEF SetRun, WorkerPc
<1>4. CASE TestRun(w)
  BY <1>1, <1>4, Quietly DEF TestRun, WorkerPc
<1>5. CASE TestPool(w)
  BY <1>1, <1>5, Quietly DEF TestPool, WorkerPc
<1>6. CASE BecomeFree(w)
  <2>0. freethreads \in Seq(Workers) /\ freethreads' = Append(freethreads, w)
    BY <1>6 DEF BecomeFree, TypeInv, TypeOK
  <2>1. freethreads' \in Seq(Workers) /\ freethreads' # <<>>
    BY <2>0, AppendProperties
  <2>2. TypeOK'
    BY <1>6, <2>1 DEF BecomeFree, Goto, TypeInv, TypeOK, WorkerPc, callVars, ownerVars, history
  <2>3. Held'
    BY <1>0, <1>6, <2>1 DEF BecomeFree, Goto, TypeInv, TypeOK, Held, callVars
  <2>4. Counted'
    BY <1>6 DEF BecomeFree, TypeInv, Counted, callVars
  <2> QED
    BY <2>2, <2>3, <2>4 DEF TypeInv
<1>7. CASE StartTask(w)
  <2>1. served' \in Seq(Task)
    BY <1>7, HeadTailProperties, AppendProperties DEF StartTask, TypeInv, TypeOK
  <2>2. TypeOK'
    BY <1>0, <1>7, <2>1 DEF StartTask, Goto, TypeInv, TypeOK, WorkerPc, callVars, ownerVars
  <2>3. Held'
    BY <1>0, <1>7 DEF StartTask, Goto, TypeInv, TypeOK, Held, callVars
  <2>4. Counted'
    BY <1>7 DEF StartTask, TypeInv, Counted, callVars
  <2> QED
    BY <2>2, <2>3, <2>4 DEF TypeInv
<1>8. CASE TaskReturns(w)
  <2>1. lock = w /\ taskqueue # <<>> /\ taskqueue \in Seq(Task) /\ Len(taskqueue) <= MaxQueue
    BY <1>8 DEF TaskReturns, Goto, TypeInv, TypeOK, Held
  <2>2. Tail(taskqueue) \in Seq(Task) /\ Len(Tail(taskqueue)) <= MaxQueue
    BY <2>1, HeadTailProperties, LenProperties, PoolAssumption
  <2>3. TypeOK'
    BY <1>8, <2>2 DEF TaskReturns, Goto, TypeInv, TypeOK, WorkerPc, callVars, ownerVars, history
  <2>4. Held'
    BY <1>0, <1>8, <2>1 DEF TaskReturns, Goto, TypeInv, TypeOK, Held, callVars
  <2>5. Counted'
    BY <1>8 DEF TaskReturns, TypeInv, Counted, callVars
  <2> QED
    BY <2>3, <2>4, <2>5 DEF TypeInv
<1>9. CASE Block(w)
  BY <1>1, <1>9, Quietly, FlagSet DEF Block, WorkerPc
<1>10. CASE CondWait(w)
  BY <1>1, <1>10, Quietly DEF CondWait, WorkerPc
<1>11. CASE Unblock(w)
  BY <1>1, <1>11, Quietly, FlagSet DEF Unblock, WorkerPc
<1>12. CASE StopRunning(w)
  BY <1>1, <1>12, Quietly, FlagSet DEF StopRunning, WorkerPc
<1>13. CASE Leave(w)
  BY <1>1, <1>13, Quietly, FlagSet DEF Leave, WorkerPc
<1> QED
  BY <1>2, <1>3, <1>4, <1>5, <1>6, <1>7, <1>8, <1>9, <1>10, <1>11, <1>12, <1>13
     DEF WorkerStep

\* The type invariant under the steps of ~ThreadPool.
LEMMA OwnerStepTypes ==
  ASSUME TypeInv, Destroy \/ StopStep \/ JoinStep
  PROVE  TypeInv'
<1>0. /\ flags \in [Workers -> Flags] /\ waiting \subseteq Workers
      /\ next \in Workers /\ poolInRun \in BOOLEAN
  BY DEF TypeInv, TypeOK, Flags
<1>1. CASE Destroy
  BY <1>0, <1>1, OwnerTypes DEF Destroy, OwnerGoto, OwnerPc, threadVars
<1>2. CASE PassWorker
  BY <1>0, <1>2, OwnerTypes, WithinWorkers DEF PassWorker, OwnerPc, threadVars
<1>3. CASE FindBlocked
  BY <1>0, <1>3, OwnerTypes DEF FindBlocked, OwnerGoto, OwnerPc, threadVars
<1>4. CASE ReStart
  BY <1>0, <1>4, OwnerTypes DEF ReStart, OwnerGoto, OwnerPc
<1>5. CASE ClearRun
  BY <1>0, <1>5, OwnerTypes, FlagSet DEF ClearRun, OwnerGoto, OwnerPc
<1>6. CASE PollRunning
  BY <1>0, <1>6, OwnerTypes DEF PollRunning, OwnerGoto, OwnerPc, threadVars
<1>7. CASE TestRunning
  BY <1>0, <1>7, OwnerTypes DEF TestRunning, OwnerGoto, OwnerPc, threadVars
<1>8. CASE Join
  BY <1>0, <1>8, OwnerTypes, WithinWorkers DEF Join, OwnerPc, threadVars
<1> QED
  BY <1>1, <1>2, <1>3, <1>4, <1>5, <1>6, <1>7, <1>8 DEF StopStep, JoinStep

\* The strengthened invariant holds in every reachable state.
LEMMA TypeInvariant == Spec => []TypeInv
<1>1. Init => TypeInv
  <2> SUFFICES ASSUME Init PROVE TypeInv
    OBVIOUS
  <2>0. /\ Clients \cap Workers = {} /\ NoThread \notin Callers
        /\ Callers = Clients \cup Workers
        /\ 1 \in Workers /\ 0 \in 0 .. MaxSubmit /\ 0 \in 0 .. MaxSpurious /\ 0 <= MaxQueue
    BY PoolAssumption DEF Callers, Workers
  <2>1. taskqueue \in Seq(Task) /\ Len(taskqueue) <= MaxQueue /\ freethreads \in Seq(Workers)
    BY <2>0 DEF Init
  <2>2. flags \in [Workers -> [run : BOOLEAN, block : BOOLEAN, running : BOOLEAN]]
    BY DEF Init
  <2>3. TypeOK
    BY <2>0, <2>1, <2>2 DEF Init, TypeOK, WorkerPc, CallPc, OwnerPc
  <2> QED
    BY <2>0, <2>3 DEF Init, TypeInv, Held, Counted
<1>2. TypeInv /\ [Next]_vars => TypeInv'
  <2> SUFFICES ASSUME TypeInv, [Next]_vars PROVE TypeInv'
    OBVIOUS
  <2>1. ASSUME NEW w \in Workers, WakeSpuriously(w)
        PROVE  TypeInv'
    <3>1. spurious' \in 0 .. MaxSpurious
      BY <2>1, PoolAssumption DEF WakeSpuriously, TypeInv, TypeOK
    <3>2. TypeOK'
      BY <2>1, <3>1 DEF WakeSpuriously, TypeInv, TypeOK, queueVars, callVars, ownerVars, history
    <3>3. Held' /\ Counted'
      BY <2>1 DEF WakeSpuriously, TypeInv, Held, Counted, queueVars, callVars
    <3> QED
      BY <3>2, <3>3 DEF TypeInv
  <2>2. CASE UNCHANGED vars
    BY <2>2 DEF vars, queueVars, threadVars, callVars, ownerVars, history,
                TypeInv, TypeOK, Held, Counted
  <2> QED
    BY <2>1, <2>2, CallTypes, WorkerTypes, OwnerStepTypes DEF Next
<1> QED
  BY <1>1, <1>2, PTL DEF Spec

\* The variables keep their types and the queue never holds more than
\* _initqueuesize tasks, the one being run included.
THEOREM PoolTypeCorrect == Spec => []TypeOK
BY TypeInvariant, PTL DEF TypeInv

(***************************************************************************)
(* The queue                                                               *)
(***************************************************************************)
\* The task at the front has been started while a worker holds the lock.
Unserved == IF lock \in Workers THEN Tail(taskqueue) ELSE taskqueue

TasksKept == submitted = served \o Unserved

\* What AddTask does when it accepts a task.
LEMMA Accepts ==
  ASSUME TypeInv, NEW c \in Callers, Enqueue(c)
  PROVE  \/ UNCHANGED <<submitted, served, Unserved>>
         \/ \E task \in Task : /\ submitted' = Append(submitted, task)
                               /\ submitted' = submitted \o <<task>>
                               /\ Unserved' = Unserved \o <<task>>
                               /\ served' = served
<1>1. c \in Clients /\ <<c, sent[c]>> \in Task /\ NoThread \notin Workers
  BY OnlyClients, PoolAssumption DEF Enqueue, Callers
<1>2. lock = NoThread /\ lock' \in {NoThread, c} /\ c \notin Workers
  BY <1>1, PoolAssumption DEF Enqueue
<1>3. Unserved = taskqueue /\ Unserved' = taskqueue'
  BY <1>1, <1>2 DEF Unserved
<1>4. CASE Len(taskqueue) >= MaxQueue
  BY <1>3, <1>4 DEF Enqueue
<1>5. CASE ~ Len(taskqueue) >= MaxQueue
  <2> DEFINE task == <<c, sent[c]>>
  <2>1. /\ taskqueue' = Append(taskqueue, task) /\ submitted' = Append(submitted, task)
        /\ served' = served
    BY <1>5 DEF Enqueue
  <2>2. taskqueue \in Seq(Task) /\ submitted \in Seq(Task) /\ task \in Task
    BY <1>1 DEF TypeInv, TypeOK
  <2> HIDE DEF task
  <2>3. taskqueue' = taskqueue \o <<task>> /\ submitted' = submitted \o <<task>>
    BY <2>1, <2>2, AppendIsConcat
  <2> QED
    BY <1>3, <2>1, <2>2, <2>3
<1> QED
  BY <1>4, <1>5

\* What a worker does when it starts a task: the oldest one not served is served.
LEMMA Starts ==
  ASSUME TypeInv, NEW w \in Workers, StartTask(w)
  PROVE  \E task \in Task : /\ served' = Append(served, task)
                            /\ Unserved = <<task>> \o Unserved'
                            /\ Unserved \in Seq(Task) /\ Unserved' \in Seq(Task)
                            /\ submitted' = submitted
<1>1. /\ taskqueue \in Seq(Task) /\ taskqueue # <<>>
      /\ served' = Append(served, Head(taskqueue))
      /\ UNCHANGED <<taskqueue, submitted>>
      /\ lock = NoThread /\ lock' = w
  BY DEF TypeInv, TypeOK, StartTask
<1>2. Unserved = taskqueue /\ Unserved' = Tail(taskqueue)
  BY <1>1, PoolAssumption DEF Unserved, Callers
<1>3. Head(taskqueue) \in Task /\ Tail(taskqueue) \in Seq(Task)
  BY <1>1, HeadTailProperties
<1>4. Len(taskqueue) \in Nat \ {0}
  BY <1>1, EmptySeq
<1>5. SubSeq(taskqueue, 1, Len(taskqueue))
        = <<taskqueue[1]>> \o SubSeq(taskqueue, 2, Len(taskqueue))
  BY <1>1, <1>4, SubSeqRecursiveFirst
<1>6. taskqueue = <<Head(taskqueue)>> \o Tail(taskqueue)
  BY <1>1, <1>5, SubSeqFull, TailIsSubSeq
<1> QED
  BY <1>1, <1>2, <1>3, <1>6

\* Every other step of a caller, a worker or the owner shows nothing.
LEMMA ShowsNothing ==
  ASSUME TypeInv, [Next]_vars,
         \A c \in Callers : ~ Enqueue(c), \A w \in Workers : ~ StartTask(w)
  PROVE  UNCHANGED <<submitted, served, Unserved>>
<1>0. Clients \cap Workers = {} /\ NoThread \notin Workers
  BY PoolAssumption DEF Callers
<1>1. ASSUME UNCHANGED <<lock, taskqueue>>
      PROVE  UNCHANGED Unserved
  BY <1>1 DEF Unserved
<1>2. ASSUME NEW c \in Callers, CallAddTask(c)
      PROVE  UNCHANGED <<submitted, served, Unserved>>
  BY <1>1, <1>2 DEF CallAddTask, queueVars, history
<1>3. ASSUME NEW c \in Callers, WakeUpOne(c) \/ Notify(c)
      PROVE  UNCHANGED <<submitted, served, Unserved>>
  <2>1. c \in Clients /\ lock = c
    BY <1>3 DEF WakeUpOne, Notify, TypeInv, Held, Callers
  <2>2. lock' \in {c, NoThread} /\ UNCHANGED <<taskqueue, submitted, served>>
    BY <1>3, <2>1 DEF WakeUpOne, Notify, history
  <2> QED
    BY <1>0, <2>1, <2>2 DEF Unserved
<1>4. ASSUME NEW w \in Workers, TaskReturns(w)
      PROVE  UNCHANGED <<submitted, served, Unserved>>
  <2>1. lock = w /\ lock' = NoThread /\ taskqueue' = Tail(taskqueue)
    BY <1>4 DEF TaskReturns, Goto, TypeInv, Held
  <2> QED
    BY <1>0, <1>4, <2>1 DEF TaskReturns, Unserved, history
<1>5. ASSUME NEW w \in Workers, WorkerStep(w) \/ WakeSpuriously(w)
      PROVE  UNCHANGED <<submitted, served, Unserved>>
  BY <1>1, <1>4, <1>5 DEF WorkerStep, WakeSpuriously, Begin, SetRun, TestRun, TestPool,
     BecomeFree, Block, CondWait, Unblock, StopRunning, Leave, queueVars, history
<1>6. CASE Destroy \/ StopStep \/ JoinStep
  BY <1>1, <1>6 DEF Destroy, StopStep, JoinStep, PassWorker, FindBlocked, ReStart, ClearRun,
     PollRunning, TestRunning, Join, queueVars, history
<1>7. CASE UNCHANGED vars
  BY <1>1, <1>7 DEF vars, queueVars, history
<1> QED
  BY <1>2, <1>3, <1>5, <1>6, <1>7 DEF Next, CallStep

\* The invariant of the queue: what was accepted is what was started, then what
\* waits behind it.
LEMMA KeptInvariant == Spec => []TasksKept
<1>1. Init => TasksKept
  BY PoolAssumption DEF Init, TasksKept, Unserved, Callers
<1>2. TypeInv /\ TasksKept /\ [Next]_vars => TasksKept'
  <2> SUFFICES ASSUME TypeInv, TasksKept, [Next]_vars PROVE TasksKept'
    OBVIOUS
  <2>0. served \in Seq(Task) /\ submitted = served \o Unserved
    BY DEF TypeInv, TypeOK, TasksKept
  <2>1. ASSUME NEW c \in Callers, Enqueue(c)
        PROVE  TasksKept'
    <3>1. CASE UNCHANGED <<submitted, served, Unserved>>
      BY <2>0, <3>1 DEF TasksKept
    <3>2. CASE ~ UNCHANGED <<submitted, served, Unserved>>
      <4>1. PICK task \in Task : /\ submitted' = submitted \o <<task>>
                                 /\ Unserved' = Unserved \o <<task>>
                                 /\ served' = served
        BY <2>1, <3>2, Accepts
      <4>2. Unserved = taskqueue /\ taskqueue \in Seq(Task)
        BY <2>1, PoolAssumption DEF Enqueue, Unserved, Callers, TypeInv, TypeOK
      <4>3. (served \o Unserved) \o <<task>> = served \o (Unserved \o <<task>>)
        BY <2>0, <4>1, <4>2, ConcatAssociative
      <4> QED
        BY <2>0, <4>1, <4>3 DEF TasksKept
    <3> QED
      BY <3>1, <3>2
  <2>2. ASSUME NEW w \in Workers, StartTask(w)
        PROVE  TasksKept'
    <3>1. PICK task \in Task : /\ served' = Append(served, task)
                               /\ Unserved = <<task>> \o Unserved'
                               /\ Unserved' \in Seq(Task)
                               /\ submitted' = submitted
      BY <2>2, Starts
    <3>2. served' = served \o <<task>>
      BY <2>0, <3>1, AppendIsConcat
    <3>3. (served \o <<task>>) \o Unserved' = served \o (<<task>> \o Unserved')
      BY <2>0, <3>1, ConcatAssociative
    <3> QED
      BY <2>0, <3>1, <3>2, <3>3 DEF TasksKept
  <2>3. CASE /\ \A c \in Callers : ~ Enqueue(c)
             /\ \A w \in Workers : ~ StartTask(w)
    BY <2>0, <2>3, ShowsNothing DEF TasksKept
  <2> QED
    BY <2>1, <2>2, <2>3
<1> QED
  BY <1>1, <1>2, TypeInvariant, PTL DEF Spec

\* The pool behaves like the abstract FIFO: accepting a task submits it,
\* starting one serves the oldest, whichever worker takes it and although the
\* task stays in the queue until it has returned.
THEOREM PoolRefinement == Spec => ImplementsTaskFifo
<1>1. Init => FIFO!Init
  BY DEF Init, FIFO!Init
<1>2. TypeInv /\ TasksKept /\ [Next]_vars => [FIFO!Next]_(FIFO!vars)
  <2> SUFFICES ASSUME TypeInv, TasksKept, [Next]_vars PROVE [FIFO!Next]_(FIFO!vars)
    OBVIOUS
  <2>1. ASSUME NEW c \in Callers, Enqueue(c)
        PROVE  [FIFO!Next]_(FIFO!vars)
    BY <2>1, Accepts DEF FIFO!Next, FIFO!Submit, FIFO!vars
  <2>2. ASSUME NEW w \in Workers, StartTask(w)
        PROVE  FIFO!Next
    <3>1. PICK task \in Task : /\ served' = Append(served, task)
                               /\ Unserved = <<task>> \o Unserved'
                               /\ Unserved \in Seq(Task) /\ Unserved' \in Seq(Task)
                               /\ submitted' = submitted
      BY <2>2, Starts
    <3>2. served \in Seq(Task) /\ Len(served) \in Nat
      BY LenProperties DEF TypeInv, TypeOK
    <3>3. /\ Len(Unserved) = 1 + Len(Unserved') /\ Len(Unserved') \in Nat
          /\ Unserved[1] = task
      BY <3>1, ConcatProperties, LenProperties
    <3>4. /\ Len(served \o Unserved) = Len(served) + Len(Unserved)
          /\ \A i \in 1 .. Len(served) + Len(Unserved) :
               (served \o Unserved)[i] = IF i <= Len(served) THEN served[i]
                                         ELSE Unserved[i - Len(served)]
      BY <3>1, <3>2, ConcatProperties
    <3>5. Len(served) + 1 \in 1 .. Len(served) + Len(Unserved)
      BY <3>2, <3>3
    <3>6. Len(served) < Len(submitted) /\ submitted[Len(served) + 1] = task
      BY <3>2, <3>3, <3>4, <3>5 DEF TasksKept
    <3> QED
      BY <3>1, <3>6 DEF FIFO!Next, FIFO!Serve
  <2>3. CASE /\ \A c \in Callers : ~ Enqueue(c)
             /\ \A w \in Workers : ~ StartTask(w)
    BY <2>3, ShowsNothing DEF FIFO!vars
  <2> QED
    BY <2>1, <2>2, <2>3
<1> QED
  BY <1>1, <1>2, TypeInvariant, KeptInvariant, PTL DEF Spec, ImplementsTaskFifo, FIFO!Spec

(***************************************************************************)
(* The destructor                                                          *)
(***************************************************************************)
\* A worker in a step of the pool, or blocked, is one whose _run is set, until
\* ~Thread clears it; the test of _pool_is_in_run fails once stop() has begun.
RunWhileBusy ==
    opc \in {"using", "stop", "restart"} =>
        \A w \in Workers :
            wpc[w] \in {"step", "locking", "task", "blocking", "waiting", "asleep"} =>
                flags[w].run

\* The workers stop() has passed over.
Passed(w) ==
    \/ opc \notin {"using", "stop", "restart"}
    \/ opc \in {"stop", "restart"} /\ w < next

Stopped ==
    /\ poolInRun <=> opc = "using"
    /\ opc = "using" => next = 1
    /\ \A w \in Workers : Passed(w) => wpc[w] \notin {"locking", "task", "blocking"}

StopInv == RunWhileBusy /\ Stopped

\* A step of a worker under the invariant of the destructor.
LEMMA StopWorker ==
  ASSUME TypeInv, StopInv, NEW w \in Workers, WorkerStep(w)
  PROVE  StopInv'
<1>0. /\ flags \in [Workers -> Flags] /\ wpc \in [Workers -> WorkerPc]
      /\ UNCHANGED <<poolInRun, opc, next>>
      /\ opc # "terminated" /\ wpc[w] # "left"
  BY DEF TypeInv, TypeOK, Flags, WorkerStep, Begin, SetRun, TestRun, TestPool, BecomeFree,
     StartTask, TaskReturns, Block, CondWait, Unblock, StopRunning, Leave, Goto, Alive,
     ownerVars
<1>1. /\ wpc' = [wpc EXCEPT ![w] = wpc'[w]]
      /\ \A u \in Workers \ {w} : flags'[u] = flags[u]
  <2>1. \E to \in WorkerPc : wpc' = [wpc EXCEPT ![w] = to]
    BY DEF WorkerStep, Begin, SetRun, TestRun, TestPool, BecomeFree, StartTask, TaskReturns,
       Block, CondWait, Unblock, StopRunning, Leave, Goto, WorkerPc
  <2>2. \/ flags' = flags
        \/ \E flag \in {"run", "block", "running"}, value \in BOOLEAN : SetFlag(w, flag, value)
    BY DEF WorkerStep, Begin, SetRun, TestRun, TestPool, BecomeFree, StartTask, TaskReturns,
       Block, CondWait, Unblock, StopRunning, Leave
  <2> QED
    BY <1>0, <2>1, <2>2, FlagSet
<1>2. RunWhileBusy'
  <2>1. /\ opc \in {"using", "stop", "restart"}
        /\ wpc'[w] \in {"step", "locking", "task", "blocking", "waiting", "asleep"}
        => flags'[w].run
    <3> SUFFICES ASSUME opc \in {"using", "stop", "restart"},
                        wpc'[w] \in {"step", "locking", "task", "blocking", "waiting", "asleep"}
                 PROVE  flags'[w].run
      OBVIOUS
    <3>1. CASE TestRun(w)
      BY <1>0, <3>1 DEF TestRun, Goto
    <3>2. CASE TestPool(w) \/ BecomeFree(w) \/ StartTask(w) \/ CondWait(w)
      BY <1>0, <3>2 DEF StopInv, RunWhileBusy, TestPool, BecomeFree, StartTask, CondWait, Goto
    <3>3. CASE Block(w)
      <4>1. flags'[w].run = flags[w].run /\ flags[w].run
        BY <1>0, <3>3, FlagSet DEF StopInv, RunWhileBusy, Block, Goto
      <4> QED
        BY <4>1
    <3>4. CASE Begin(w) \/ SetRun(w) \/ TaskReturns(w) \/ Unblock(w) \/ StopRunning(w) \/ Leave(w)
      BY <1>0, <3>4 DEF Begin, SetRun, TaskReturns, Unblock, StopRunning, Leave, Goto
    <3> QED
      BY <3>1, <3>2, <3>3, <3>4 DEF WorkerStep
  <2> QED
    BY <1>0, <1>1, <2>1 DEF StopInv, RunWhileBusy
<1>3. Stopped'
  <2>1. Passed(w) => wpc'[w] \notin {"locking", "task", "blocking"}
    <3> SUFFICES ASSUME Passed(w) PROVE wpc'[w] \notin {"locking", "task", "blocking"}
      OBVIOUS
    <3>1. ~ poolInRun /\ wpc[w] \notin {"locking", "task", "blocking"}
      BY DEF StopInv, Stopped, Passed
    <3> QED
      BY <1>0, <3>1 DEF WorkerStep, Begin, SetRun, TestRun, TestPool, BecomeFree, StartTask,
         TaskReturns, Block, CondWait, Unblock, StopRunning, Leave, Goto
  <2> QED
    BY <1>0, <1>1, <2>1 DEF StopInv, Stopped, Passed
<1> QED
  BY <1>2, <1>3 DEF StopInv

\* A step of the owner under the invariant of the destructor: a worker is passed
\* over only when its _run is clear, so that it is in no step of the pool.
LEMMA StopOwner ==
  ASSUME TypeInv, StopInv, Destroy \/ StopStep \/ JoinStep
  PROVE  StopInv'
<1>0. /\ flags \in [Workers -> Flags] /\ wpc' = wpc
      /\ next \in Workers /\ Workers \subseteq Int
  <2>1. flags \in [Workers -> Flags] /\ next \in Workers
    BY DEF TypeInv, TypeOK, Flags
  <2>2. Workers \subseteq Int
    BY PoolAssumption DEF Workers
  <2>3. wpc' = wpc
    BY DEF Destroy, StopStep, JoinStep, PassWorker, FindBlocked, ReStart, ClearRun,
       PollRunning, TestRunning, Join, threadVars
  <2> QED
    BY <2>1, <2>2, <2>3
<1>1. CASE Destroy
  <2>1. /\ opc = "using" /\ opc' = "stop" /\ ~ poolInRun' /\ next' = next
        /\ flags' = flags
    BY <1>1 DEF Destroy, OwnerGoto, threadVars
  <2>2. next = 1
    BY <2>1 DEF StopInv, Stopped
  <2> QED
    BY <1>0, <2>1, <2>2 DEF StopInv, RunWhileBusy, Stopped, Passed, Workers
<1>2. CASE PassWorker
  <2>1. /\ opc = "stop" /\ ~ flags[next].run /\ flags' = flags /\ poolInRun' = poolInRun
        /\ \/ opc' = "stop" /\ next' = next + 1
           \/ opc' = "clear" /\ next' = 1 /\ next = threadnum
    BY <1>0, <1>2, PoolAssumption DEF PassWorker, NextWorker, threadVars, Workers
  <2>2. wpc[next] \notin {"locking", "task", "blocking"}
    BY <1>0, <2>1 DEF StopInv, RunWhileBusy
  <2>3. \A w \in Workers : w < next => wpc[w] \notin {"locking", "task", "blocking"}
    BY <2>1 DEF StopInv, Stopped, Passed
  <2>4. \A w \in Workers : w < next + 1 => w < next \/ w = next
    BY <1>0
  <2>5. next = threadnum => \A w \in Workers : w < next \/ w = next
    BY PoolAssumption DEF Workers
  <2>6. \A w \in Workers : Passed(w)' => w < next \/ w = next
    BY <2>1, <2>4, <2>5 DEF Passed
  <2>7. RunWhileBusy'
    BY <1>0, <2>1 DEF StopInv, RunWhileBusy
  <2>8. Stopped'
    BY <1>0, <2>1, <2>2, <2>3, <2>6 DEF StopInv, Stopped
  <2> QED
    BY <2>7, <2>8 DEF StopInv
<1>3. CASE FindBlocked \/ ReStart
  BY <1>0, <1>3 DEF FindBlocked, ReStart, OwnerGoto, threadVars, StopInv, RunWhileBusy,
     Stopped, Passed
<1>4. CASE ClearRun \/ PollRunning \/ TestRunning
  <2>1. /\ opc \in {"clear", "poll", "test"} /\ opc' \in {"poll", "test", "terminated", "join"}
        /\ UNCHANGED <<poolInRun, next>>
    BY <1>4 DEF ClearRun, PollRunning, TestRunning, OwnerGoto
  <2> QED
    BY <1>0, <2>1 DEF StopInv, RunWhileBusy, Stopped, Passed
<1>5. CASE Join
  <2>1. opc = "join" /\ opc' \in {"clear", "destroyed"} /\ flags' = flags /\ poolInRun' = poolInRun
    BY <1>0, <1>5 DEF Join, NextWorker, threadVars
  <2> QED
    BY <1>0, <2>1 DEF StopInv, RunWhileBusy, Stopped, Passed
<1> QED
  BY <1>1, <1>2, <1>3, <1>4, <1>5 DEF StopStep, JoinStep

\* The strengthened invariant of the destructor holds in every reachable state.
LEMMA StopInvariant == Spec => []StopInv
<1>1. Init => StopInv
  BY DEF Init, StopInv, RunWhileBusy, Stopped, Passed
<1>2. TypeInv /\ StopInv /\ [Next]_vars => StopInv'
  <2> SUFFICES ASSUME TypeInv, StopInv, [Next]_vars PROVE StopInv'
    OBVIOUS
  <2>1. ASSUME UNCHANGED <<flags, wpc, poolInRun, opc, next>>
        PROVE  StopInv'
    BY <2>1 DEF StopInv, RunWhileBusy, Stopped, Passed
  <2>2. ASSUME NEW c \in Callers, CallAddTask(c) \/ CallStep(c)
        PROVE  StopInv'
    BY <2>1, <2>2 DEF CallStep, CallAddTask, Enqueue, WakeUpOne, Notify, threadVars, ownerVars
  <2>3. ASSUME NEW w \in Workers, WakeSpuriously(w)
        PROVE  StopInv'
    BY <2>1, <2>3 DEF WakeSpuriously, ownerVars
  <2>4. CASE UNCHANGED vars
    BY <2>1, <2>4 DEF vars, threadVars, ownerVars
  <2> QED
    BY <2>2, <2>3, <2>4, StopWorker, StopOwner DEF Next
<1> QED
  BY <1>1, <1>2, TypeInvariant, PTL DEF Spec

\* Once stop() has returned, no worker is in the pool's critical section or on
\* its way into it, although stop() passes over workers that have not started.
THEOREM StopIsQuiet == Spec => []QuietAfterStop
<1>1. StopInv => QuietAfterStop
  BY DEF StopInv, Stopped, Passed, QuietAfterStop
<1> QED
  BY <1>1, StopInvariant, PTL
=============================================================================
