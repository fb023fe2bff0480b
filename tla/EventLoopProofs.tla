-------------------------- MODULE EventLoopProofs ---------------------------
(***************************************************************************)
(* EventLoop for every number of threads, tasks and values of the eventfd. *)
(***************************************************************************)
EXTENDS EventLoop, SequenceTheorems, TLAPS

\* Every action leaves a state of the declared shape: in particular no write
\* of wakeup() takes the counter out of the range an eventfd has.
THEOREM TypeCorrect == Spec => []TypeOK
<1>1. Init => TypeOK
  <2> SUFFICES ASSUME Init PROVE TypeOK
    OBVIOUS
  <2> USE BoundAssumption, CounterAssumption DEF Init
  <2>1. pendingTasks \in Seq(Task) /\ tasks \in Seq(Task)
    OBVIOUS
  <2>2. submitted \in Seq(Task) /\ served \in Seq(Task)
    OBVIOUS
  <2>3. wakeupFd \in 0 .. CounterMax /\ direct \in 0 .. MaxDirect
    OBVIOUS
  <2>4. sent \in [Threads -> 0 .. MaxSubmit]
    OBVIOUS
  <2> QED
    BY <2>1, <2>2, <2>3, <2>4 DEF TypeOK, Pc
<1>2. TypeOK /\ [Next]_vars => TypeOK'
  <2> SUFFICES ASSUME TypeOK, [Next]_vars PROVE TypeOK'
    OBVIOUS
  <2> USE BoundAssumption, CounterAssumption DEF TypeOK, Pc
  <2>1. ASSUME NEW t \in Threads, Push(t)
        PROVE  /\ pendingTasks' \in Seq(Task)
               /\ submitted' \in Seq(Task)
               /\ sent' \in [Threads -> 0 .. MaxSubmit]
    <3>1. sent[t] + 1 \in 1 .. MaxSubmit
      BY <2>1 DEF Push
    <3>2. <<t, sent[t] + 1>> \in Task
      BY <3>1 DEF Task
    <3> QED
      BY <2>1, <3>1, <3>2 DEF Push
  <2>2. ASSUME Wakeup PROVE wakeupFd' \in 0 .. CounterMax
    BY <2>2 DEF Wakeup
  <2>3. ASSUME NEW p \in Producers, Submit(p) PROVE TypeOK'
    BY <2>3, <2>1 DEF Submit, Threads
  <2>4. ASSUME NEW p \in Producers, Sleep(p) PROVE TypeOK'
    BY <2>4 DEF Sleep, AskSleep
  <2>5. ASSUME NEW p \in Producers, WakeLoop(p) PROVE TypeOK'
    BY <2>5, <2>2 DEF WakeLoop, history
  <2>6. CASE SelfSubmit
    <3>1. (IF lpc = "init" THEN Setup ELSE Loop) \in Threads
      BY DEF Threads
    <3>2. wakeupFd' \in 0 .. CounterMax
      BY <2>6, <2>2 DEF SelfSubmit
    <3> QED
      BY <2>6, <3>1, <3>2, <2>1 DEF SelfSubmit
  <2>7. CASE SelfDirect
    BY <2>7 DEF SelfDirect, loopVars
  <2>8. CASE SelfSleep
    BY <2>8 DEF SelfSleep, AskSleep
  <2>9. CASE LoopStep
    <3>1. CASE EnterLoop BY <3>1 DEF EnterLoop, history
    <3>2. CASE TestSleeping BY <3>2 DEF TestSleeping, history
    <3>3. CASE Poll BY <3>3 DEF Poll, history
    <3>4. CASE HandleRead BY <3>4 DEF HandleRead, history
    <3>5. CASE Dispatch BY <3>5 DEF Dispatch, history
    <3>6. CASE CallbackReturns BY <3>6 DEF CallbackReturns, history
    <3>7. CASE SwapTasks BY <3>7 DEF SwapTasks, history
    <3>8. CASE RunTask BY <3>8 DEF RunTask
    <3>9. CASE TaskReturns BY <3>9 DEF TaskReturns, history
    <3>10. CASE TasksDone BY <3>10 DEF TasksDone, history
    <3> QED
      BY <2>9, <3>1, <3>2, <3>3, <3>4, <3>5, <3>6, <3>7, <3>8, <3>9, <3>10 DEF LoopStep
  <2>10. CASE UNCHANGED vars
    BY <2>10 DEF vars, loopVars, history
  <2> QED
    BY <2>3, <2>4, <2>5, <2>6, <2>7, <2>8, <2>9, <2>10 DEF Next, Self
<1> QED
  BY <1>1, <1>2, PTL DEF Spec

(***************************************************************************)
(* The queue                                                               *)
(***************************************************************************)
\* A non-empty sequence is its head in front of its tail.
LEMMA HeadThenTail ==
  ASSUME NEW S, NEW s \in Seq(S), s # <<>>
  PROVE  s = <<Head(s)>> \o Tail(s)
<1>1. Len(s) \in Nat \ {0}
  BY EmptySeq
<1>2. SubSeq(s, 1, Len(s)) = <<s[1]>> \o SubSeq(s, 2, Len(s))
  BY <1>1, SubSeqRecursiveFirst
<1> QED
  BY <1>2, SubSeqFull, TailIsSubSeq

\* What one push does to the queue behind a batch that is being run.
LEMMA PushAppends ==
  ASSUME TypeOK, NEW t \in Threads, Push(t)
  PROVE  \E task \in Task :
            /\ submitted' = submitted \o <<task>>
            /\ tasks \o pendingTasks' = Queue \o <<task>>
<1> DEFINE task == <<t, sent[t] + 1>>
<1>1. task \in Task
  BY BoundAssumption DEF Push, TypeOK, Task
<1>2. /\ pendingTasks \in Seq(Task) /\ tasks \in Seq(Task)
      /\ submitted \in Seq(Task) /\ <<task>> \in Seq(Task)
  BY <1>1 DEF TypeOK
<1>3. pendingTasks' = pendingTasks \o <<task>> /\ submitted' = submitted \o <<task>>
  BY <1>1, <1>2, AppendIsConcat DEF Push
<1>4. (tasks \o pendingTasks) \o <<task>> = tasks \o (pendingTasks \o <<task>>)
  BY <1>2, ConcatAssociative
<1> QED
  BY <1>1, <1>3, <1>4 DEF Queue

\* What starting a task does: the head of the queue moves to the history.
LEMMA RunTakesHead ==
  ASSUME TypeOK, RunTask
  PROVE  \E task \in Task :
            /\ served' = served \o <<task>>
            /\ Queue = <<task>> \o (Tail(tasks) \o pendingTasks)
            /\ Tail(tasks) \in Seq(Task)
<1>1. /\ pendingTasks \in Seq(Task) /\ tasks \in Seq(Task) /\ served \in Seq(Task)
      /\ tasks # <<>>
  BY DEF TypeOK, RunTask
<1>2. Head(tasks) \in Task /\ Tail(tasks) \in Seq(Task) /\ <<Head(tasks)>> \in Seq(Task)
  BY <1>1, HeadTailProperties
<1>3. tasks = <<Head(tasks)>> \o Tail(tasks)
  BY <1>1, HeadThenTail
<1>4. (<<Head(tasks)>> \o Tail(tasks)) \o pendingTasks
        = <<Head(tasks)>> \o (Tail(tasks) \o pendingTasks)
  BY <1>1, <1>2, ConcatAssociative
<1>5. served' = served \o <<Head(tasks)>>
  BY <1>1, <1>2, AppendIsConcat DEF RunTask
<1> QED
  BY <1>2, <1>3, <1>4, <1>5 DEF Queue

\* QueueOrder alone is not inductive: the swap overwrites `tasks`, and only a
\* batch that has been run to its end may be overwritten.
BatchDone == lpc \notin {"run", "task"} => tasks = <<>>

OrderInv == QueueOrder /\ BatchDone

\* The strengthened invariant holds in every reachable state.
LEMMA OrderInvariant == Spec => []OrderInv
<1>1. Init => OrderInv
  BY DEF Init, OrderInv, QueueOrder, Queue, BatchDone
<1>2. TypeOK /\ OrderInv /\ [Next]_vars => OrderInv'
  <2> SUFFICES ASSUME TypeOK, OrderInv, [Next]_vars PROVE OrderInv'
    OBVIOUS
  <2>0. /\ pendingTasks \in Seq(Task) /\ tasks \in Seq(Task)
        /\ submitted \in Seq(Task) /\ served \in Seq(Task)
        /\ submitted = served \o Queue /\ Queue \in Seq(Task)
        /\ BatchDone
    BY ConcatProperties DEF TypeOK, OrderInv, QueueOrder, Queue
  <2>1. ASSUME NEW t \in Threads, Push(t), UNCHANGED <<tasks, served, lpc>>
        PROVE  OrderInv'
    <3>1. PICK task \in Task : /\ submitted' = submitted \o <<task>>
                               /\ tasks \o pendingTasks' = Queue \o <<task>>
      BY <2>1, PushAppends
    <3>2. served \in Seq(Task) /\ Queue \in Seq(Task) /\ <<task>> \in Seq(Task)
      BY <2>0
    <3>3. (served \o Queue) \o <<task>> = served \o (Queue \o <<task>>)
      BY <3>2, ConcatAssociative
    <3> QED
      BY <2>0, <2>1, <3>1, <3>3 DEF OrderInv, QueueOrder, Queue, BatchDone
  <2>2. CASE RunTask
    <3>1. PICK task \in Task : /\ served' = served \o <<task>>
                               /\ Queue = <<task>> \o (Tail(tasks) \o pendingTasks)
                               /\ Tail(tasks) \in Seq(Task)
      BY <2>2, RunTakesHead
    <3>2. /\ Tail(tasks) \o pendingTasks \in Seq(Task) /\ <<task>> \in Seq(Task)
          /\ served \in Seq(Task)
      BY <2>0, <3>1, ConcatProperties
    <3>3. (served \o <<task>>) \o (Tail(tasks) \o pendingTasks)
            = served \o (<<task>> \o (Tail(tasks) \o pendingTasks))
      BY <3>2, ConcatAssociative
    <3> QED
      BY <2>0, <2>2, <3>1, <3>3 DEF RunTask, OrderInv, QueueOrder, Queue, BatchDone
  <2>3. CASE SwapTasks
    <3>1. tasks = <<>>
      BY <2>0, <2>3 DEF SwapTasks, BatchDone
    <3>2. Queue = pendingTasks /\ pendingTasks \o <<>> = pendingTasks
      BY <2>0, <3>1, ConcatEmptySeq DEF Queue
    <3> QED
      BY <2>0, <2>3, <3>2 DEF SwapTasks, OrderInv, QueueOrder, Queue, BatchDone, history
  <2>4. CASE TasksDone
    <3>1. UNCHANGED <<pendingTasks, tasks, submitted, served>> /\ tasks = <<>>
      BY <2>4 DEF TasksDone, history
    <3> QED
      BY <2>0, <3>1 DEF OrderInv, QueueOrder, Queue, BatchDone
  <2>5. ASSUME UNCHANGED <<pendingTasks, tasks, submitted, served>>,
               (lpc' \in {"run", "task"}) = (lpc \in {"run", "task"})
        PROVE  OrderInv'
    BY <2>0, <2>5 DEF OrderInv, QueueOrder, Queue, BatchDone
  <2>6. ASSUME NEW p \in Producers, Submit(p) \/ Sleep(p) \/ WakeLoop(p)
        PROVE  OrderInv'
    <3>1. CASE Submit(p) BY <2>1, <3>1 DEF Submit, Threads
    <3>2. CASE Sleep(p) BY <2>5, <3>2 DEF Sleep
    <3>3. CASE WakeLoop(p) BY <2>5, <3>3 DEF WakeLoop, history
    <3> QED BY <2>6, <3>1, <3>2, <3>3
  <2>7. CASE Self
    <3>1. CASE SelfSubmit
      <4>1. (IF lpc = "init" THEN Setup ELSE Loop) \in Threads
        BY DEF Threads
      <4> QED
        BY <2>1, <3>1, <4>1 DEF SelfSubmit
    <3>2. CASE SelfDirect BY <2>5, <3>2 DEF SelfDirect, loopVars
    <3>3. CASE SelfSleep BY <2>5, <3>3 DEF SelfSleep
    <3> QED BY <2>7, <3>1, <3>2, <3>3 DEF Self
  <2>8. CASE LoopStep
    <3>1. CASE EnterLoop BY <2>5, <3>1 DEF EnterLoop, history
    <3>2. CASE TestSleeping BY <2>5, <3>2 DEF TestSleeping, history
    <3>3. CASE Poll BY <2>5, <3>3 DEF Poll, history
    <3>4. CASE HandleRead BY <2>5, <3>4 DEF HandleRead, history
    <3>5. CASE Dispatch BY <2>5, <3>5 DEF Dispatch, history
    <3>6. CASE CallbackReturns BY <2>5, <3>6 DEF CallbackReturns, history
    <3>7. CASE TaskReturns BY <2>5, <3>7 DEF TaskReturns, history
    <3> QED
      BY <2>2, <2>3, <2>4, <2>8, <3>1, <3>2, <3>3, <3>4, <3>5, <3>6, <3>7 DEF LoopStep
  <2>9. CASE UNCHANGED vars
    BY <2>5, <2>9 DEF vars, loopVars, history
  <2> QED
    BY <2>6, <2>7, <2>8, <2>9 DEF Next
<1> QED
  BY <1>1, <1>2, TypeCorrect, PTL DEF Spec

\* The double queue loses, repeats and reorders nothing, for any number of
\* submitting threads and any interleaving of their pushes with the swap.
THEOREM OrderKept == Spec => []QueueOrder
BY OrderInvariant, PTL DEF OrderInv

(***************************************************************************)
(* The refinement                                                          *)
(***************************************************************************)
\* Whatever the threads do, the queue of the loop behaves like the abstract
\* FIFO: a push submits one task, starting a task serves the oldest one, and
\* every other step of the loop or of a caller changes nothing it shows.
THEOREM Refinement == Spec => ImplementsTaskFifo
<1>1. Init => FIFO!Init
  BY DEF Init, FIFO!Init
<1>2. TypeOK /\ OrderInv /\ [Next]_vars => [FIFO!Next]_(FIFO!vars)
  <2> SUFFICES ASSUME TypeOK, OrderInv, [Next]_vars PROVE [FIFO!Next]_(FIFO!vars)
    OBVIOUS
  <2>1. ASSUME NEW t \in Threads, Push(t), UNCHANGED served
        PROVE  FIFO!Next
    <3>1. <<t, sent[t] + 1>> \in Task
      BY <2>1, BoundAssumption DEF Push, TypeOK, Task
    <3> QED
      BY <2>1, <3>1 DEF Push, FIFO!Next, FIFO!Submit
  <2>2. CASE RunTask
    <3>1. PICK task \in Task : /\ served' = served \o <<task>>
                               /\ Queue = <<task>> \o (Tail(tasks) \o pendingTasks)
                               /\ Tail(tasks) \in Seq(Task)
      BY <2>2, RunTakesHead
    <3> DEFINE rest == Tail(tasks) \o pendingTasks
    <3>2. /\ rest \in Seq(Task) /\ <<task>> \in Seq(Task) /\ served \in Seq(Task)
          /\ Queue \in Seq(Task)
      BY <3>1, ConcatProperties DEF TypeOK, Queue
    <3>3. /\ Len(Queue) = 1 + Len(rest)
          /\ Queue[1] = task
          /\ Len(rest) \in Nat
      BY <3>1, <3>2, ConcatProperties, LenProperties
    <3>4. /\ submitted = served \o Queue
          /\ Len(served) \in Nat
          /\ Len(submitted) = Len(served) + Len(Queue)
          /\ submitted[Len(served) + 1] = Queue[1]
      <4>1. submitted = served \o Queue
        BY DEF OrderInv, QueueOrder
      <4>2. Len(served) \in Nat /\ Len(Queue) \in Nat
        BY <3>2, LenProperties
      <4>3. /\ Len(served \o Queue) = Len(served) + Len(Queue)
            /\ \A i \in 1 .. Len(served) + Len(Queue) :
                 (served \o Queue)[i] = IF i <= Len(served) THEN served[i]
                                        ELSE Queue[i - Len(served)]
        BY <3>2, ConcatProperties
      <4>4. Len(served) + 1 \in 1 .. Len(served) + Len(Queue)
        BY <3>3, <4>2
      <4> QED
        BY <4>1, <4>2, <4>3, <4>4
    <3>5. served' = Append(served, submitted[Len(served) + 1])
      <4>1. served' = Append(served, task)
        BY <3>1, <3>2, AppendIsConcat
      <4> QED
        BY <3>3, <3>4, <4>1
    <3> QED
      BY <2>2, <3>3, <3>4, <3>5 DEF RunTask, FIFO!Next, FIFO!Serve
  <2>3. ASSUME NEW p \in Producers, Submit(p) \/ Sleep(p) \/ WakeLoop(p)
        PROVE  [FIFO!Next]_(FIFO!vars)
    <3>1. CASE Submit(p) BY <2>1, <3>1 DEF Submit, Threads
    <3>2. CASE Sleep(p) BY <3>2 DEF Sleep, FIFO!vars
    <3>3. CASE WakeLoop(p) BY <3>3 DEF WakeLoop, history, FIFO!vars
    <3> QED BY <2>3, <3>1, <3>2, <3>3
  <2>4. CASE Self
    <3>1. CASE SelfSubmit
      <4>1. (IF lpc = "init" THEN Setup ELSE Loop) \in Threads
        BY DEF Threads
      <4> QED
        BY <2>1, <3>1, <4>1 DEF SelfSubmit
    <3>2. CASE SelfDirect BY <3>2 DEF SelfDirect, FIFO!vars
    <3>3. CASE SelfSleep BY <3>3 DEF SelfSleep, FIFO!vars
    <3> QED BY <2>4, <3>1, <3>2, <3>3 DEF Self
  <2>5. CASE LoopStep
    BY <2>2, <2>5 DEF LoopStep, EnterLoop, TestSleeping, Poll, HandleRead, Dispatch,
       CallbackReturns, SwapTasks, TaskReturns, TasksDone, history, FIFO!vars
  <2>6. CASE UNCHANGED vars
    BY <2>6 DEF vars, history, FIFO!vars
  <2> QED
    BY <2>3, <2>4, <2>5, <2>6 DEF Next
<1> QED
  BY <1>1, <1>2, TypeCorrect, OrderInvariant, PTL DEF Spec, ImplementsTaskFifo, FIFO!Spec

(***************************************************************************)
(* The wakeup                                                              *)
(***************************************************************************)
\* A wakeup() that writes a real value leaves the eventfd readable, also when
\* the counter has no room for it.
LEMMA WakeupIsSeen ==
  ASSUME Garbage \subseteq 1 .. CounterMax, TypeOK, Wakeup
  PROVE  wakeupFd' > 0
<1>1. PICK v \in Garbage :
        wakeupFd' = IF v + wakeupFd <= CounterMax THEN v + wakeupFd ELSE wakeupFd
  BY DEF Wakeup
<1>2. v \in 1 .. CounterMax /\ wakeupFd \in 0 .. CounterMax
  BY DEF TypeOK
<1> QED
  BY <1>1, <1>2, CounterAssumption

\* A push announces a task only if the pushing thread is not setting up.
LEMMA PushAnnounces ==
  ASSUME TypeOK, NEW t \in Threads, Push(t), t = Setup, Announced(pendingTasks')
  PROVE  Announced(pendingTasks)
<1> DEFINE task == <<t, sent[t] + 1>>
<1>1. task \in Task
  BY BoundAssumption DEF Push, TypeOK, Task
<1>2. pendingTasks \in Seq(Task) /\ pendingTasks' = Append(pendingTasks, task)
  BY DEF TypeOK, Push
<1>3. /\ Len(pendingTasks) \in Nat
      /\ Len(pendingTasks') = Len(pendingTasks) + 1
      /\ pendingTasks'[Len(pendingTasks) + 1] = task
      /\ \A i \in 1 .. Len(pendingTasks) : pendingTasks'[i] = pendingTasks[i]
  BY <1>1, <1>2, AppendProperties
<1>4. PICK i \in 1 .. Len(pendingTasks') : pendingTasks'[i][1] # Setup
  BY DEF Announced
<1>5. task[1] = Setup
  OBVIOUS
<1>6. i # Len(pendingTasks) + 1
  BY <1>3, <1>4, <1>5
<1>7. i \in 1 .. Len(pendingTasks)
  BY <1>3, <1>4, <1>6
<1> QED
  BY <1>3, <1>4, <1>7 DEF Announced

\* The places where an announced task must be covered by a wakeup: everywhere
\* but between the poll and the swap, which takes whatever is pending.
Uncovered == {"init", "check", "poll", "run", "task"}

WakeInv ==
    /\ lpc \in Uncovered /\ Announced(pendingTasks) => wakeupFd > 0 \/ Waking
    /\ lpc = "poll" /\ sleeping => wakeupFd > 0 \/ Waking
    /\ doing <=> lpc \in {"run", "task"}

\* The strengthened invariant holds in every reachable state.
LEMMA WakeInvariant ==
  ASSUME Garbage \subseteq 1 .. CounterMax
  PROVE  Spec => []WakeInv
<1>1. Init => WakeInv
  <2> SUFFICES ASSUME Init PROVE WakeInv
    OBVIOUS
  <2>1. ~Announced(pendingTasks)
    <3>1. Len(pendingTasks) = 0
      BY DEF Init
    <3> QED
      BY <3>1 DEF Announced
  <2> QED
    BY <2>1 DEF Init, WakeInv
<1>2. TypeOK /\ WakeInv /\ [Next]_vars => WakeInv'
  <2> SUFFICES ASSUME TypeOK, WakeInv, [Next]_vars PROVE WakeInv'
    OBVIOUS
  <2> USE DEF WakeInv, Uncovered
  <2>1. ASSUME NEW p \in Producers, Submit(p) \/ Sleep(p) PROVE WakeInv'
    <3>1. ppc'[p] = "waking"
      BY <2>1 DEF Submit, Sleep, TypeOK
    <3>2. Waking'
      BY <3>1 DEF Waking
    <3>3. UNCHANGED <<doing, lpc>>
      BY <2>1 DEF Submit, Sleep
    <3> QED
      BY <3>2, <3>3
  <2>2. ASSUME NEW p \in Producers, WakeLoop(p) PROVE WakeInv'
    BY <2>2, WakeupIsSeen DEF WakeLoop
  <2>3. CASE SelfSubmit
    <3>1. UNCHANGED <<doing, lpc, sleeping, ppc>> /\ lpc # "poll"
      BY <2>3 DEF SelfSubmit
    <3>2. CASE lpc = "init"
      <4>1. Push(Setup) /\ Setup \in Threads
        BY <2>3, <3>2 DEF SelfSubmit, Threads
      <4>2. Announced(pendingTasks)' => Announced(pendingTasks)
        BY <4>1, PushAnnounces DEF Announced
      <4>3. UNCHANGED wakeupFd
        BY <2>3, <3>2 DEF SelfSubmit
      <4> QED
        BY <3>1, <3>2, <4>2, <4>3 DEF Waking
    <3>3. CASE lpc = "callback"
      BY <3>1, <3>3
    <3>4. CASE lpc = "task"
      <4>1. wakeupFd' > 0
        BY <2>3, <3>4, WakeupIsSeen DEF SelfSubmit
      <4> QED
        BY <3>1, <4>1
    <3> QED
      BY <2>3, <3>2, <3>3, <3>4 DEF SelfSubmit
  <2>4. CASE SelfDirect
    BY <2>4 DEF SelfDirect, loopVars, Waking
  <2>5. CASE SelfSleep
    BY <2>5 DEF SelfSleep, Waking
  <2>6. CASE LoopStep
    <3>1. CASE EnterLoop BY <3>1 DEF EnterLoop, Waking
    <3>2. CASE TestSleeping BY <3>2 DEF TestSleeping, Waking
    <3>3. CASE Poll BY <3>3 DEF Poll
    <3>4. CASE HandleRead BY <3>4 DEF HandleRead
    <3>5. CASE Dispatch BY <3>5 DEF Dispatch
    <3>6. CASE CallbackReturns BY <3>6 DEF CallbackReturns
    <3>7. CASE SwapTasks
      <4>1. ~Announced(pendingTasks')
        BY <3>7 DEF SwapTasks, Announced
      <4> QED
        BY <3>7, <4>1 DEF SwapTasks, Announced
    <3>8. CASE RunTask BY <3>8 DEF RunTask, Waking
    <3>9. CASE TaskReturns BY <3>9 DEF TaskReturns, Waking
    <3>10. CASE TasksDone BY <3>10 DEF TasksDone, Waking
    <3> QED
      BY <2>6, <3>1, <3>2, <3>3, <3>4, <3>5, <3>6, <3>7, <3>8, <3>9, <3>10 DEF LoopStep
  <2>7. CASE UNCHANGED vars
    BY <2>7 DEF vars, loopVars, Waking
  <2> QED
    BY <2>1, <2>2, <2>3, <2>4, <2>5, <2>6, <2>7 DEF Next, Self
<1> QED
  BY <1>1, <1>2, TypeCorrect, PTL DEF Spec

\* If wakeup() wrote what its comment says it does (any value an eventfd
\* accepts and can see), no request could be left waiting for the timeout of a
\* poll, for any number of threads.
THEOREM NoWakeupLost ==
  ASSUME Garbage \subseteq 1 .. CounterMax
  PROVE  Spec => []NoLostWakeup
<1>1. WakeInv => NoLostWakeup
  BY DEF WakeInv, Uncovered, NoLostWakeup
<1> QED
  BY <1>1, WakeInvariant, PTL
=============================================================================
