# A verification development for libyqmnet

libyqmnet is a C++14 reactor library in the style of muduo: one `EventLoop` per
thread, channels dispatched from epoll, TCP connections with an output buffer,
a server that runs one loop per thread, a client with a retry timer, timers whose
callbacks run in a thread pool, and a logger with a writer thread.

Part 1 is the inventory of the system, part 2 describes the modules, part 3 the
runs, part 4 the proofs, part 5 what the development says about the code, and
part 6 what is not modelled and in which order it will be.

Run a model with `tlc -config <run>.cfg <module>`, check proofs with
`tlapm <module>.tla`, where the module is one of EventLoopProofs, BufferProofs,
ThreadPoolProofs, TimerQueueProofs, TcpConnectionProofs, TcpServerProofs, TcpClientProofs
and LoggerProofs.

## 1. The system

| component | state | operations | hard behaviour |
|---|---|---|---|
| EventLoop | `_pendingTasks` (mutex), `_sleeping` (atomic), `_doingPendingTasks`, the eventfd, the list of ready channels | addTask, addInQueue, wakeup, sleep, loop, doPendingTasks | pushes race the swap, the poll and the eventfd; tasks and callbacks call back into the loop |
| Epoller, Channel | interest set, ready set, `polling`, the tie to the owner | poll, updateChannel, enable/disable, doTask | several events in one report; owners that die between report and dispatch |
| Buffer | a vector, a read and a write index | ReadX, WriteX, recycle, InitAll, readfd, swap | compaction by overlapping copy, growth, scattered read |
| TcpConnection | `_state` (atomic), interest set, output buffer, socket | send, shutdown, forceClose, stopRead, startRead from any thread; Read, Write, Close, Error in the loop | half-close against buffered and queued data, re-entrant callbacks, unlocked tests of `_state` |
| TcpServerSingle, Acceptor | the set of connections, the listening socket | OnConnection, closeConnection, handleRead | a connection is closed once, whoever notices |
| TcpServer | `_state` (atomic), `_loops`, `_threads`, the condition variable | setNumThread, start from any thread; startInLoop, runInThread, destructor | start-up handshake, entries cleared while the destructor reads them, stop before the loop runs |
| TcpClient, Connector | `_connection`, `_connected`, `_trytimer`; `_started`, the socket, its channel | start, connect, handleWrite, retry, OnConnection, closeConnection, destructors | callbacks on pool threads, a connect whose failure shows later, a descriptor with two owners |
| TimerQueue, Timer, TimeTask | the ordered timers (mutex, not always taken), the tick thread | addTimer, cancelTimer, handle | cancel and expiry cross, the pool refuses, handles are reused |
| ThreadPool, Thread | the task queue and the list of free threads (mutex), three atomics per thread | AddTask, the workers' step, Block, ReStart, stop, destructors | lost wakeups, polling of flags at shutdown |
| CountDownLatch, Sem_t, Mutex | a count, a condition variable | wait, down, notify | predicates tested outside the lock |
| Logger | a queue (mutex), the writer thread; localtime's one struct | Log, Enqueue, Dequeue, the writer's loop | the writer's unlocked test, stamps mixed between threads, the end of the process |

Interactions. Other threads reach a loop only through `addTask`/`addInQueue`
and `sleep`. TcpConnection calls the loop (`addTask`, `removeChannel`), its
channel calls back `Read`, `Write`, `Close` and `Error`, and those call the
user's callbacks, which may call the connection again. `Close` ends in the
`closeConnection` of its server or client. TimerQueue has a tick thread of its
own and a ThreadPool for the callbacks; TcpClient's retries are such callbacks.
Everything logs.

What makes each component correct:

- EventLoop: no task is lost, repeated or reordered; no task waits for the poll
  to time out when its thread asked for a wakeup; every task is started; sleep
  ends the loop.
- Buffer: a queue of bytes; indices never cross; no growth without need.
- TcpConnection: the bytes accepted are the bytes written, in order; EPOLLOUT is
  on exactly while something is buffered; the FIN follows the last byte; a close
  happens when it is asked for and when the peer is gone, and is final; no assert
  fails. (The last two hold of the code with exceptions only, see part 5.)
- ThreadPool: an accepted task runs once, in order; stop() waits for running tasks
  and the destructor ends.
- TcpServer: the loops are started once; start publishes every sub-loop and returns;
  the destructor stores only into live loops, joins every thread and ends; a client
  in a backlog is served.
- TimerQueue: a timer fires once per period, not after it was cancelled, and no
  expired timer is dropped.
- TcpClient: one connection at most, reported up and down once each; it keeps its
  descriptor; start is answered by a connection or an error; no retry once it is up.
- Logger: a line is written once and in order, with a time at which its call, or one
  that overlaps it, was under way.

## 2. The modules

`TaskFifo` is the abstract specification of a task queue: two histories, what
was submitted and what was served, the second always a prefix of the first.
EventLoop, ThreadPool and Logger implement it.

`EventLoop` models `src/src/EventLoop.cpp`. A step is one access to state another
thread can see: a critical section of `_mutex`, an eventfd read or write, an
access to `_sleeping`. `lpc` is the loop thread's place: `init` (before `loop()`),
`check` (`while(!_sleeping)`), `poll`, `dispatch`, `callback` (inside a channel's
callback), `run` (inside doPendingTasks), `task` (inside a task), `quit`. In
`init`, `callback` and `task` the loop thread itself may queue, run a task inline
or ask to sleep. `ppc[p]` is a thread between its push and its wakeup(). The
poll returns the wakeup channel whenever the eventfd is readable, any subset of
the rest, and possibly nothing: it has a time limit of 100 ms. wakeup() adds any
value of `Garbage`, because the code passes an uninitialised word to write(2).

`ByteStreams` is the abstract specification of buffers: a sequence of bytes
each. `Buffer` models `src/src/Buffer.cpp`: the member functions are operators on
a record with the vector and the two indices, a step is one call. `CopyOrders`
says in which direction memcpy may go through overlapping memory, which C++
leaves open. ReadX's assert that the bytes are there is the caller's obligation
and a guard. Growth beyond `MaxBytes` and writes longer than `MaxLen` are cut off.

`TcpConnection` models `src/src/TcpConnection.cpp` with its channel, the poller's
`updateChannel`, the server's OnConnection and closeConnection, the socket and
the peer. `conn` is the object; a byte is its number in the sequence of bytes
sendInLoop was given. A handler of the loop thread is one step up to the user
callback it ends in: other threads share only `_state` and the queue with it,
and no handler reads `_state` twice in a way they could tell. User callbacks are
frames on `stack`; while a frame is on top the callback may call the connection.
Because addTask in the loop thread runs its task at once, the high-water-mark
callback runs in the middle of sendInLoop: the frame `rest` under it holds what
sendInLoop still has to do. Another thread's shutdown() and forceClose() are
split at each access to `_state` (`upc`): assert, test, store, push. `Referenced` is
the set of places a shared_ptr can be in; without one the destructor runs, and
without one the channel's tie does not lock and its events are not handled. A report
of the poll may hold any events of the interest set that can be there, also EPOLLPRI
(`urgent`), which enableRead sets and disableRead leaves: a paused connection can
still be read. stopRead() and startRead() look at the interest set and not at
`_state`, so startRead() registers the channel of a closed connection again. What
the loop does with its queue is the swap of EventLoop; the wakeup behind a push
only shortens the poll and is left out. Asserts of the code set `failed`.

`ThreadPool` models `src/include/ThreadPool.h` and `src/src/Thread.cpp`. Each worker
has a place `wpc` in the function of Thread::Start and its three atomics; each
caller a place `cpc` in AddTask; the owner a place `opc` in `~ThreadPool`. A task
runs with `_lock` held, as in the code. The notification reaches a worker only
inside pthread_cond_wait (`waiting`). The destructor's ten polls of `_running` are
one step that may end at any time; destroying a joinable std::thread ends the
program (`terminated`).

`TimerQueue` models `src/src/TimerQueue.cpp`, the loop of `Timer` and the timer calls of
EventLoop. `heap` holds the TimeTask objects by address, so an address can be used
again and a handle can outlive its timer; `timetasks` is the map, whose order reads
the objects: two timers with one time stamp are one key to it. The tick thread is
split where another thread can come in: after the clock is read, after the scan,
after an erase, while AddTask waits for the lock of the pool, before the insert of
a periodic timer. The calls take no lock and are one step anywhere in between;
if one meets handle() inside an operation on the map (`Racing`) its insert may be
lost or its find may miss. A data race on a std::map can also corrupt the tree or
end the program; after that nothing can be said and the model does not go on to
it. A find through the handle of a deleted timer (`Dangling`) reads freed memory:
it may find any entry or none. The pool is reduced to what `ThreadPool` shows of it: a number
of queued callbacks, one of which may run with the pool's lock held, and a limit
beyond which AddTask refuses.

`TcpServer` models `src/src/TcpServer.cpp` with the Acceptor and the set of connections
of each loop. The base thread has a place `bpc` and an index `idx`, both in
startInLoop (`listen`, `create`, `test`, `wait`, `blocked`, `emplace`) and in the
destructor (`entry`, `store`, `wake`, `join`, `members`); sub-thread `i` has a place
`spc[i]` in runInThread. A step is one access to something shared: an entry of
`_loops`, the condition variable (`waiting`: a notification reaches the base thread
only then), `_sleeping` of a loop; `wake` is what sleep() does after its store,
isInLoopThread() and wakeup(). Other threads call start() in two steps, the
exchange of `_state` and the push of the task. Of a loop there is the poll of the
listening socket, the handler and the test of `_sleeping`; the rest is EventLoop's.
Every listening socket has a backlog; a client joins one of them (`SO_REUSEPORT`) and
may give up before it is accepted. A failed accept leaves a phantom, a connection
made of the descriptor -1. A failed assert ends the program (`aborted`).

`TcpClient` models `src/src/TcpClient.cpp` and `src/src/Connector.cpp`. The loop thread is
in user code or the poll (`user`), inside the blocking connect(2), after it, or done
with the client; `ready` is the channel the current batch has still to handle, so a
user's call can fall between the poll and the handler. The timer is in the map, in
the hands of the tick thread, or out; `retrying` says that a pool thread was given
retry(), whose first line asserts the loop thread: that step ends the program, and
what stands behind the assert is not reached. `fd` follows the descriptor that
Connector and TcpConnection both close. The pool accepts the callback. The
connection is taken to keep reading and to be sent no urgent data: a stopRead() on
it, which would keep an end of file from being reported, is left to `TcpConnection`.

`Logger` models `src/src/Logger.cpp`, the variant the build compiles. A logging thread
reads the clock, lets localtime() fill the struct all threads share, prints it part
by part, and enqueues the line; the writer tests the queue without the lock,
dequeues, and writes. A stamp is, for each of its parts, the time that part was
taken from, so a stamp mixed of two threads' times is visible. `oldest` is a history
variable: the earliest time read by a call that was under way when this one began.

Each module whose name ends in `Proofs` extends the module it is named after and holds
its theorems (part 4).
Operators whose comment begins with "Mutant of" are not part of a model: each is
a definition with one plausible error, kept to show that a property can fail.

## 3. The runs

| run | module | checks |
|---|---|---|
| EventLoopWork | EventLoop | TypeOK, NoLostWakeup, ImplementsTaskFifo, TaskRuns, SleepStops |
| BufferCalls | Buffer | TypeOK, ImplementsByteStreams, GrowsOnlyWhenFull |
| ConnLoop | TcpConnection | AssertsOnlyLate, WritingIffOutput, StreamKept, FlushedBeforeFin, PeerGoneCloses, ShutdownFinishes |
| ConnUsers | TcpConnection | Safe (TypeOK, AssertsOnlyLate, WritingIffOutput and StreamKept), ClosingFinishes |
| PoolCalls | ThreadPool | TypeOK, QuietAfterStop, ImplementsTaskFifo, DestroyEnds, AddTaskReturns |
| TimerCalls | TimerQueue | TypeOK, MapKept, OncePerPeriod, DueIsOffered, HandleEnds |
| ServerCalls | TcpServer | Safe (TypeOK and StopIsSafe), StartPublishes, Served, StopEnds |
| ClientCalls | TcpClient | TypeOK, OneConnection, TimerStopped, StartAnswers, GoneGoesDown |
| LoggerLines | Logger | Safe (TypeOK and StampRecent), ImplementsTaskFifo, LineWritten |
| PoolLostWakeup, TimerCancel, ServerStart | | one property each, violated: see part 5 |

Bounds and why they are enough.

- EventLoopWork: two producers, the loop thread and the set-up code queue one task
  each. One push per thread reaches every place where a push can fall, and the
  four tasks reach both queues at once. `CounterMax = 3` with a word of 2 makes a
  second wakeup overflow the eventfd and be refused. The theorems of part 4 carry
  the safety properties to any number of producers, tasks and sizes.
- BufferCalls: a head of 1, an initial size of 1 and at most 4 bytes in all; two
  byte values. Every path is taken: a write that fits, one that fits after
  compaction, one that grows; a read that ends in the vector or in extrabuf, which
  has one byte; recycles of less and of more than is readable. Two buffers
  exercise swap. The theorems carry it to every size.
- ConnLoop: sends of up to 2 bytes with a mark of 2, so one send can pass the mark,
  and a short write can leave 0, 1 or 2 bytes behind; three sends let a send find a
  buffer that an earlier one filled and a write has half emptied. Three other calls
  of the callbacks suffice for shutdown, stopRead and startRead in any order, also
  after the close. The high-water callback may pause reading and force the close; if
  it sends or shuts down, StreamKept or FlushedBeforeFin fails (part 5). The peer may
  send urgent data, close and reset. 70,943 states.
- ConnUsers: one other thread with two calls of any kind and its sends, callbacks that
  send, shut down and force the close, and a peer that closes: the other thread's
  test, store and push of a close race a close of the loop thread for any of three
  reasons, and its second call finds what the first one left. Sends of one byte and
  a mark of 2 let two threads fill the buffer. 308,859 states. Two threads of one
  call each have been checked with the same outcome; the theorems carry Safe to any
  number of threads and calls.
  AssertsOnlyLate and Safe speak of a connection that is open, that is, in the
  server's set, where a failing assert would end a program that has done nothing
  wrong. What can fail on a connection that has been closed is listed in part 5.
- PoolCalls: a client of three calls on a queue of two, so that a task is refused;
  two workers, so one runs while the other falls asleep; one spurious wakeup, so
  that the list of free threads can hold a worker twice. A second client would
  only contend for the lock, which the workers do.
- TimerCalls: two timers on two addresses, which gives equal time stamps, an
  address used again while the old handle is kept, and a stale handle while
  another timer is in the map. The clock goes to 4 with periods of 2, so a timer
  comes back into the map and is due again; an interval of 1 is below the unit of
  a period, and runEvery makes a one-shot timer of it. A pool of one callback is
  full as soon as one runs. The theorems carry the safety properties to any size.
- ServerCalls: two sub-loops, so that the base thread can wait for one while the other
  is already in its loop, and the destructor goes over two entries; two other threads
  and the base thread compete for start(). One client, two accepts that fail for want
  of descriptors, and any number that find the backlog empty. `EarlyStop = FALSE`: the
  server is destroyed once the loops it started have entered loop().
- ClientCalls has one constant: the user's calls may fall inside a batch. The state
  space is small because a client makes one attempt and has one connection; it is
  complete.
- LoggerLines: two threads of two lines each, one tick of the clock and a stamp of two
  parts. Two times are enough for a part to be too old, two parts for a mixture, two
  lines of two threads for every order of the queue.

Fairness. EventLoop: the loop thread keeps running, what it calls returns, and a
thread inside addInQueue or sleep() goes on to its wakeup(); nobody has to make a
call. epoll_wait has a time limit, so `poll` is never a place to stay.
TcpConnection: the loop thread and the calls of other threads go on and callbacks
return; a peer that has not gone keeps reading, so a connection that waits for
EPOLLOUT gets it again and again (strong fairness of a poll that reports it) and
a write takes bytes again and again (strong fairness of such a write). Without
that no implementation could flush. ThreadPool: weak fairness of each worker,
each caller inside AddTask and the owner; a lock is contended by finitely many
steps, so weak fairness of taking it is enough. No spurious wakeup has to come.
TimerQueue: the clock goes on, the tick thread does, and callbacks return; the pool
need not start a callback, because it can miss a wakeup. The clock does not go
back, which system_clock may when it is set. TcpServer: the base thread and the
sub-threads go on with what they have begun, and an iteration of a loop polls and
handles what was reported, which the poll's time limit ensures; nobody has to call
start(), to connect or to destroy the server, and no spurious wakeup has to come.
TcpClient: the loop thread goes on; connect(2) returns, one way or the other. Logger:
the writer thread and a thread inside Log are scheduled.

Deadlock checking is off in every run because each of these systems may stop: a
loop quits, a connection is destroyed, a pool is idle or gone, a bound is used
up. That something which must go on does not stop is the task of the liveness
properties.

## 4. The proofs

Checked by TLAPS, for every value of the constants that the assumptions in the
modules allow.

EventLoop (`EventLoopProofs`):

- `TypeCorrect`: `Spec => []TypeOK`. TypeOK is inductive.
- `OrderKept`: `Spec => []QueueOrder`, where QueueOrder says that what was submitted
  is what was served, followed by what was swapped out, followed by what is
  pending. It is inductive once joined with TypeOK and with "the swapped vector
  is empty outside doPendingTasks", without which the swap could overwrite tasks.
- `Refinement`: `Spec => ImplementsTaskFifo`. By QueueOrder the task at the head of
  the vector is the first one not served, so RunTask is a Serve; a push is a
  Submit; everything else stutters.
- `NoWakeupLost`: if every word wakeup() can write lies in `1 .. CounterMax`, then
  `Spec => []NoLostWakeup`. The invariant says that whenever the loop is not
  between the reading of the eventfd and the swap, an announced task or a stop
  request comes with a readable eventfd or a thread on its way to wakeup(); the
  places in between are those where the loop will look at the queue again.
  With a word of 0 in `Garbage` TLC finds NoLostWakeup violated, so the assumption is
  needed.

Buffer (`BufferProofs`):

- `BufferTypeCorrect`: `Spec => []TypeOK`, whatever the direction of memcpy: indices
  stay in order and in bounds. One lemma per member function.
- `BufferRefinement`: if memcpy goes upwards, `Spec => ImplementsByteStreams`. One
  lemma per member function says what it does to the contents; moveForward leaves
  them alone, Write appends, readfd appends what arrived in two parts.
- `BufferGrowth`: `Spec => GrowsOnlyWhenFull`, whatever the direction of memcpy. Fill keeps
  the read index and grows the vector at most up to the write index; Write calls it
  with too much data only after moveForward, when the read index is at the head; and
  readfd fills the vector's tail, which changes no size, before it writes the rest.

TimerQueue (`TimerQueueProofs`), with stale handles and racing calls allowed:

- `TimerTypeCorrect`, `MapIntact` and `NeverTwice`: `Spec => []TypeOK`, `[]MapKept` and
  `[]OncePerPeriod`. They are proved together, because each needs the others, from an
  inductive invariant that adds: a live object belongs to one call of addTimer
  (else a timer given to the pool would move the last time stamp of another); what
  handle() took for expired has expired; a timer on its way back into the map has
  a positive interval; there is a task in hand only between erase and insert.

Logger (`LoggerProofs`):

- `LoggerTypeCorrect` and `LoggerSafe`: `Spec => []TypeOK` and `Spec => []Safe`. TypeOK
  becomes inductive with: a call about to enqueue has a complete stamp and has been
  counted, and the writer has a line to take before Dequeue and one in hand before
  write(2). StampRecent becomes inductive with two facts about the struct that all
  threads share: what a call remembers as the oldest time is no later than what any
  call under way has read, and no later than what the struct holds while it formats.
- `LoggerRefinement`: `Spec => ImplementsTaskFifo`. What was enqueued is what was written,
  then the line in the writer's hands, then the queue; so Enqueue is a Submit,
  write(2) a Serve, and Dequeue stutters.

ThreadPool (`ThreadPoolProofs`):

- `PoolTypeCorrect`: `Spec => []TypeOK`. It needs to know who holds the lock: whoever
  does is in its critical section, a task that calls AddTask waits for the lock its
  own worker holds, and who pops the queue has found it non-empty.
- `PoolRefinement`: `Spec => ImplementsTaskFifo`. The task in a worker's hands is still
  the head of the queue, so what was submitted is what was served, then the queue
  without that head.
- `StopIsQuiet`: `Spec => []QuietAfterStop`. The invariant: until the destructor of its
  thread, a worker in a step of the pool or blocked has `_run` set, so that stop() waits
  for it; a worker stop() has passed over is in no task and will enter none, because
  `_pool_is_in_run` is clear.

TcpServer (`TcpServerProofs`), for any number of callers and loops, and for a
destructor that may come before the loops run (`EarlyStop`):

- `StartIsSafe`: `Spec => []StartPublishes`, from an inductive invariant that relates
  the index start() has reached to the threads created, published and listed.
- `StopTouchesTheLiving`: `Spec => []StopIsSafe`, which is a part of the run's Safe. An
  entry of `_loops` is set only while its thread is in runInThread, a loop leaves only
  when it has been put to sleep, and the destructor puts each to sleep in its turn: the
  loop it stores into is alive. What sleep() does next, isInLoopThread() and wakeup(), is
  not covered and can reach a loop that is gone (part 5).
- `ServerSafe`: `Spec => []Safe`, for any finite set of clients as well. Besides
  StopIsSafe, Safe has TypeOK, which limits the phantoms, the failed accepts, to the
  descriptors refused and the clients there are. That limit is not inductive: a poll can report a client, the client can leave, and only then does accept
  fail. `FailuresExplained` counts, for each loop, the phantoms it has and the one it
  is about to get: together they are no more than the refused descriptors and the
  clients that have left that loop's backlog.

TcpClient (`TcpClientProofs`), with calls inside and outside a batch:

- `ClientTypeCorrect`, `ReportsOnce` and `NoRetryWhenConnected`: `Spec => []TypeOK`,
  `[]OneConnection` and `[]TimerStopped`. The invariant adds: as long as the connector's
  channel is registered nothing has been reported and its socket is open; a client that
  is gone holds no connection; connect() and its handler run in a client that is
  started and not connected; and an armed timer is the one `_trytimer` names, without
  which OnConnection could leave a timer behind.

TcpConnection (`TcpConnectionProofs`):

- `ConnTypeCorrect`, `ListedAsserts` and `ListedWriting`: `Spec => []TypeOK`,
  `[]AssertsOnlyLate` and `[]WritingIffOutput`, without an assumption on the callers: any
  threads, calls, callbacks, peers and sizes. The inductive invariant (`CoreInv`) says that
  before it is accepted a connection is fresh; that one in the server's set has not
  failed, is connected or disconnecting, is registered, and has EPOLLOUT in its interest
  set exactly while its buffer is not empty; that a send on the stack that waits for its
  high-water callback has bytes left to keep; and that a pending EPOLLOUT of such a
  connection means it is still writing. Once the connection has left the set nothing is
  claimed of its asserts, and `Orderly` says why that is enough: no step but OnConnection
  puts a connection into the set, so a failure cannot be followed by an open one.
- `ListedStream`: `[]StreamKept` under `Mild`: a high-water-mark callback is set and does not
  send. Part 5 says what happens otherwise. `StreamInv` adds that at most one send waits on
  the stack of an open connection, and that the wire, the buffer and its bytes are all
  the bytes accepted so far, in order.
- `ConnSafe`: `[]Safe` under `Mild`, all that ConnUsers checks of the states.
- `CalmFlush`: `FlushedBeforeFin` under `Calm`: `Mild`, other threads do not send, and the
  high-water callback does not shut down. What it excludes are the FINs of part 5 that
  overtake a queued send or the rest of a send.

Only model-checked: the liveness properties of every module, and the violations of
part 5. The proof system reaches neither liveness under fairness nor ENABLED; and a
violation is shown by a behaviour, which TLC finds. Every invariant and every safety
property of a step that a run checks is stated by a theorem; StreamKept, Safe of
TcpConnection, FlushedBeforeFin, NoLostWakeup and ImplementsByteStreams under the
assumptions given above.

## 5. What the development says about the code

Shown by runs (counterexamples of a few steps):

- PoolLostWakeup: a worker about to sleep misses its wakeup, and the task stays.
- TimerCancel: a periodic timer that is cancelled while its callback is given to the
  pool, by that callback for instance, is inserted again and goes on.
- ServerStart: the notification of a new thread that falls between the base thread's
  test of its entry and its wait wakes nobody; start() hangs and the remaining loops
  are never started.

The constants allow variants that are not kept as runs. The property named fails in
the run named once the constant or the property is changed.

| run and change | property | why |
|---|---|---|
| EventLoopWork, `Garbage = {0}` | NoLostWakeup | wakeup() writes an uninitialised word; 0, or one too large for the counter, wakes nobody until the poll's 100 ms are over |
| EventLoopWork, `EarlySleep = TRUE` | SleepStops | loop() clears a request made before it |
| BufferCalls, `CopyOrders = {"downwards"}` | ImplementsByteStreams | memcpy between overlapping ranges |
| ConnLoop, `HighWaterSet = FALSE` | StreamKept | what a short write left over goes to the output buffer only inside `if(_highwatermarkcallback)` (TcpConnection.cpp:154), although the comment at line 151 says it does |
| ConnLoop, `HighMay = {"shutdown"}` | FlushedBeforeFin | the FIN overtakes the rest of the send |
| ConnUsers, `UserMay = {"send", "shutdown"}`, `LoopMay = {"send"}` | FlushedBeforeFin | shutdown() stores Disconnecting before its task reaches the loop, and a drained buffer then sends the FIN ahead of queued sends |
| ConnUsers, FlushedBeforeFin as well | FlushedBeforeFin | a shutdown() of a callback sends the FIN ahead of the sends other threads have queued |
| ConnLoop, AssertionsHold as well | AssertionsHold | disableRead leaves EPOLLPRI (Channel.h:47, 53) and handleEventsGuard reads on it (Channel.cpp:47): urgent data with a hang-up on a paused connection is Close() and then Read(), whose assert (TcpConnection.cpp:232) fails |
| ConnUsers, AssertionsHold as well | AssertionsHold | shutdown() asserts, tests and stores `_state` in three steps and the loop thread closes in between; and a startRead() of a closed connection someone still holds registers its channel again (TcpConnection.cpp:309-315), so that Read() is called on it |
| ConnUsers, DisconnectedIsFinal as well | DisconnectedIsFinal | the same store of Disconnecting (TcpConnection.cpp:177-179) overwrites the Disconnected of the loop thread, although TcpConnection.h:53 calls the operation thread-safe |
| ConnLoop, ForceCloseCloses as well | ForceCloseCloses | a forceClose() after a shutdown() finds Disconnecting and queues nothing (TcpConnection.cpp:206-210) |
| PoolCalls, `TasksSubmit = TRUE` | AddTaskReturns | a task that calls AddTask waits for its own worker |
| PoolCalls, NeverTerminates instead | NeverTerminates | ~Thread destroys a joinable std::thread when the worker is slow to leave, or just arriving |
| ServerCalls, WakeIsSafe as well | WakeIsSafe | sleep() goes on to isInLoopThread() and wakeup() after its store (EventLoop.cpp:144-145); the loop may have seen the store, ended, and be gone |
| ServerCalls, `EarlyStop = TRUE` | StopEnds | a sleep() that comes before the sub-loop's loop() is lost, and the join waits for ever |
| ClientCalls, UpIsConnected instead | UpIsConnected | see below |

TimerQueue: a timer whose time stamp is in the map already is never inserted and never
fires (a periodic one is lost when its next time stamp is another's), cancelling it
cancels the other one, runEvery with less than a millisecond fires once, and a full
pool loses a callback.

TcpServer: a failed accept adds a connection of the descriptor -1 that no event will
ever remove, and a connection or phantom still in the set when the server is
destroyed fails the assert of ~TcpConnection. StopIsSafe is about the store of the
destructor's sleep(), which cannot fall on a loop that is gone; the rest of sleep() can
(WakeIsSafe).

TcpClient: connect(2) has taken the error it returned, so SO_ERROR is 0 when the
channel of a refused socket reports, and the client reports a connection that does
not exist; it goes down at once, and since `_connected` stays set nothing is tried
again. The retry timer never helps: its callback runs in a pool thread and fails the
assert of the loop thread, which ends the program. ~Connector closes a descriptor
number that ~TcpConnection has closed before and that may be another file's by then
("stolen"). A client destroyed while its connection is shutting down fails an assert,
and one started or destroyed by another channel's callback of the same batch can
leave a dangling pointer in the batch.

Logger: what is in the queue when the program ends is not written; the unlocked test
of the queue is a spin that an optimising compiler may hoist out of its loop (the
model reads the queue anew each time); a stamp may be another thread's.

## 6. What is not modelled, and the plan

In this order:

1. `Dispatch`: many channels on one loop, owners destroyed while a batch of ready
   channels is dispatched, as TcpClient has it for its own two channels.
2. `CountDownLatch`, which one example uses: its count and its broadcast are outside
   the lock under which wait() tests the count.
3. The end of TimerQueue: its destructor deletes the timers while the detached tick
   thread goes on.
4. Proofs: a FlushedBeforeFin that speaks only of the bytes sendInLoop has been given.
   It should hold with other threads that send as well, which CalmFlush leaves out.

Left out for good: Timestamp and IPAddress (conversions of value types), Spinlock
(unused), the logger's variant with buffers (nothing defines YNET_LOG_BUFFER) and the
text of its lines, what stands behind the assert of TcpClient::retry, the examples
(read for how the library is used), the growth of the poller's event array, and
memory contents: the lifetime of a caller's bytes behind a queued send, and the
unterminated array in ReadString.
