----------------------------- MODULE TimerQueue -----------------------------
(***************************************************************************)
(* net::TimerQueue with its Timer and its TimeTasks, and the timer calls   *)
(* of EventLoop.  The tick thread runs handle(), which gives the callbacks *)
(* of expired timers to a ThreadPool; any thread, a callback included, may *)
(* call runAt, runAfter, runEvery and cancelTimer at any time.             *)
(*                                                                         *)
(* handle() holds _lock, but the calls do not take it: only AddTask, which *)
(* waits for the lock of the pool, can suspend handle(), and a callback    *)
(* runs with that lock held.  A step is what the tick thread does between  *)
(* two points at which a call can fall; what a call may meet when it falls *)
(* on an access to the map itself is a choice (Racing).                    *)
(***************************************************************************)
EXTENDS Integers, Sequences

CONSTANTS
    Address,      \* where TimeTask objects can be allocated
    Free,         \* the content of an address without an object
    Millisecond,  \* units of the clock in the unit of a period
    Durations,    \* bound: the intervals given to runAfter and runEvery
    Times,        \* bound: the time stamps given to runAt
    MaxTime,      \* bound: when the clock stops
    MaxTimers,    \* bound: calls of addTimer
    MaxQueue,     \* _initqueuesize of the pool
    Dangling,     \* may cancelTimer be called for a timer that is gone?
    Racing        \* may a call fall on an access of handle() to the map?

Timer == 1 .. MaxTimers
TimeTask == [timer : Timer, stamp : Nat, interval : Int, canceled : BOOLEAN]

ASSUME TimerAssumption ==
    /\ Millisecond \in Nat \ {0}
    /\ Durations \subseteq Nat
    /\ Times \subseteq Nat
    /\ MaxTime \in Nat
    /\ MaxTimers \in Nat
    /\ MaxQueue \in Nat
    /\ Dangling \in BOOLEAN
    /\ Racing \in BOOLEAN
    /\ Free \notin TimeTask \cup Address

VARIABLES
    now,           \* the clock
    heap,          \* the TimeTask at each address, or Free
    handle,        \* per call of addTimer, the handle it returned: an address
    timetasks,     \* _timetasks: the addresses in the map
    timeoutqueue,  \* _timeoutqueue: those still to be handled
    tpc,           \* where the tick thread is
    time,          \* handle's `now', until it has been used
    task,          \* handle's `task' while one is in hand, or Free
    queued,        \* how many callbacks the pool holds, the running one included
    busy,          \* does a callback run, with the lock of the pool held?
    last,          \* history: per timer, the last time stamp given to AddTask
    asked          \* history: the timers cancelled while they existed

poolVars == <<queued, busy>>
tickVars == <<timeoutqueue, tpc, time, task>>
vars     == <<now, heap, handle, timetasks, tickVars, poolVars, last, asked>>

Init ==
    /\ now = 0
    /\ heap = [a \in Address |-> Free]
    /\ handle = <<>>
    /\ timetasks = {}
    /\ timeoutqueue = {}
    /\ tpc = "sleep"
    /\ time = 0
    /\ task = Free
    /\ queued = 0
    /\ busy = FALSE
    /\ last = [n \in Timer |-> -1]
    /\ asked = {}

AdvanceClock ==
    /\ now < MaxTime
    /\ now' = now + 1
    /\ UNCHANGED <<heap, handle, timetasks, tickVars, poolVars, last, asked>>

Live(a) == heap[a] # Free

\* A timer that is not restarted has the default of -1ms, or 0ms after the cut.
isAutoReset(t) == t.interval > 0

\* The map orders its keys by When() of the objects they point to: two
\* objects with the same time stamp are one key to it.
SameKey(stamp) == {a \in timetasks : heap[a].stamp = stamp}

\* The tick thread is inside an operation on the map.
InMap == tpc \in {"scan", "expire", "renew"}

(***************************************************************************)
(* The calls                                                               *)
(***************************************************************************)
\* insert() does nothing when the key is there already; a racing one may be
\* lost.  The handle is returned all the same.
addTimer(stamp, interval) ==
    /\ Len(handle) < MaxTimers
    /\ \E a \in Address :
        /\ ~ Live(a)
        /\ heap' = [heap EXCEPT ![a] =
                       [timer |-> Len(handle) + 1, stamp |-> stamp,
                        interval |-> interval, canceled |-> FALSE]]
        /\ handle' = Append(handle, a)
        /\ \/ timetasks' = IF SameKey(stamp) = {} THEN timetasks \cup {a} ELSE timetasks
           \/ Racing /\ InMap /\ UNCHANGED timetasks
    /\ UNCHANGED <<now, tickVars, poolVars, last, asked>>

runAt(when) == addTimer(when, -1)

runAfter(duration) == addTimer(now + duration, -1)

\* The interval is cut to whole milliseconds, the first time stamp is not.
runEvery(duration) ==
    addTimer(now + duration, Millisecond * (duration \div Millisecond))

\* The timer the handle was made for is still there.
Exists(n) == Live(handle[n]) /\ heap[handle[n]].timer = n

\* What find() may return for a handle: the entry with the time stamp of the
\* object, any entry when the memory has been freed, none in a race.
Found(a) ==
    IF Live(a) THEN SameKey(heap[a].stamp) ELSE timetasks

cancelTimer(n) ==
    /\ n <= Len(handle)
    /\ Dangling \/ Exists(n)
    /\ \/ \E a \in Found(handle[n]) : heap' = [heap EXCEPT ![a].canceled = TRUE]
       \/ /\ \/ Found(handle[n]) = {}
             \/ ~ Live(handle[n])
             \/ Racing /\ InMap
          /\ UNCHANGED heap
    /\ asked' = IF Exists(n) THEN asked \cup {n} ELSE asked
    /\ UNCHANGED <<now, handle, timetasks, tickVars, poolVars, last>>

(***************************************************************************)
(* The tick thread                                                         *)
(***************************************************************************)
\* Timer::Start's loop has slept for a tick; handle() reads the clock.
Tick ==
    /\ tpc = "sleep"
    /\ tpc' = "scan"
    /\ time' = now
    /\ UNCHANGED <<now, heap, handle, timetasks, timeoutqueue, task, poolVars, last, asked>>

\* The loop over the map ends at the first timer that has not expired.
Scan ==
    /\ tpc = "scan"
    /\ tpc' = "expire"
    /\ time' = 0
    /\ timeoutqueue' = {a \in timetasks : heap[a].stamp <= time}
    /\ UNCHANGED <<now, heap, handle, timetasks, task, poolVars, last, asked>>

\* The next entry of _timeoutqueue, which is in the order of the map.
Earliest(a) ==
    /\ a \in timeoutqueue
    /\ \A b \in timeoutqueue : heap[a].stamp <= heap[b].stamp

\* Mutant of Expire: the test of isCanceled is the wrong way round.
ExpireInverted ==
    /\ tpc = "expire"
    /\ \E a \in timeoutqueue :
        /\ Earliest(a)
        /\ timeoutqueue' = timeoutqueue \ {a}
        /\ timetasks' = timetasks \ {a}
        /\ IF ~ heap[a].canceled
             THEN heap' = [heap EXCEPT ![a] = Free] /\ UNCHANGED <<task, tpc>>
             ELSE task' = a /\ tpc' = "add" /\ UNCHANGED heap
    /\ UNCHANGED <<now, handle, time, poolVars, last, asked>>

\* Mutant of Expire: a cancelled timer is deleted and not erased.
ExpireNotErased ==
    /\ tpc = "expire"
    /\ \E a \in timeoutqueue :
        /\ Earliest(a)
        /\ timeoutqueue' = timeoutqueue \ {a}
        /\ IF heap[a].canceled
             THEN heap' = [heap EXCEPT ![a] = Free] /\ UNCHANGED <<task, tpc, timetasks>>
             ELSE /\ task' = a /\ tpc' = "add" /\ UNCHANGED heap
                  /\ timetasks' = timetasks \ {a}
    /\ UNCHANGED <<now, handle, time, poolVars, last, asked>>

\* erase() and the test of isCanceled: a call in between finds nothing.
Expire ==
    /\ tpc = "expire"
    /\ \E a \in timeoutqueue :
        /\ Earliest(a)
        /\ timeoutqueue' = timeoutqueue \ {a}
        /\ timetasks' = timetasks \ {a}
        /\ IF heap[a].canceled
             THEN heap' = [heap EXCEPT ![a] = Free] /\ UNCHANGED <<task, tpc>>
             ELSE task' = a /\ tpc' = "add" /\ UNCHANGED heap
    /\ UNCHANGED <<now, handle, time, poolVars, last, asked>>

\* Mutant of Offer: the pool takes one callback too many.
OfferOneMore ==
    /\ tpc = "add"
    /\ ~ busy
    /\ queued' = IF queued <= MaxQueue THEN queued + 1 ELSE queued
    /\ last' = [last EXCEPT ![heap[task].timer] = heap[task].stamp]
    /\ IF isAutoReset(heap[task])
         THEN tpc' = "renew" /\ UNCHANGED <<heap, task>>
         ELSE tpc' = "expire" /\ heap' = [heap EXCEPT ![task] = Free] /\ task' = Free
    /\ UNCHANGED <<now, handle, timetasks, timeoutqueue, time, busy, asked>>

\* AddTask waits for the lock of the pool; that a full pool refuses the
\* callback goes unnoticed.  A timer that is not restarted is deleted.
Offer ==
    /\ tpc = "add"
    /\ ~ busy
    /\ queued' = IF queued < MaxQueue THEN queued + 1 ELSE queued
    /\ last' = [last EXCEPT ![heap[task].timer] = heap[task].stamp]
    /\ IF isAutoReset(heap[task])
         THEN tpc' = "renew" /\ UNCHANGED <<heap, task>>
         ELSE tpc' = "expire" /\ heap' = [heap EXCEPT ![task] = Free] /\ task' = Free
    /\ UNCHANGED <<now, handle, timetasks, timeoutqueue, time, busy, asked>>

\* Mutant of Renew: without updateStamp.
RenewSame ==
    /\ tpc = "renew"
    /\ tpc' = "expire"
    /\ task' = Free
    /\ timetasks' = IF SameKey(heap[task].stamp) = {} THEN timetasks \cup {task} ELSE timetasks
    /\ UNCHANGED <<now, heap, handle, timeoutqueue, time, poolVars, last, asked>>

\* updateStamp and insert(), which does nothing when the key is there already.
Renew ==
    /\ tpc = "renew"
    /\ tpc' = "expire"
    /\ task' = Free
    /\ LET stamp == heap[task].stamp + heap[task].interval
       IN  /\ heap' = [heap EXCEPT ![task].stamp = stamp]
           /\ timetasks' = IF SameKey(stamp) = {} THEN timetasks \cup {task} ELSE timetasks
    /\ UNCHANGED <<now, handle, timeoutqueue, time, poolVars, last, asked>>

HandleReturns ==
    /\ tpc = "expire"
    /\ timeoutqueue = {}
    /\ tpc' = "sleep"
    /\ UNCHANGED <<now, heap, handle, timetasks, timeoutqueue, time, task, poolVars, last, asked>>

(***************************************************************************)
(* The pool, as ThreadPool has it: one callback at a time, under its lock  *)
(***************************************************************************)
StartCallback ==
    /\ ~ busy
    /\ queued > 0
    /\ busy' = TRUE
    /\ UNCHANGED <<now, heap, handle, timetasks, tickVars, queued, last, asked>>

\* Mutant of CallbackReturns: the callback makes a call that takes _lock.
CallbackReturnsLocked ==
    /\ tpc = "sleep"
    /\ busy
    /\ busy' = FALSE
    /\ queued' = queued - 1
    /\ UNCHANGED <<now, heap, handle, timetasks, tickVars, last, asked>>

CallbackReturns ==
    /\ busy
    /\ busy' = FALSE
    /\ queued' = queued - 1
    /\ UNCHANGED <<now, heap, handle, timetasks, tickVars, last, asked>>

(***************************************************************************)
(* The specification                                                       *)
(***************************************************************************)
Call ==
    \/ \E when \in Times : runAt(when)
    \/ \E duration \in Durations : runAfter(duration) \/ runEvery(duration)
    \/ \E n \in Timer : cancelTimer(n)

TickStep == Tick \/ Scan \/ Expire \/ Offer \/ Renew \/ HandleReturns

Next == AdvanceClock \/ Call \/ TickStep \/ StartCallback \/ CallbackReturns

Spec == Init /\ [][Next]_vars

\* The clock and the tick thread go on and callbacks return.  The pool need
\* not start a callback (ThreadPool can miss a wakeup); nobody has to call.
Fairness == WF_vars(AdvanceClock) /\ WF_vars(TickStep) /\ WF_vars(CallbackReturns)

FairSpec == Spec /\ Fairness

(***************************************************************************)
(* Properties                                                              *)
(***************************************************************************)
\* The type invariant; the pool never holds more than its queue admits.
TypeOK ==
    /\ now \in Nat
    /\ heap \in [Address -> TimeTask \cup {Free}]
    /\ handle \in Seq(Address)
    /\ Len(handle) <= MaxTimers
    /\ timetasks \subseteq Address
    /\ timeoutqueue \subseteq Address
    /\ tpc \in {"sleep", "scan", "expire", "add", "renew"}
    /\ time \in Nat
    /\ task \in Address \cup {Free}
    /\ queued \in 0 .. MaxQueue
    /\ busy \in BOOLEAN
    /\ last \in [Timer -> Nat \cup {-1}]
    /\ asked \subseteq Timer

\* The map is a map: every key points to a live object, no two have the same
\* time stamp (so updateStamp must not touch an object that is in it), what is
\* left of _timeoutqueue is still in it when handle() comes to erase it,
\* whatever was called meanwhile, and the task in hand is live and out of it.
MapKept ==
    /\ \A a \in timetasks : Live(a)
    /\ \A a, b \in timetasks : heap[a].stamp = heap[b].stamp => a = b
    /\ timeoutqueue \subseteq timetasks
    /\ tpc \in {"sleep", "scan"} => timeoutqueue = {}
    /\ tpc \in {"add", "renew"} =>
          task # Free /\ Live(task) /\ task \notin timetasks

\* A callback is given to the pool never before its time, and never twice for
\* one time stamp: a timer that waits, or is about to be given to the pool, has
\* a later time stamp than it ever had when it was given, however ticks, calls
\* and a slow pool fall.
OncePerPeriod ==
    /\ tpc = "add" => heap[task].stamp <= now
    /\ \A a \in timetasks \cup {task} :
          (a = task => tpc = "add") => last[heap[a].timer] < heap[a].stamp

\* A timer in the map whose time comes is given to the pool, unless it is
\* cancelled: callbacks that block the pool and new timers do not prevent it.
DueIsOffered ==
    \A n \in Timer, stamp \in 0 .. MaxTime :
        (\E a \in timetasks : heap[a].timer = n /\ heap[a].stamp = stamp)
            ~> \/ last[n] >= stamp
               \/ \E a \in Address : Live(a) /\ heap[a].timer = n /\ heap[a].canceled

\* handle() ends although AddTask, with _lock held, waits for callbacks, which
\* may call the timer queue: the calls take no lock.
HandleEnds == tpc # "sleep" ~> tpc = "sleep"

\* TimerQueue.h says of cancelTimer that it finds the timer and pops it: a
\* timer cancelled while it existed is not waiting for a next time.
CancelHolds ==
    \A a \in timetasks : heap[a].timer \in asked => heap[a].canceled
=============================================================================
