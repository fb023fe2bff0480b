-------------------------- MODULE TimerQueueProofs --------------------------
(***************************************************************************)
(* TimerQueue for every number of timers, addresses, periods and queue     *)
(* lengths, with stale handles and calls that race handle().               *)
(***************************************************************************)
EXTENDS TimerQueue, SequenceTheorems, TLAPS

\* Every live object belongs to one call of addTimer, and a call not yet made
\* has had nothing given to the pool.
OneObject ==
    /\ \A a \in Address : Live(a) => heap[a].timer <= Len(handle)
    /\ \A a, b \in Address :
          Live(a) /\ Live(b) /\ heap[a].timer = heap[b].timer => a = b
    /\ \A n \in Timer : n > Len(handle) => last[n] = -1

\* What handle() has taken for expired has expired, and a timer on its way back
\* into the map has a positive interval and was given to the pool last with
\* the time stamp it still has.
Expired ==
    /\ time <= now
    /\ \A a \in timeoutqueue : heap[a].stamp <= now
    /\ tpc = "renew" =>
          /\ isAutoReset(heap[task])
          /\ last[heap[task].timer] <= heap[task].stamp

\* There is a task in hand only between the erase and the insert, and a callback
\* that runs is still in the queue of the pool.
InHand ==
    /\ tpc \notin {"add", "renew"} => task = Free
    /\ busy => queued > 0

Inductive == TypeOK /\ MapKept /\ OneObject /\ Expired /\ InHand /\ OncePerPeriod

\* The map is empty and no timer exists at the start.
LEMMA InductiveInit == Init => Inductive
<1> SUFFICES ASSUME Init PROVE Inductive
  OBVIOUS
<1> USE TimerAssumption DEF Init
<1>1. TypeOK
  <2>1. handle \in Seq(Address) /\ Len(handle) <= MaxTimers
    OBVIOUS
  <2>2. heap \in [Address -> TimeTask \cup {Free}]
    OBVIOUS
  <2>3. last \in [Timer -> Nat \cup {-1}]
    OBVIOUS
  <2>4. queued \in 0 .. MaxQueue
    OBVIOUS
  <2> QED
    BY <2>1, <2>2, <2>3, <2>4 DEF TypeOK
<1>2. MapKept /\ OneObject /\ Expired /\ InHand /\ OncePerPeriod
  BY DEF MapKept, OneObject, Expired, InHand, OncePerPeriod, Live
<1> QED
  BY <1>1, <1>2 DEF Inductive

\* A new object is put at an address that nothing refers to.
LEMMA AddStep ==
  ASSUME Inductive, NEW stamp \in Nat, NEW interval \in Int, addTimer(stamp, interval)
  PROVE  Inductive'
<1> USE TimerAssumption DEF Inductive
<1> DEFINE n == Len(handle) + 1
           object == [timer |-> n, stamp |-> stamp,
                      interval |-> interval, canceled |-> FALSE]
<1>1. PICK a \in Address :
        /\ ~ Live(a)
        /\ heap' = [heap EXCEPT ![a] = object]
        /\ handle' = Append(handle, a)
        /\ \/ timetasks' = IF SameKey(stamp) = {} THEN timetasks \cup {a} ELSE timetasks
           \/ UNCHANGED timetasks
  BY DEF addTimer
<1>2. /\ UNCHANGED <<now, timeoutqueue, tpc, time, task, queued, busy, last, asked>>
      /\ Len(handle) < MaxTimers
  BY DEF addTimer, tickVars, poolVars
<1>3. n \in Timer /\ handle' \in Seq(Address) /\ Len(handle') = n
  BY <1>1, <1>2 DEF TypeOK, Timer
<1>4. object \in TimeTask
  BY <1>3 DEF TimeTask
<1> HIDE DEF n, object
<1>5. heap' \in [Address -> TimeTask \cup {Free}]
  BY <1>1, <1>4 DEF TypeOK
<1>6. TypeOK'
  BY <1>1, <1>2, <1>3, <1>5 DEF TypeOK, Timer
<1>7. /\ heap'[a] = object
      /\ \A b \in Address : b # a => heap'[b] = heap[b]
  BY <1>1 DEF TypeOK
<1>8. object # Free /\ object.timer = n /\ object.stamp = stamp
  BY <1>4 DEF object
<1>9. /\ \A b \in Address : Live(b)' <=> (b = a \/ Live(b))
      /\ a \notin timetasks /\ a \notin timeoutqueue
      /\ tpc \in {"add", "renew"} => a # task
  BY <1>1, <1>7, <1>8 DEF Live, MapKept
<1>10. \/ timetasks' = timetasks
       \/ timetasks' = timetasks \cup {a} /\ \A b \in timetasks : heap[b].stamp # stamp
  BY <1>1 DEF SameKey
<1>11. MapKept'
  <2>1. \A b \in timetasks' : Live(b)'
    BY <1>9, <1>10 DEF MapKept, TypeOK
  <2>2. \A b, c \in timetasks' : heap'[b].stamp = heap'[c].stamp => b = c
    BY <1>7, <1>8, <1>9, <1>10 DEF MapKept, TypeOK
  <2>3. timeoutqueue' \subseteq timetasks'
    BY <1>2, <1>10 DEF MapKept
  <2>4. tpc' \in {"add", "renew"} => task' # Free /\ Live(task)' /\ task' \notin timetasks'
    BY <1>2, <1>9, <1>10 DEF MapKept, TypeOK
  <2> QED
    BY <1>2, <2>1, <2>2, <2>3, <2>4 DEF MapKept
<1>12. OneObject'
  <2>1. \A b \in Address : Live(b) => heap[b].timer < n
    BY <1>3 DEF OneObject, n, TypeOK, Live, TimeTask, Timer
  <2>2. \A b \in Address : Live(b)' => heap'[b].timer <= n
    BY <1>3, <1>7, <1>8, <1>9, <2>1 DEF Timer, TypeOK, Live, TimeTask
  <2>3. \A b, c \in Address :
           Live(b)' /\ Live(c)' /\ heap'[b].timer = heap'[c].timer => b = c
    BY <1>3, <1>7, <1>8, <1>9, <2>1 DEF OneObject, Timer
  <2>4. \A m \in Timer : m > n => last'[m] = -1
    BY <1>2, <1>3 DEF OneObject, n, Timer, TypeOK
  <2> QED
    BY <1>3, <2>2, <2>3, <2>4 DEF OneObject
<1>13. Expired'
  BY <1>2, <1>7, <1>9 DEF Expired, TypeOK, MapKept
<1>14. OncePerPeriod'
  <2>1. last[n] = -1
    BY <1>3 DEF OneObject, n, Timer, TypeOK
  <2>2. tpc' = "add" => heap'[task'].stamp <= now'
    BY <1>2, <1>7, <1>9 DEF OncePerPeriod, MapKept, TypeOK
  <2>3. ASSUME NEW b \in timetasks' \cup {task'}, b = task' => tpc' = "add"
        PROVE  last'[heap'[b].timer] < heap'[b].stamp
    <3>1. CASE b = a
      BY <1>2, <1>7, <1>8, <2>1, <3>1
    <3>2. CASE b # a
      <4>1. b \in Address /\ b \in timetasks \cup {task}
        BY <1>2, <1>10, <2>3, <3>2 DEF TypeOK, MapKept
      <4> QED
        BY <1>2, <1>7, <2>3, <3>2, <4>1 DEF OncePerPeriod
    <3> QED
      BY <3>1, <3>2
  <2> QED
    BY <2>2, <2>3 DEF OncePerPeriod
<1>15. InHand'
  BY <1>2 DEF InHand
<1> QED
  BY <1>6, <1>11, <1>12, <1>13, <1>14, <1>15

\* A cancellation marks an object and changes nothing the invariant reads.
LEMMA CancelStep ==
  ASSUME Inductive, NEW n \in Timer, cancelTimer(n)
  PROVE  Inductive'
<1> USE TimerAssumption DEF Inductive
<1>1. UNCHANGED <<now, handle, timetasks, timeoutqueue, tpc, time, task, queued, busy, last>>
  BY DEF cancelTimer, tickVars, poolVars
<1>2. asked' \subseteq Timer
  BY DEF cancelTimer, TypeOK
<1>3. /\ heap' \in [Address -> TimeTask \cup {Free}]
      /\ \A a \in Address :
            /\ Live(a)' <=> Live(a)
            /\ Live(a) => /\ heap'[a].timer = heap[a].timer
                          /\ heap'[a].stamp = heap[a].stamp
                          /\ heap'[a].interval = heap[a].interval
  <2>1. CASE \E a \in Found(handle[n]) : heap' = [heap EXCEPT ![a].canceled = TRUE]
    <3>1. PICK a \in Found(handle[n]) : heap' = [heap EXCEPT ![a].canceled = TRUE]
      BY <2>1
    <3>2. a \in Address /\ heap[a] \in TimeTask
      BY DEF Found, SameKey, MapKept, Live, TypeOK
    <3>3. [heap[a] EXCEPT !.canceled = TRUE] \in TimeTask
      BY <3>2 DEF TimeTask
    <3>4. /\ heap' \in [Address -> TimeTask \cup {Free}]
          /\ heap'[a] = [heap[a] EXCEPT !.canceled = TRUE]
          /\ \A b \in Address : b # a => heap'[b] = heap[b]
      BY <3>1, <3>2, <3>3 DEF TypeOK
    <3>5. /\ heap'[a].timer = heap[a].timer
          /\ heap'[a].stamp = heap[a].stamp
          /\ heap'[a].interval = heap[a].interval
      BY <3>2, <3>4 DEF TimeTask
    <3> QED
      BY <3>2, <3>3, <3>4, <3>5 DEF Live
  <2>2. CASE UNCHANGED heap
    BY <2>2 DEF TypeOK, Live
  <2> QED
    BY <2>1, <2>2 DEF cancelTimer
<1>4. TypeOK'
  BY <1>1, <1>2, <1>3 DEF TypeOK
<1>5. MapKept'
  BY <1>1, <1>3 DEF MapKept, TypeOK
<1>6. OneObject'
  BY <1>1, <1>3 DEF OneObject
<1>7. Expired'
  <2>1. timeoutqueue \subseteq Address /\ \A a \in timeoutqueue : Live(a)
    BY DEF MapKept, TypeOK
  <2>2. tpc = "renew" => task \in Address /\ Live(task)
    BY DEF MapKept, TypeOK
  <2> QED
    BY <1>1, <1>3, <2>1, <2>2 DEF Expired, isAutoReset
<1>8. OncePerPeriod'
  <2>1. timetasks \subseteq Address /\ \A a \in timetasks : Live(a)
    BY DEF MapKept, TypeOK
  <2>2. tpc = "add" => task \in Address /\ Live(task)
    BY DEF MapKept, TypeOK
  <2> QED
    BY <1>1, <1>3, <2>1, <2>2 DEF OncePerPeriod
<1>9. InHand'
  BY <1>1 DEF InHand
<1> QED
  BY <1>4, <1>5, <1>6, <1>7, <1>8, <1>9

\* What leaves the map is out of reach of the calls; it had expired.
LEMMA ExpireStep == ASSUME Inductive, Expire PROVE Inductive'
<1> USE TimerAssumption DEF Inductive
<1>1. /\ tpc = "expire"
      /\ UNCHANGED <<now, handle, time, queued, busy, last, asked>>
  BY DEF Expire, poolVars
<1>2. PICK a \in timeoutqueue :
        /\ timeoutqueue' = timeoutqueue \ {a}
        /\ timetasks' = timetasks \ {a}
        /\ IF heap[a].canceled
             THEN heap' = [heap EXCEPT ![a] = Free] /\ UNCHANGED <<task, tpc>>
             ELSE task' = a /\ tpc' = "add" /\ UNCHANGED heap
  BY DEF Expire
<1>3. /\ a \in Address /\ a \in timetasks /\ Live(a) /\ a # Free
      /\ heap[a].stamp <= now
      /\ last[heap[a].timer] < heap[a].stamp
  BY <1>1 DEF MapKept, TypeOK, Expired, InHand, OncePerPeriod
<1>4. CASE heap[a].canceled
  <2>1. /\ heap' = [heap EXCEPT ![a] = Free]
        /\ UNCHANGED <<task, tpc>>
    BY <1>2, <1>4
  <2>2. /\ heap' \in [Address -> TimeTask \cup {Free}]
        /\ \A b \in Address : b # a => heap'[b] = heap[b]
        /\ heap'[a] = Free
    BY <1>3, <2>1 DEF TypeOK
  <2>3. \A b \in Address : Live(b)' <=> (b # a /\ Live(b))
    BY <2>2 DEF Live
  <2>4. TypeOK'
    BY <1>1, <1>2, <2>1, <2>2 DEF TypeOK
  <2>5. MapKept'
    BY <1>1, <1>2, <2>1, <2>2, <2>3 DEF MapKept, TypeOK
  <2>6. OneObject'
    BY <1>1, <2>2, <2>3 DEF OneObject
  <2>7. Expired'
    BY <1>1, <1>2, <2>1, <2>2 DEF Expired, TypeOK
  <2>8. OncePerPeriod'
    BY <1>1, <1>2, <2>1, <2>2 DEF OncePerPeriod, TypeOK
  <2>9. InHand'
    BY <1>1, <2>1 DEF InHand
  <2> QED
    BY <2>4, <2>5, <2>6, <2>7, <2>8, <2>9
<1>5. CASE ~ heap[a].canceled
  <2>1. task' = a /\ tpc' = "add" /\ UNCHANGED heap
    BY <1>2, <1>5
  <2>2. TypeOK'
    BY <1>1, <1>2, <1>3, <2>1 DEF TypeOK
  <2>3. MapKept'
    BY <1>1, <1>2, <1>3, <2>1 DEF MapKept, Live
  <2>4. OneObject'
    BY <1>1, <2>1 DEF OneObject, Live
  <2>5. Expired'
    BY <1>1, <1>2, <2>1 DEF Expired
  <2>6. OncePerPeriod'
    BY <1>1, <1>2, <1>3, <2>1 DEF OncePerPeriod, InHand, TypeOK
  <2>7. InHand'
    BY <1>1, <2>1 DEF InHand
  <2> QED
    BY <2>2, <2>3, <2>4, <2>5, <2>6, <2>7
<1> QED
  BY <1>4, <1>5

\* The time stamp given to the pool becomes the last one of the timer, which
\* is in no other object; the task in hand is not in the map.
LEMMA OfferStep == ASSUME Inductive, Offer PROVE Inductive'
<1> USE TimerAssumption DEF Inductive
<1>1. /\ tpc = "add" /\ tpc' \in {"renew", "expire"}
      /\ UNCHANGED <<now, handle, timetasks, timeoutqueue, time, busy, asked>>
      /\ queued' = IF queued < MaxQueue THEN queued + 1 ELSE queued
      /\ last' = [last EXCEPT ![heap[task].timer] = heap[task].stamp]
  BY DEF Offer
<1>2. /\ task \in Address /\ Live(task) /\ task \notin timetasks
      /\ heap[task] \in TimeTask
  BY <1>1 DEF MapKept, TypeOK, Live
<1>3. heap[task].timer \in Timer /\ heap[task].stamp \in Nat
  BY <1>2 DEF TimeTask
<1>4. /\ last' \in [Timer -> Nat \cup {-1}]
      /\ last'[heap[task].timer] = heap[task].stamp
      /\ \A n \in Timer : n # heap[task].timer => last'[n] = last[n]
  BY <1>1, <1>3 DEF TypeOK
<1>5. queued' \in 0 .. MaxQueue
  BY <1>1 DEF TypeOK
<1>6. \A a \in timetasks : /\ a \in Address /\ Live(a)
                           /\ heap[a].timer \in Timer
                           /\ heap[a].timer # heap[task].timer
  BY <1>2 DEF MapKept, OneObject, TypeOK, Live, TimeTask
<1>7. heap[task].timer <= Len(handle)
  BY <1>2 DEF OneObject
<1>8. \A n \in Timer : n > Len(handle) => last'[n] = -1
  BY <1>3, <1>4, <1>7 DEF OneObject, TypeOK, Timer
<1>9. busy' => queued' > 0
  BY <1>1, <1>5 DEF Offer
<1>10. CASE isAutoReset(heap[task])
  <2>1. tpc' = "renew" /\ UNCHANGED <<heap, task>>
    BY <1>10 DEF Offer
  <2>2. TypeOK'
    BY <1>1, <1>4, <1>5, <2>1 DEF TypeOK
  <2>3. MapKept'
    BY <1>1, <2>1 DEF MapKept, Live
  <2>4. OneObject'
    BY <1>1, <1>8, <2>1 DEF OneObject, Live
  <2>5. Expired'
    BY <1>1, <1>3, <1>4, <1>10, <2>1 DEF Expired
  <2>6. OncePerPeriod'
    BY <1>1, <1>2, <1>4, <1>6, <2>1 DEF OncePerPeriod
  <2>7. InHand'
    BY <1>9, <2>1 DEF InHand
  <2> QED
    BY <2>2, <2>3, <2>4, <2>5, <2>6, <2>7
<1>11. CASE ~ isAutoReset(heap[task])
  <2>1. tpc' = "expire" /\ heap' = [heap EXCEPT ![task] = Free] /\ task' = Free
    BY <1>11 DEF Offer
  <2>2. /\ heap' \in [Address -> TimeTask \cup {Free}]
        /\ \A a \in Address : a # task => heap'[a] = heap[a]
        /\ heap'[task] = Free
    BY <1>2, <2>1 DEF TypeOK
  <2>3. \A a \in Address : Live(a)' <=> (a # task /\ Live(a))
    BY <2>2 DEF Live
  <2>4. TypeOK'
    BY <1>1, <1>4, <1>5, <2>1, <2>2 DEF TypeOK
  <2>5. MapKept'
    BY <1>1, <1>2, <1>6, <2>1, <2>2, <2>3 DEF MapKept
  <2>6. OneObject'
    BY <1>1, <1>8, <2>2, <2>3 DEF OneObject
  <2>7. Expired'
    BY <1>1, <1>2, <2>1, <2>2 DEF Expired, MapKept, TypeOK
  <2>8. OncePerPeriod'
    BY <1>1, <1>2, <1>4, <1>6, <2>1, <2>2 DEF OncePerPeriod
  <2>9. InHand'
    BY <1>9, <2>1 DEF InHand
  <2> QED
    BY <2>4, <2>5, <2>6, <2>7, <2>8, <2>9
<1> QED
  BY <1>10, <1>11

\* The task goes back with a later time stamp, if no other has it.
LEMMA RenewStep == ASSUME Inductive, Renew PROVE Inductive'
<1> USE TimerAssumption DEF Inductive
<1> DEFINE stamp == heap[task].stamp + heap[task].interval
<1>1. /\ tpc = "renew" /\ tpc' = "expire" /\ task' = Free
      /\ heap' = [heap EXCEPT ![task].stamp = stamp]
      /\ \/ timetasks' = timetasks
         \/ /\ timetasks' = timetasks \cup {task}
            /\ \A a \in timetasks : heap[a].stamp # stamp
      /\ UNCHANGED <<now, handle, timeoutqueue, time, queued, busy, last, asked>>
  BY DEF Renew, SameKey, poolVars
<1>2. /\ task \in Address /\ Live(task) /\ task \notin timetasks
      /\ heap[task] \in TimeTask
  BY <1>1 DEF MapKept, TypeOK, Live
<1>3. /\ stamp \in Nat
      /\ last[heap[task].timer] < stamp
  BY <1>1, <1>2 DEF Expired, isAutoReset, TimeTask, TypeOK
<1> HIDE DEF stamp
<1>4. [heap[task] EXCEPT !.stamp = stamp] \in TimeTask
  BY <1>2, <1>3 DEF TimeTask
<1>5. /\ heap' \in [Address -> TimeTask \cup {Free}]
      /\ heap'[task] = [heap[task] EXCEPT !.stamp = stamp]
      /\ \A a \in Address : a # task => heap'[a] = heap[a]
  BY <1>1, <1>2, <1>4 DEF TypeOK
<1>6. /\ heap'[task].timer = heap[task].timer
      /\ heap'[task].stamp = stamp
      /\ heap'[task] \in TimeTask
  BY <1>2, <1>4, <1>5 DEF TimeTask
<1>7. \A a \in Address : Live(a)' <=> Live(a)
  BY <1>2, <1>5, <1>6 DEF Live
<1>8. TypeOK'
  BY <1>1, <1>2, <1>5 DEF TypeOK
<1>9. MapKept'
  <2>1. \A a \in timetasks' : Live(a)'
    BY <1>1, <1>2, <1>7 DEF MapKept, TypeOK
  <2>2. \A a, b \in timetasks' : heap'[a].stamp = heap'[b].stamp => a = b
    BY <1>1, <1>2, <1>5, <1>6 DEF MapKept, TypeOK
  <2> QED
    BY <1>1, <2>1, <2>2 DEF MapKept
<1>10. OneObject'
  BY <1>1, <1>5, <1>6, <1>7 DEF OneObject
<1>11. Expired'
  BY <1>1, <1>2, <1>5 DEF Expired, MapKept, TypeOK
<1>12. OncePerPeriod'
  <2>1. ASSUME NEW a \in timetasks'
        PROVE  last[heap'[a].timer] < heap'[a].stamp
    <3>1. CASE a = task
      BY <1>3, <1>6, <3>1
    <3>2. CASE a # task
      BY <1>1, <1>5, <2>1, <3>2 DEF OncePerPeriod, TypeOK
    <3> QED
      BY <3>1, <3>2
  <2> QED
    BY <1>1, <2>1 DEF OncePerPeriod
<1>13. InHand'
  BY <1>1 DEF InHand
<1> QED
  BY <1>8, <1>9, <1>10, <1>11, <1>12, <1>13

\* The inductive step, action by action.
LEMMA InductiveStep == Inductive /\ [Next]_vars => Inductive'
<1> SUFFICES ASSUME Inductive, [Next]_vars PROVE Inductive'
  OBVIOUS
<1> USE TimerAssumption
<1>1. CASE AdvanceClock
  <2>1. /\ now' = now + 1
        /\ UNCHANGED <<heap, handle, timetasks, timeoutqueue, tpc, time, task,
                       queued, busy, last, asked>>
    BY <1>1 DEF AdvanceClock, tickVars, poolVars
  <2>2. TypeOK' /\ MapKept' /\ OneObject' /\ InHand'
    BY <2>1 DEF Inductive, TypeOK, MapKept, OneObject, InHand, Live
  <2>3. \A a \in timeoutqueue : heap[a].stamp \in Nat
    BY DEF Inductive, TypeOK, MapKept, Live, TimeTask
  <2>4. tpc = "add" => heap[task].stamp \in Nat
    BY DEF Inductive, TypeOK, MapKept, Live, TimeTask
  <2>5. Expired' /\ OncePerPeriod'
    BY <2>1, <2>3, <2>4 DEF Inductive, TypeOK, Expired, OncePerPeriod
  <2> QED
    BY <2>2, <2>5 DEF Inductive
<1>2. CASE Call
  <2>1. now \in Nat
    BY DEF Inductive, TypeOK
  <2>2. ASSUME NEW when \in Times, runAt(when) PROVE Inductive'
    BY <2>2, AddStep DEF runAt
  <2>3. ASSUME NEW duration \in Durations, runAfter(duration) PROVE Inductive'
    BY <2>1, <2>3, AddStep DEF runAfter
  <2>4. ASSUME NEW duration \in Durations, runEvery(duration) PROVE Inductive'
    <3>1. now + duration \in Nat /\ Millisecond * (duration \div Millisecond) \in Int
      BY <2>1
    <3> QED
      BY <2>4, <3>1, AddStep DEF runEvery
  <2>5. ASSUME NEW n \in Timer, cancelTimer(n) PROVE Inductive'
    BY <2>5, CancelStep
  <2> QED
    BY <1>2, <2>2, <2>3, <2>4, <2>5 DEF Call
<1>3. CASE Tick
  BY <1>3 DEF Tick, poolVars, Inductive, TypeOK, MapKept, OneObject, Expired, InHand,
              OncePerPeriod, Live
<1>4. CASE Scan
  <2>1. /\ tpc = "scan" /\ tpc' = "expire" /\ time' = 0
        /\ timeoutqueue' = {a \in timetasks : heap[a].stamp <= time}
        /\ UNCHANGED <<now, heap, handle, timetasks, task, queued, busy, last, asked>>
    BY <1>4 DEF Scan, poolVars
  <2>2. \A a \in timetasks : heap[a].stamp \in Nat
    BY DEF Inductive, TypeOK, MapKept, Live, TimeTask
  <2>3. TypeOK' /\ MapKept' /\ OneObject' /\ InHand'
    BY <2>1 DEF Inductive, TypeOK, MapKept, OneObject, InHand, Live
  <2>4. Expired'
    BY <2>1, <2>2 DEF Inductive, TypeOK, Expired
  <2>5. OncePerPeriod'
    BY <2>1 DEF Inductive, OncePerPeriod
  <2> QED
    BY <2>3, <2>4, <2>5 DEF Inductive
<1>5. CASE Expire BY <1>5, ExpireStep
<1>6. CASE Offer BY <1>6, OfferStep
<1>7. CASE Renew BY <1>7, RenewStep
<1>8. CASE HandleReturns
  BY <1>8 DEF HandleReturns, poolVars, Inductive, TypeOK, MapKept, OneObject, Expired, InHand,
              OncePerPeriod, Live
<1>9. CASE StartCallback
  BY <1>9 DEF StartCallback, tickVars, Inductive, TypeOK, MapKept, OneObject, Expired, InHand,
              OncePerPeriod, Live
<1>10. CASE CallbackReturns
  <2>1. /\ busy /\ busy' = FALSE /\ queued' = queued - 1
        /\ UNCHANGED <<now, heap, handle, timetasks, timeoutqueue, tpc, time, task,
                       last, asked>>
    BY <1>10 DEF CallbackReturns, tickVars
  <2>2. queued' \in 0 .. MaxQueue
    BY <2>1 DEF Inductive, InHand, TypeOK
  <2>3. TypeOK'
    BY <2>1, <2>2 DEF Inductive, TypeOK
  <2>4. MapKept' /\ OneObject' /\ Expired' /\ InHand' /\ OncePerPeriod'
    BY <2>1 DEF Inductive, MapKept, OneObject, Expired, InHand, OncePerPeriod, Live
  <2> QED
    BY <2>3, <2>4 DEF Inductive
<1>11. CASE UNCHANGED vars
  BY <1>11 DEF vars, tickVars, poolVars, Inductive, TypeOK, MapKept, OneObject, Expired, InHand,
               OncePerPeriod, Live
<1> QED
  BY <1>1, <1>2, <1>3, <1>4, <1>5, <1>6, <1>7, <1>8, <1>9, <1>10, <1>11 DEF Next, TickStep

\* What addTimer, cancelTimer and handle() keep together, in every reachable state.
THEOREM InductiveHolds == Spec => []Inductive
BY InductiveInit, InductiveStep, PTL DEF Spec

\* Every variable keeps its type, whatever the callers do.
THEOREM TimerTypeCorrect == Spec => []TypeOK
<1>1. Inductive => TypeOK
  BY DEF Inductive
<1> QED
  BY <1>1, InductiveHolds, PTL

\* handle() finds in the map what it collected there and never meets a deleted
\* object, for any number of timers, although the calls take no lock.
THEOREM MapIntact == Spec => []MapKept
<1>1. Inductive => MapKept
  BY DEF Inductive
<1> QED
  BY <1>1, InductiveHolds, PTL

\* No timer is given to the pool early, or twice for one time stamp.
THEOREM NeverTwice == Spec => []OncePerPeriod
<1>1. Inductive => OncePerPeriod
  BY DEF Inductive
<1> QED
  BY <1>1, InductiveHolds, PTL
=============================================================================
