-------------------------- MODULE TcpServerProofs ---------------------------
(***************************************************************************)
(* The start and the destructor of TcpServer for every number of threads,  *)
(* callers of start(), clients and failed accepts, with or without         *)
(* spurious wakeups, and whenever after the start the server is destroyed. *)
(***************************************************************************)
EXTENDS TcpServer, FiniteSetTheorems, TLAPS

(***************************************************************************)
(* The invariant                                                           *)
(***************************************************************************)
SubPlaces == {"none", "born", "notify", "init", "enter", "loop", "left", "unwind", "done"}

BasePlaces == {"setup", "loop", "stopped", "destroyed"} \cup Starting \cup Stopping

\* The part of TypeOK that the start and the destructor work on.
Shape ==
    /\ state \in BOOLEAN
    /\ threadnums \in 1 .. MaxThreads
    /\ cpc \in [Callers -> {"idle", "won", "done"}]
    /\ pending \in Nat
    /\ bpc \in BasePlaces /\ back \in {"setup", "loop"}
    /\ idx \in Nat \ {0}
    /\ threads \subseteq Subs
    /\ loops \in [Subs -> BOOLEAN]
    /\ spc \in [Subs -> SubPlaces]
    /\ created \in [Subs -> Nat]
    /\ sleeping \in [Subs -> BOOLEAN]

\* A thread that does not exist, and one that startInLoop is done with.
Absent(i) == created[i] = 0 /\ spc[i] = "none" /\ i \notin threads

Started(i) == created[i] = 1 /\ spc[i] \notin {"none", "born"} /\ i \in threads

Won(c) == cpc[c] = "won"

\* One start() is let through: as long as its task has not begun, nobody else's
\* has, no thread exists, and there is one caller or one task, not both.
OneStart ==
    /\ ~state \/ pending > 0 \/ (\E c \in Callers : Won(c))
          => bpc \notin Starting /\ \A i \in Subs : Absent(i)
    /\ pending > 0 => state /\ pending = 1 /\ \A c \in Callers : ~Won(c)
    /\ \A c \in Callers : Won(c) => state /\ \A d \in Callers : Won(d) => c = d

\* Where startInLoop has got to.
Progress ==
    /\ bpc = "listen" => \A i \in Subs : Absent(i)
    /\ bpc \in Starting \ {"listen"} =>
          \A i \in Subs : (i < idx => Started(i)) /\ (i > idx => Absent(i))
    /\ bpc = "create" => \A i \in Subs : i = idx => Absent(i)
    /\ bpc \in {"test", "wait", "blocked", "emplace"} =>
          idx \in Subs /\ created[idx] = 1 /\ spc[idx] # "none"
    /\ bpc = "emplace" => spc[idx] # "born"
    /\ bpc \notin Starting => \A i \in Subs : Absent(i) \/ Started(i)

\* An entry of _loops is set while its thread is in runInThread, and only a
\* thread that was put to sleep leaves its loop.
Entries ==
    \A i \in Subs :
        /\ loops[i] => spc[i] \in {"notify", "init", "enter", "loop", "left"}
        /\ spc[i] \in {"left", "unwind", "done"} => sleeping[i]

\* Where the destructor has got to: it has put no loop to sleep before its turn.
Asked ==
    /\ \A i \in Subs : sleeping[i] =>
          /\ bpc \in Stopping \cup {"destroyed"}
          /\ bpc \in {"entry", "store"} => i < idx
          /\ bpc = "wake" => i <= idx
    /\ bpc = "store" => idx \in Subs /\ loops[idx]
    /\ bpc \in {"members", "destroyed"} => \A i \in Subs : spc[i] \in {"none", "done"}

ServerInv == Shape /\ OneStart /\ Progress /\ Entries /\ Asked

invVars == <<state, threadnums, cpc, pending, bpc, back, idx, threads, loops, spc,
             created, sleeping>>

\* Steps of the clients, of the loops and of the condition variable.
LEMMA Elsewhere ==
  ASSUME ServerInv, UNCHANGED invVars
  PROVE  ServerInv'
BY DEF ServerInv, Shape, OneStart, Won, Absent, Started, Progress, Entries, Asked, invVars

(***************************************************************************)
(* start()                                                                 *)
(***************************************************************************)
\* The exchange of _state lets one caller through.
LEMMA CallerSteps ==
  ASSUME ServerInv, NEW c \in Callers, Exchange(c) \/ QueueStart(c)
  PROVE  ServerInv'
<1>0. /\ UNCHANGED <<threadnums, bpc, back, idx, threads, loops, spc, created, sleeping>>
      /\ cpc \in [Callers -> {"idle", "won", "done"}] /\ pending \in Nat /\ state \in BOOLEAN
  BY DEF Exchange, QueueStart, baseVars, subVars, ServerInv, Shape
<1>1. CASE Exchange(c)
  <2>1. /\ state' = TRUE /\ pending' = pending /\ cpc[c] = "idle"
        /\ cpc' = [cpc EXCEPT ![c] = IF state THEN "done" ELSE "won"]
    BY <1>1 DEF Exchange
  <2>2. Shape'
    BY <1>0, <2>1 DEF ServerInv, Shape
  <2>3. OneStart'
    BY <1>0, <2>1 DEF ServerInv, OneStart, Won, Absent
  <2> QED
    BY <1>0, <2>2, <2>3 DEF ServerInv, Progress, Absent, Started, Entries, Asked
<1>2. CASE QueueStart(c)
  <2>1. /\ state' = state /\ pending' = pending + 1 /\ cpc[c] = "won"
        /\ cpc' = [cpc EXCEPT ![c] = "done"]
    BY <1>2 DEF QueueStart
  <2>2. Shape'
    BY <1>0, <2>1 DEF ServerInv, Shape
  <2>3. OneStart'
    BY <1>0, <2>1 DEF ServerInv, OneStart, Won, Absent
  <2> QED
    BY <1>0, <2>2, <2>3 DEF ServerInv, Progress, Absent, Started, Entries, Asked
<1> QED
  BY <1>1, <1>2

\* startInLoop begins with no thread there, inline or from the queue.
LEMMA StartBegins ==
  ASSUME ServerInv, StartInline \/ StartFromQueue
  PROVE  ServerInv'
<1>1. /\ bpc \in {"setup", "loop"} /\ bpc' = "listen" /\ back' \in {"setup", "loop"}
      /\ ~state \/ pending > 0
      /\ state' = TRUE /\ pending' = 0
      /\ UNCHANGED <<threadnums, cpc, idx, threads, loops, spc, created, sleeping>>
  <2>1. state \in BOOLEAN /\ pending \in Nat /\ (pending > 0 => state /\ pending = 1)
    BY DEF ServerInv, Shape, OneStart
  <2>2. CASE StartInline
    <3>1. ~state /\ state' = TRUE /\ pending' = pending
      BY <2>2 DEF StartInline
    <3>2. pending = 0
      BY <2>1, <3>1
    <3> QED
      BY <2>2, <3>1, <3>2 DEF StartInline, BaseIsFree, subVars
  <2>3. CASE StartFromQueue
    <3>1. pending > 0 /\ pending' = pending - 1 /\ state' = state
      BY <2>3 DEF StartFromQueue
    <3>2. pending' = 0 /\ state' = TRUE
      BY <2>1, <3>1
    <3> QED
      BY <2>3, <3>1, <3>2 DEF StartFromQueue, subVars
  <2> QED
    BY <2>2, <2>3
<1>2. \A i \in Subs : Absent(i)
  BY <1>1 DEF ServerInv, OneStart
<1>3. \A c \in Callers : ~Won(c)
  BY <1>1 DEF ServerInv, OneStart
<1>4. Shape'
  BY <1>1 DEF ServerInv, Shape, BasePlaces, Starting
<1>5. OneStart'
  BY <1>1, <1>3 DEF OneStart, Won
<1>6. Progress'
  BY <1>1, <1>2 DEF Progress, Absent, Starting
<1>7. Entries' /\ Asked'
  BY <1>1 DEF ServerInv, Entries, Asked, Stopping
<1> QED
  BY <1>4, <1>5, <1>6, <1>7 DEF ServerInv

\* Once startInLoop runs, nothing of a start() is left to come.
LEMMA NothingPending ==
  ASSUME ServerInv, bpc \in Starting
  PROVE  state /\ pending = 0 /\ \A c \in Callers : ~Won(c)
BY DEF ServerInv, Shape, OneStart

\* A step of startInLoop.
LEMMA StartSteps ==
  ASSUME ServerInv,
         BaseListens \/ CreateThread \/ StartReturns \/ TestEntry \/ Block \/ Unblock \/ Emplace
  PROVE  ServerInv'
<1>0. /\ bpc \in Starting /\ UNCHANGED <<state, cpc, pending, threadnums, back, loops, sleeping>>
      /\ threadnums \in 1 .. MaxThreads /\ idx \in Nat \ {0} /\ MaxThreads \in Nat
      /\ spc \in [Subs -> SubPlaces] /\ created \in [Subs -> Nat] /\ threads \subseteq Subs
      /\ Subs \subseteq Nat /\ back \in {"setup", "loop"}
  <2>1. bpc \in Starting /\ UNCHANGED <<state, cpc, pending, threadnums, back, loops, sleeping>>
    BY DEF BaseListens, CreateThread, StartReturns, TestEntry, Block, Unblock, Emplace,
       Move, Starting, callVars, subVars
  <2>2. MaxThreads \in Nat /\ Subs \subseteq Nat
    BY BoundAssumption DEF Subs
  <2> QED
    BY <2>1, <2>2 DEF ServerInv, Shape
<1>1. OneStart'
  BY <1>0, NothingPending DEF OneStart, Won
<1>2. \A i \in Subs : ~sleeping[i]
  BY <1>0 DEF ServerInv, Asked, Starting, Stopping
<1>3. CASE BaseListens
  <2>1. bpc = "listen" /\ bpc' = "create" /\ idx' = 1 /\ UNCHANGED <<threads, spc, created>>
    BY <1>3 DEF BaseListens, Move, subVars
  <2>2. Shape'
    BY <1>0, <2>1 DEF ServerInv, Shape, BasePlaces, Starting
  <2>3. Progress'
    BY <2>1 DEF ServerInv, Progress, Absent, Started, Starting, Subs
  <2>4. Entries' /\ Asked'
    BY <1>0, <1>2, <2>1 DEF ServerInv, Entries, Asked
  <2> QED
    BY <1>1, <2>2, <2>3, <2>4 DEF ServerInv
<1>4. CASE CreateThread
  <2>1. /\ bpc = "create" /\ bpc' = "test" /\ idx < threadnums
        /\ spc' = [spc EXCEPT ![idx] = "born"]
        /\ created' = [created EXCEPT ![idx] = @ + 1]
        /\ UNCHANGED <<idx, threads>>
    BY <1>4 DEF CreateThread, Move
  <2>2. idx \in Subs
    BY <1>0, <2>1 DEF Subs
  <2>3. Absent(idx)
    BY <2>1, <2>2 DEF ServerInv, Progress
  <2>4. Shape'
    BY <1>0, <2>1, <2>2 DEF ServerInv, Shape, BasePlaces, Starting, SubPlaces
  <2>5. Progress'
    <3>1. created'[idx] = 1 /\ spc'[idx] = "born"
      BY <1>0, <2>1, <2>2, <2>3 DEF Absent
    <3>2. \A i \in Subs : i # idx => created'[i] = created[i] /\ spc'[i] = spc[i]
      BY <1>0, <2>1
    <3> QED
      BY <1>0, <2>1, <2>2, <3>1, <3>2 DEF ServerInv, Progress, Absent, Started, Starting
  <2>6. Entries' /\ Asked'
    BY <1>0, <1>2, <2>1, <2>2, <2>3 DEF ServerInv, Entries, Asked, Absent
  <2> QED
    BY <1>1, <2>4, <2>5, <2>6 DEF ServerInv
<1>5. CASE StartReturns
  <2>1. /\ bpc = "create" /\ bpc' \in {"setup", "loop"}
        /\ UNCHANGED <<idx, threads, spc, created>>
    BY <1>0, <1>5 DEF StartReturns, Move, subVars
  <2>2. Shape'
    BY <1>0, <2>1 DEF ServerInv, Shape, BasePlaces
  <2>3. \A i \in Subs : Absent(i) \/ Started(i)
    BY <1>0, <2>1 DEF ServerInv, Progress, Starting
  <2>4. Progress'
    BY <2>1, <2>3 DEF Progress, Absent, Started, Starting
  <2>5. Entries' /\ Asked'
    BY <1>0, <1>2, <2>1 DEF ServerInv, Entries, Asked
  <2> QED
    BY <1>1, <2>2, <2>4, <2>5 DEF ServerInv
<1>6. CASE TestEntry \/ Block \/ Unblock
  <2>1. /\ bpc \in {"test", "wait", "blocked"}
        /\ bpc' \in {"test", "wait", "blocked", "emplace"}
        /\ bpc' = "emplace" => loops[idx]
        /\ UNCHANGED <<idx, threads, spc, created>>
    BY <1>6 DEF TestEntry, Block, Unblock, Move, subVars
  <2>2. Shape'
    BY <1>0, <2>1 DEF ServerInv, Shape, BasePlaces, Starting
  <2>3. Progress'
    BY <2>1 DEF ServerInv, Progress, Entries, Absent, Started, Starting
  <2>4. Entries' /\ Asked'
    BY <1>0, <1>2, <2>1 DEF ServerInv, Entries, Asked
  <2> QED
    BY <1>1, <2>2, <2>3, <2>4 DEF ServerInv
<1>7. CASE Emplace
  <2>1. /\ bpc = "emplace" /\ bpc' = "create"
        /\ threads' = threads \cup {idx} /\ idx' = idx + 1
        /\ UNCHANGED <<spc, created>>
    BY <1>7 DEF Emplace, Move, subVars
  <2>2. idx \in Subs /\ created[idx] = 1 /\ spc[idx] \notin {"none", "born"}
    BY <2>1 DEF ServerInv, Progress
  <2>3. Shape'
    BY <1>0, <2>1, <2>2 DEF ServerInv, Shape, BasePlaces, Starting
  <2>4. Progress'
    <3>1. \A i \in Subs : i < idx' => i < idx \/ i = idx
      BY <1>0, <2>1
    <3>2. \A i \in Subs : i >= idx' => i > idx
      BY <1>0, <2>1
    <3>3. \A i \in Subs : i < idx' => Started(i)'
      BY <1>0, <2>1, <2>2, <3>1 DEF ServerInv, Progress, Started, Starting
    <3>4. \A i \in Subs : i >= idx' => Absent(i)'
      BY <1>0, <2>1, <3>2 DEF ServerInv, Progress, Absent, Starting
    <3> QED
      BY <1>0, <2>1, <3>3, <3>4 DEF Progress, Starting
  <2>5. Entries' /\ Asked'
    BY <1>0, <1>2, <2>1 DEF ServerInv, Entries, Asked
  <2> QED
    BY <1>1, <2>3, <2>4, <2>5 DEF ServerInv
<1> QED
  BY <1>3, <1>4, <1>5, <1>6, <1>7

(***************************************************************************)
(* runInThread                                                             *)
(***************************************************************************)
\* A step of a sub-thread.
LEMMA ThreadSteps ==
  ASSUME ServerInv, NEW i \in Subs, SubStep(i)
  PROVE  ServerInv'
<1> DEFINE Places == {"born", "notify", "init", "enter", "loop", "left", "unwind"}
<1>0. /\ UNCHANGED <<state, threadnums, cpc, pending, bpc, back, idx, threads, created>>
      /\ spc \in [Subs -> SubPlaces] /\ loops \in [Subs -> BOOLEAN]
      /\ sleeping \in [Subs -> BOOLEAN]
  <2>1. UNCHANGED <<state, threadnums, cpc, pending, bpc, back, idx, threads, created>>
    BY DEF SubStep, Publish, Notify, SubListens, EnterLoop, LeaveLoop, Unpublish, Unwind,
       callVars, baseVars
  <2> QED
    BY <2>1 DEF ServerInv, Shape
<1>1. /\ spc[i] \in Places
      /\ \E to \in SubPlaces \ {"none", "born"} : spc' = [spc EXCEPT ![i] = to]
  BY DEF SubStep, Publish, Notify, SubListens, EnterLoop, LeaveLoop, Unpublish, Unwind, Go,
     SubPlaces
<1>2. /\ spc' \in [Subs -> SubPlaces]
      /\ spc[i] # "none" /\ spc'[i] \notin {"none", "born"}
      /\ \A j \in Subs : j # i => spc'[j] = spc[j]
  BY <1>0, <1>1
<1>3. /\ loops' \in [Subs -> BOOLEAN] /\ sleeping' \in [Subs -> BOOLEAN]
      /\ \A j \in Subs : j # i => loops'[j] = loops[j] /\ sleeping'[j] = sleeping[j]
      /\ sleeping'[i] => sleeping[i]
  BY <1>0 DEF SubStep, Publish, Notify, SubListens, EnterLoop, LeaveLoop, Unpublish, Unwind
<1>4. Shape'
  BY <1>0, <1>2, <1>3 DEF ServerInv, Shape
<1>5. ~Absent(i)
  BY <1>2 DEF Absent
<1>6. OneStart'
  BY <1>0, <1>5 DEF ServerInv, OneStart, Won
<1>7. Progress'
  <2>1. \A j \in Subs : Absent(j) => Absent(j)'
    BY <1>0, <1>2, <1>5 DEF Absent
  <2>2. \A j \in Subs : Started(j) => Started(j)'
    BY <1>0, <1>2 DEF Started
  <2>3. \A j \in Subs : (spc[j] # "none" => spc'[j] # "none")
                        /\ (spc[j] # "born" => spc'[j] # "born")
    BY <1>2
  <2> QED
    BY <1>0, <2>1, <2>2, <2>3 DEF ServerInv, Progress, Starting
<1>8. Entries'
  <2>1. /\ loops'[i] => spc'[i] \in {"notify", "init", "enter", "loop", "left"}
        /\ spc'[i] \in {"left", "unwind", "done"} => sleeping'[i]
    BY <1>0 DEF SubStep, Publish, Notify, SubListens, EnterLoop, LeaveLoop, Unpublish, Unwind,
       Go, ServerInv, Entries
  <2> QED
    BY <1>2, <1>3, <2>1 DEF ServerInv, Entries
<1>9. Asked'
  <2>1. bpc = "store" => loops'[idx]
    <3>1. ASSUME bpc = "store", i = idx
          PROVE  loops'[i]
      <4>1. loops[i] /\ ~sleeping[i] /\ spc[i] # "left"
        BY <1>0, <3>1 DEF ServerInv, Asked, Entries, Shape
      <4> QED
        BY <1>0, <4>1 DEF SubStep, Publish, Notify, SubListens, EnterLoop, LeaveLoop,
           Unpublish, Unwind, Go
    <3> QED
      BY <1>3, <3>1 DEF ServerInv, Asked
  <2>2. bpc \notin {"members", "destroyed"}
    BY <1>1 DEF ServerInv, Asked
  <2> QED
    BY <1>0, <1>3, <2>1, <2>2 DEF ServerInv, Asked
<1> QED
  BY <1>4, <1>6, <1>7, <1>8, <1>9 DEF ServerInv

(***************************************************************************)
(* The base loop and the destructor                                        *)
(***************************************************************************)
\* Moves of the base thread from outside startInLoop to outside startInLoop.
LEMMA BaseMoves ==
  ASSUME ServerInv, bpc \notin Starting, bpc' \in BasePlaces \ Starting, idx' \in Nat \ {0},
         UNCHANGED <<state, threadnums, cpc, pending, back, threads, spc, created, loops>>
  PROVE  /\ OneStart' /\ Progress'
         /\ sleeping' \in [Subs -> BOOLEAN] => Shape'
<1>1. OneStart'
  BY DEF ServerInv, OneStart, Won, Absent
<1>2. Progress'
  BY DEF ServerInv, Progress, Absent, Started, Starting
<1> QED
  BY <1>1, <1>2 DEF ServerInv, Shape

\* A step of the base loop or of the destructor: each entry is looked at once,
\* so a loop that is put to sleep has not been asked before.
LEMMA StopSteps ==
  ASSUME ServerInv,
         \/ BaseEnters \/ BaseStops \/ Destroy
         \/ TestLoop \/ SkipLoop \/ StoreSleeping \/ WakeSub \/ AllAsked \/ Join \/ DestroyMembers
  PROVE  ServerInv'
<1>0. /\ UNCHANGED <<state, threadnums, cpc, pending, back, threads, spc, created, loops>>
      /\ bpc \notin Starting /\ bpc' \in BasePlaces \ Starting
      /\ idx \in Nat \ {0} /\ idx' \in {idx, idx + 1, 1} /\ Subs \subseteq Nat
      /\ sleeping \in [Subs -> BOOLEAN] /\ threadnums \in 1 .. MaxThreads /\ MaxThreads \in Nat
  <2>1. UNCHANGED <<state, threadnums, cpc, pending, back, threads, spc, created, loops>>
    BY DEF BaseEnters, BaseStops, Destroy, TestLoop, SkipLoop, StoreSleeping, WakeSub,
       AllAsked, Join, DestroyMembers, callVars, subVars
  <2>2. bpc \notin Starting /\ bpc' \in BasePlaces \ Starting
    BY DEF BaseEnters, BaseStops, BaseIsFree, Destroy, TestLoop, SkipLoop, StoreSleeping,
       WakeSub, AllAsked, Join, DestroyMembers, Move, BasePlaces, Starting, Stopping
  <2>3. idx' \in {idx, idx + 1, 1}
    BY DEF BaseEnters, BaseStops, Destroy, TestLoop, SkipLoop, StoreSleeping, WakeSub,
       AllAsked, Join, DestroyMembers
  <2>4. MaxThreads \in Nat /\ Subs \subseteq Nat
    BY BoundAssumption DEF Subs
  <2> QED
    BY <2>1, <2>2, <2>3, <2>4 DEF ServerInv, Shape
<1>1. OneStart' /\ Progress' /\ (sleeping' \in [Subs -> BOOLEAN] => Shape')
  BY <1>0, BaseMoves
<1>2. CASE BaseEnters \/ BaseStops \/ Destroy
  <2>1. /\ bpc \in {"setup", "loop", "stopped"} /\ bpc' \in {"loop", "stopped", "entry"}
        /\ sleeping' = sleeping
    BY <1>2 DEF BaseEnters, BaseStops, BaseIsFree, Destroy, Move, subVars
  <2>2. \A i \in Subs : ~sleeping[i]
    BY <2>1 DEF ServerInv, Asked, Stopping
  <2>3. Asked' /\ Entries'
    BY <1>0, <2>1, <2>2 DEF ServerInv, Asked, Entries
  <2> QED
    BY <1>0, <1>1, <2>1, <2>3 DEF ServerInv
<1>3. CASE TestLoop \/ SkipLoop
  <2>1. /\ bpc = "entry" /\ sleeping' = sleeping /\ idx < threadnums
        /\ \/ bpc' = "store" /\ idx' = idx /\ loops[idx]
           \/ bpc' = "entry" /\ idx' = idx + 1
    BY <1>3 DEF TestLoop, SkipLoop, Move, subVars
  <2>2. idx \in Subs
    BY <1>0, <2>1 DEF Subs
  <2>3. Asked' /\ Entries'
    BY <1>0, <2>1, <2>2 DEF ServerInv, Asked, Entries, Stopping
  <2> QED
    BY <1>0, <1>1, <2>1, <2>3 DEF ServerInv
<1>4. CASE StoreSleeping
  <2>1. /\ bpc = "store" /\ bpc' = "wake" /\ idx' = idx
        /\ sleeping' = [sleeping EXCEPT ![idx] = TRUE]
    BY <1>4 DEF StoreSleeping, Move
  <2>2. idx \in Subs
    BY <2>1 DEF ServerInv, Asked
  <2>3. Asked' /\ Entries'
    BY <1>0, <2>1, <2>2 DEF ServerInv, Asked, Entries, Stopping
  <2> QED
    BY <1>0, <1>1, <2>1, <2>2, <2>3 DEF ServerInv
<1>5. CASE WakeSub \/ AllAsked
  <2>1. /\ sleeping' = sleeping
        /\ \/ bpc = "wake" /\ bpc' = "entry" /\ idx' = idx + 1
           \/ bpc = "entry" /\ bpc' = "join" /\ idx' = idx
    BY <1>5 DEF WakeSub, AllAsked, Move, subVars
  <2>2. Asked' /\ Entries'
    BY <1>0, <2>1 DEF ServerInv, Asked, Entries, Stopping
  <2> QED
    BY <1>0, <1>1, <2>1, <2>2 DEF ServerInv
<1>6. CASE Join
  <2>1. /\ bpc = "join" /\ bpc' = "members" /\ sleeping' = sleeping /\ idx' = idx
        /\ \A i \in threads : spc[i] = "done"
    BY <1>6 DEF Join, Move, subVars
  <2>2. \A i \in Subs : spc[i] \in {"none", "done"}
    BY <1>0, <2>1 DEF ServerInv, Progress, Absent, Started
  <2>3. Asked' /\ Entries'
    BY <1>0, <2>1, <2>2 DEF ServerInv, Asked, Entries, Stopping
  <2> QED
    BY <1>0, <1>1, <2>1, <2>3 DEF ServerInv
<1>7. CASE DestroyMembers
  <2>1. bpc = "members" /\ bpc' = "destroyed" /\ sleeping' = sleeping /\ idx' = idx
    BY <1>7 DEF DestroyMembers, Move, subVars
  <2>2. Asked' /\ Entries'
    BY <1>0, <2>1 DEF ServerInv, Asked, Entries
  <2> QED
    BY <1>0, <1>1, <2>1, <2>2 DEF ServerInv
<1> QED
  BY <1>2, <1>3, <1>4, <1>5, <1>6, <1>7

(***************************************************************************)
(* The theorems                                                            *)
(***************************************************************************)
\* The invariant holds in every reachable state.
LEMMA ServerInvariant == Spec => []ServerInv
<1>1. Init => ServerInv
  <2> SUFFICES ASSUME Init PROVE ServerInv
    OBVIOUS
  <2>1. 1 \in 1 .. MaxThreads
    BY BoundAssumption
  <2>2. Shape
    <3>1. cpc \in [Callers -> {"idle", "won", "done"}] /\ loops \in [Subs -> BOOLEAN]
          /\ spc \in [Subs -> SubPlaces] /\ created \in [Subs -> Nat]
          /\ sleeping \in [Subs -> BOOLEAN]
      BY DEF Init, SubPlaces
    <3>2. state \in BOOLEAN
      BY DEF Init
    <3>3. threadnums = 1 /\ pending = 0 /\ idx = 1 /\ threads \subseteq Subs
      BY DEF Init
    <3>4. bpc \in BasePlaces /\ back \in {"setup", "loop"}
      BY DEF Init, BasePlaces
    <3> QED
      BY <2>1, <3>1, <3>2, <3>3, <3>4 DEF Shape
  <2>3. \A i \in Subs : Absent(i)
    BY DEF Init, Absent
  <2> QED
    BY <2>2, <2>3 DEF Init, ServerInv, OneStart, Won, Progress, Entries, Asked, Starting
<1>2. ServerInv /\ [Next]_vars => ServerInv'
  <2> SUFFICES ASSUME ServerInv, [Next]_vars PROVE ServerInv'
    OBVIOUS
  <2>1. CASE setNumThread
    <3>1. /\ threadnums' \in 1 .. MaxThreads
          /\ UNCHANGED <<state, cpc, pending, bpc, back, idx, threads, loops, spc, created,
                         sleeping>>
      <4>1. threadnums' \in 1 .. MaxThreads
        BY <2>1 DEF setNumThread
      <4>2. UNCHANGED <<callVars, baseVars, subVars>>
        BY <2>1 DEF setNumThread
      <4> QED
        BY <4>1, <4>2 DEF callVars, baseVars, subVars
    <3> QED
      BY <3>1 DEF ServerInv, Shape, OneStart, Won, Absent, Started, Progress, Entries, Asked
  <2>2. CASE SpuriousWakeup
    BY <2>2, Elsewhere DEF SpuriousWakeup, invVars, callVars, subVars
  <2>3. ASSUME NEW l \in Loops, Poll(l) \/ Accept(l)
        PROVE  ServerInv'
    BY <2>3, Elsewhere DEF Poll, Accept, invVars, callVars, baseVars, subVars
  <2>4. ASSUME NEW c \in Clients, Connect(c) \/ GiveUp(c) \/ CloseConnection(c)
        PROVE  ServerInv'
    BY <2>4, Elsewhere DEF Connect, GiveUp, CloseConnection, invVars, callVars, baseVars, subVars
  <2>5. CASE UNCHANGED vars
    BY <2>5, Elsewhere DEF vars, invVars, callVars, baseVars, subVars
  <2> QED
    BY <2>1, <2>2, <2>3, <2>4, <2>5, CallerSteps, StartBegins, StartSteps, ThreadSteps, StopSteps
       DEF Next, BaseStep
<1> QED
  BY <1>1, <1>2, PTL DEF Spec

\* Whoever calls start(), and however often, no index gets a second thread, and
\* a thread that startInLoop has gone past has published its loop and is in the
\* list the destructor joins.
THEOREM StartIsSafe == Spec => []StartPublishes
<1>1. ServerInv => StartPublishes
  <2> SUFFICES ASSUME ServerInv, NEW i \in Subs
               PROVE  /\ created[i] <= 1
                      /\ created[i] > 0 /\ ~(bpc \in Starting /\ idx = i)
                            => spc[i] # "born" /\ i \in threads
    BY DEF StartPublishes
  <2>1. i \in Nat /\ idx \in Nat /\ created[i] \in Nat
    BY BoundAssumption DEF Subs, ServerInv, Shape
  <2>2. CASE bpc \notin Starting
    BY <2>1, <2>2 DEF ServerInv, Progress, Absent, Started
  <2>3. CASE bpc \in Starting
    <3>1. bpc \in {"listen", "create"} \/ bpc \in {"test", "wait", "blocked", "emplace"}
      BY <2>3 DEF Starting
    <3>2. bpc = "listen" \/ i < idx \/ i > idx => Absent(i) \/ Started(i)
      BY <2>3 DEF ServerInv, Progress
    <3>3. i = idx => created[i] <= 1
      BY <3>1, <3>2 DEF ServerInv, Progress, Absent
    <3> QED
      BY <2>1, <2>3, <3>2, <3>3 DEF Absent, Started
  <2> QED
    BY <2>2, <2>3
<1> QED
  BY <1>1, ServerInvariant, PTL

\* ~TcpServer, whenever it comes, stores into _sleeping of loops that are alive and
\* awake only, and destroys the members when no thread is left that uses them.
\* Nothing is said of what sleep() does after that store.
THEOREM StopTouchesTheLiving == Spec => []StopIsSafe
<1>1. ServerInv => StopIsSafe
  BY DEF ServerInv, Shape, Asked, Entries, StopIsSafe
<1> QED
  BY <1>1, ServerInvariant, PTL

(***************************************************************************)
(* The listening sockets, the clients and the accepts                      *)
(***************************************************************************)
\* The clients that were at loop l and have gone.
Departed(l) == ClientsAt(l, "gone")

\* A poll has reported a backlog that is empty by now: the accept will fail.
Deserted(l) == l \in ready /\ Backlog(l) = {}

\* An accept fails because descriptors have run out or because a client that
\* the poll saw has gone; no client is to blame for two failures.
FailuresExplained ==
    \A l \in Loops :
        phantoms[l] + (IF Deserted(l) THEN 1 ELSE 0) <= refused + Cardinality(Departed(l))

ClientType == [Clients -> [at : {"new", "backlog", "up", "gone"}, on : Loops]]

NetInv ==
    /\ waiting \in BOOLEAN
    /\ idx \in 1 .. MaxThreads /\ (bpc = "wake" => idx \in Subs)
    /\ listening \subseteq Loops /\ ready \subseteq listening
    /\ client \in ClientType
    /\ \A c \in Clients : client[c].at = "backlog" => client[c].on \in listening
    /\ phantoms \in [Loops -> Nat]
    /\ refused \in 0 .. MaxRefused
    /\ aborted \in {"no", "sleeping", "connected"}
    /\ FailuresExplained

\* The departed clients of a loop are finitely many.
LEMMA DepartedFinite ==
  ASSUME NEW l
  PROVE  /\ IsFiniteSet(Departed(l)) /\ Cardinality(Departed(l)) \in Nat
         /\ Cardinality(Departed(l)) <= Cardinality(Clients)
         /\ Cardinality(Clients) \in Nat
<1>1. Departed(l) \subseteq Clients /\ IsFiniteSet(Clients)
  BY BoundAssumption DEF Departed, ClientsAt
<1> QED
  BY <1>1, FS_Subset, FS_CardinalityType

\* Clients that have gone stay gone.
LEMMA DepartedGrow ==
  ASSUME client \in ClientType, client' \in ClientType, NEW l,
         \A c \in Clients : client[c].at = "gone" => client'[c] = client[c]
  PROVE  /\ Cardinality(Departed(l)) \in Nat /\ Cardinality(Departed(l)') \in Nat
         /\ Cardinality(Departed(l)) <= Cardinality(Departed(l)')
<1> DEFINE before == {c \in Clients : client[c] = [at |-> "gone", on |-> l]}
           after == {c \in Clients : client'[c] = [at |-> "gone", on |-> l]}
<1>1. Departed(l) = before /\ Departed(l)' = after
  BY DEF Departed, ClientsAt
<1>2. before \subseteq after
  OBVIOUS
<1>3. after \subseteq Clients /\ IsFiniteSet(Clients)
  BY BoundAssumption
<1> HIDE DEF before, after
<1>4. IsFiniteSet(after)
  BY <1>3, FS_Subset
<1>5. IsFiniteSet(before) /\ Cardinality(before) <= Cardinality(after)
  BY <1>2, <1>4, FS_Subset
<1> QED
  BY <1>1, <1>4, <1>5, FS_CardinalityType

\* A client that leaves the backlog of loop l is one more.
LEMMA DepartedOneMore ==
  ASSUME client \in ClientType, NEW c \in Clients, client[c].at = "backlog", NEW l \in Loops,
         client[c].on = l, client' = [client EXCEPT ![c].at = "gone"]
  PROVE  Cardinality(Departed(l)') = Cardinality(Departed(l)) + 1
<1>1. client[c] \in [at : {"new", "backlog", "up", "gone"}, on : Loops]
  BY DEF ClientType
<1>2. client'[c] = [at |-> "gone", on |-> l] /\ \A d \in Clients \ {c} : client'[d] = client[d]
  BY <1>1 DEF ClientType
<1>3. Departed(l)' = Departed(l) \cup {c} /\ c \notin Departed(l)
  BY <1>2 DEF Departed, ClientsAt
<1>4. IsFiniteSet(Departed(l))
  BY DepartedFinite
<1> QED
  BY <1>3, <1>4, FS_AddElement, FS_CardinalityType

\* Steps of the threads that leave the sockets and the clients alone.
LEMMA NetUntouched ==
  ASSUME NetInv, UNCHANGED netVars, waiting' \in BOOLEAN, idx' \in 1 .. MaxThreads,
         bpc' = "wake" => idx' \in Subs, aborted' \in {"no", "sleeping", "connected"}
  PROVE  NetInv'
BY DEF NetInv, netVars, FailuresExplained, Deserted, Departed, ClientsAt, Backlog

\* A socket that begins to listen.
LEMMA ListenKeeps ==
  ASSUME NetInv, NEW l \in Loops, listening' = listening \cup {l},
         UNCHANGED <<ready, client, phantoms, refused, aborted, waiting>>,
         idx' \in 1 .. MaxThreads, bpc' = "wake" => idx' \in Subs
  PROVE  NetInv'
BY DEF NetInv, FailuresExplained, Deserted, Departed, ClientsAt, Backlog

\* ~TcpServerSingle takes its own backlog along, and nobody else's.
LEMMA DestroySingleKeeps ==
  ASSUME NetInv, NEW l \in Loops, DestroySingle(l), waiting' = waiting, idx' = idx,
         bpc' # "wake" \/ bpc' = bpc
  PROVE  NetInv'
<1>1. /\ aborted' \in {"no", "sleeping", "connected"}
      /\ listening' = listening \ {l} /\ ready' = ready \ {l}
      /\ client' = [c \in Clients |->
                      IF c \in Backlog(l) THEN [client[c] EXCEPT !.at = "gone"] ELSE client[c]]
      /\ UNCHANGED <<phantoms, refused>>
      /\ client \in ClientType
  BY DEF DestroySingle, NetInv
<1>2. \A c \in Clients : client[c] \in [at : {"new", "backlog", "up", "gone"}, on : Loops]
  BY <1>1 DEF ClientType
<1>3. \A c \in Clients : c \in Backlog(l) <=> client[c].at = "backlog" /\ client[c].on = l
  BY <1>2 DEF Backlog, ClientsAt
<1>4. client' \in ClientType
  BY <1>1, <1>2 DEF ClientType
<1>5. \A c \in Clients : client'[c].at = "backlog" =>
          client'[c] = client[c] /\ client[c].on # l
  BY <1>1, <1>2, <1>3
<1>6. \A c \in Clients : client[c].at # "backlog" \/ client[c].on # l => client'[c] = client[c]
  BY <1>1, <1>3
<1>7. FailuresExplained'
  <2> SUFFICES ASSUME NEW k \in Loops
               PROVE  phantoms'[k] + (IF Deserted(k)' THEN 1 ELSE 0)
                        <= refused' + Cardinality(Departed(k)')
    BY DEF FailuresExplained
  <2>1. /\ Cardinality(Departed(k)) \in Nat /\ Cardinality(Departed(k)') \in Nat
        /\ Cardinality(Departed(k)) <= Cardinality(Departed(k)')
    BY <1>1, <1>4, <1>6, DepartedGrow
  <2>2. Deserted(k)' => Deserted(k)
    <3>1. k # l => (Backlog(k)' = Backlog(k))
      <4> SUFFICES ASSUME k # l, NEW c \in Clients
                   PROVE  client'[c] = [at |-> "backlog", on |-> k]
                            <=> client[c] = [at |-> "backlog", on |-> k]
        BY DEF Backlog, ClientsAt
      <4> QED
        BY <1>5, <1>6
    <3> QED
      BY <1>1, <3>1 DEF Deserted
  <2>3. phantoms'[k] = phantoms[k] /\ phantoms[k] \in Nat /\ refused' = refused /\ refused \in Nat
    BY <1>1 DEF NetInv
  <2>4. phantoms[k] + (IF Deserted(k) THEN 1 ELSE 0) <= refused + Cardinality(Departed(k))
    BY DEF NetInv, FailuresExplained
  <2> QED
    BY <2>1, <2>2, <2>3, <2>4
<1>8. ASSUME NEW c \in Clients, client'[c].at = "backlog"
      PROVE  client'[c].on \in listening'
  <2>1. client'[c] = client[c] /\ client[c].on # l
    BY <1>5, <1>8
  <2>2. client[c].at = "backlog"
    BY <1>8, <2>1
  <2>3. client[c].on \in listening
    BY <2>2 DEF NetInv
  <2> QED
    BY <1>1, <2>1, <2>3
<1>9. waiting' \in BOOLEAN /\ idx' \in 1 .. MaxThreads /\ (bpc' = "wake" => idx' \in Subs)
  BY DEF NetInv
<1>10. listening' \subseteq Loops /\ ready' \subseteq listening' /\ phantoms' \in [Loops -> Nat]
       /\ refused' \in 0 .. MaxRefused
  BY <1>1 DEF NetInv
<1> QED
  BY <1>1, <1>4, <1>7, <1>8, <1>9, <1>10 DEF NetInv

\* A client that connects, gives up, or whose connection ends.
LEMMA ClientSteps ==
  ASSUME NetInv, NEW c \in Clients, Connect(c) \/ GiveUp(c) \/ CloseConnection(c)
  PROVE  NetInv'
<1>0. /\ UNCHANGED <<waiting, idx, bpc, listening, ready, phantoms, refused, aborted>>
      /\ client \in ClientType /\ client[c] \in [at : {"new", "backlog", "up", "gone"}, on : Loops]
      /\ listening \subseteq Loops
  BY DEF Connect, GiveUp, CloseConnection, baseVars, NetInv, ClientType
<1>1. client[c].at # "gone" /\ \E v \in [at : {"backlog", "gone"}, on : Loops] :
          /\ client' = [client EXCEPT ![c] = v]
          /\ v.at = "backlog" => v.on \in listening
  <2>1. CASE Connect(c)
    <3>1. client[c].at = "new"
      BY <2>1 DEF Connect
    <3>2. PICK l \in listening : client' = [client EXCEPT ![c] = [at |-> "backlog", on |-> l]]
      BY <2>1 DEF Connect
    <3>3. [at |-> "backlog", on |-> l] \in [at : {"backlog", "gone"}, on : Loops]
      BY <1>0
    <3>4. [at |-> "backlog", on |-> l].on \in listening
      OBVIOUS
    <3> QED
      BY <3>1, <3>2, <3>3, <3>4
  <2>2. CASE GiveUp(c) \/ CloseConnection(c)
    <3>1. client' = [client EXCEPT ![c] = [client[c] EXCEPT !.at = "gone"]]
      BY <2>2 DEF GiveUp, CloseConnection
    <3>2. [client[c] EXCEPT !.at = "gone"] \in [at : {"backlog", "gone"}, on : Loops]
          /\ [client[c] EXCEPT !.at = "gone"].at = "gone"
      BY <1>0
    <3>3. client[c].at # "gone"
      BY <2>2 DEF GiveUp, CloseConnection
    <3> QED
      BY <3>1, <3>2, <3>3
  <2> QED
    BY <2>1, <2>2
<1>2. /\ client' \in ClientType
      /\ \A d \in Clients : client'[d].at = "backlog" => client'[d].on \in listening
      /\ \A d \in Clients : client[d].at = "gone" => client'[d] = client[d]
      /\ \A d \in Clients \ {c} : client'[d] = client[d]
  <2>1. PICK v \in [at : {"backlog", "gone"}, on : Loops] :
          /\ client' = [client EXCEPT ![c] = v]
          /\ v.at = "backlog" => v.on \in listening
    BY <1>1
  <2>2. v \in [at : {"new", "backlog", "up", "gone"}, on : Loops]
    OBVIOUS
  <2>3. client'[c] = v /\ \A d \in Clients \ {c} : client'[d] = client[d]
    BY <1>0, <2>1 DEF ClientType
  <2>4. client' \in ClientType
    BY <1>0, <2>1, <2>2 DEF ClientType
  <2> QED
    BY <1>1, <2>1, <2>3, <2>4 DEF NetInv
<1>3. ASSUME NEW k \in Loops
      PROVE  phantoms[k] + (IF Deserted(k)' THEN 1 ELSE 0) <= refused + Cardinality(Departed(k)')
  <2>1. /\ Cardinality(Departed(k)) \in Nat /\ Cardinality(Departed(k)') \in Nat
        /\ Cardinality(Departed(k)) <= Cardinality(Departed(k)')
    BY <1>0, <1>2, DepartedGrow
  <2>2. phantoms[k] \in Nat /\ refused \in Nat
        /\ phantoms[k] + (IF Deserted(k) THEN 1 ELSE 0) <= refused + Cardinality(Departed(k))
    BY DEF NetInv, FailuresExplained
  <2>3. Deserted(k)' /\ ~Deserted(k) => Cardinality(Departed(k)') = Cardinality(Departed(k)) + 1
    <3> SUFFICES ASSUME Deserted(k)', ~Deserted(k)
                 PROVE  Cardinality(Departed(k)') = Cardinality(Departed(k)) + 1
      OBVIOUS
    <3>1. \E d \in Clients : client[d] = [at |-> "backlog", on |-> k]
      BY <1>0 DEF Deserted, Backlog, ClientsAt
    <3>2. client'[c] # [at |-> "backlog", on |-> k] /\ client[c] = [at |-> "backlog", on |-> k]
      BY <1>2, <3>1 DEF Deserted, Backlog, ClientsAt
    <3>3. GiveUp(c)
      BY <3>2 DEF Connect, CloseConnection
    <3>4. client' = [client EXCEPT ![c].at = "gone"]
      BY <3>3 DEF GiveUp
    <3>5. client[c].at = "backlog" /\ client[c].on = k
      BY <3>2
    <3> QED
      BY <1>0, <3>4, <3>5, DepartedOneMore
  <2> QED
    BY <2>1, <2>2, <2>3
<1>4. FailuresExplained'
  BY <1>0, <1>3 DEF FailuresExplained
<1> QED
  BY <1>0, <1>2, <1>4 DEF NetInv

\* A poll that reports the listening socket, and the accept that follows.
LEMMA AcceptSteps ==
  ASSUME NetInv, NEW l \in Loops, Poll(l) \/ Accept(l)
  PROVE  NetInv'
<1>0. /\ UNCHANGED <<waiting, idx, bpc, listening, aborted>>
      /\ client \in ClientType /\ listening \subseteq Loops /\ ready \subseteq listening
      /\ phantoms \in [Loops -> Nat] /\ refused \in 0 .. MaxRefused /\ MaxRefused \in Nat
      /\ \A c \in Clients : client[c] \in [at : {"new", "backlog", "up", "gone"}, on : Loops]
      /\ \A c \in Clients : client[c].at = "backlog" => client[c].on \in listening
  BY BoundAssumption DEF Poll, Accept, baseVars, NetInv, ClientType
<1>1. ASSUME NEW k \in Loops
      PROVE  /\ Cardinality(Departed(k)) \in Nat /\ phantoms[k] \in Nat /\ refused \in Nat
             /\ phantoms[k] + (IF Deserted(k) THEN 1 ELSE 0) <= refused + Cardinality(Departed(k))
  BY <1>0, DepartedFinite DEF NetInv, FailuresExplained
<1>2. CASE Poll(l)
  <2>1. ready' = ready \cup {l} /\ Backlog(l) # {} /\ UNCHANGED <<client, phantoms, refused>>
    BY <1>2 DEF Poll
  <2>2. l \in listening
    BY <1>0, <2>1 DEF Backlog, ClientsAt
  <2>3. \A k \in Loops : Deserted(k)' = Deserted(k) /\ Departed(k)' = Departed(k)
    BY <2>1 DEF Deserted, Departed, Backlog, ClientsAt
  <2>4. FailuresExplained'
    BY <1>1, <2>1, <2>3 DEF FailuresExplained
  <2> QED
    BY <1>0, <2>1, <2>2, <2>4 DEF NetInv
<1>3. CASE Accept(l)
  <2>0. l \in ready /\ ready' = ready \ {l}
    BY <1>3 DEF Accept
  <2>1. ASSUME NEW c \in Backlog(l), client' = [client EXCEPT ![c].at = "up"],
               UNCHANGED <<phantoms, refused>>
        PROVE  NetInv'
    <3>1. c \in Clients /\ client[c].at = "backlog"
      BY <2>1 DEF Backlog, ClientsAt
    <3>2. /\ client' \in ClientType
          /\ client'[c].at = "up" /\ \A d \in Clients \ {c} : client'[d] = client[d]
      BY <1>0, <2>1, <3>1 DEF ClientType
    <3>3. ASSUME NEW k \in Loops
          PROVE  phantoms[k] + (IF Deserted(k)' THEN 1 ELSE 0) <= refused + Cardinality(Departed(k)')
      <4>1. /\ Cardinality(Departed(k)) \in Nat /\ Cardinality(Departed(k)') \in Nat
            /\ Cardinality(Departed(k)) <= Cardinality(Departed(k)')
        BY <1>0, <3>1, <3>2, DepartedGrow
      <4>2. Deserted(k)' => Deserted(k)
        <5>1. k # l => client[c] # [at |-> "backlog", on |-> k]
          BY <2>1 DEF Backlog, ClientsAt
        <5>2. k # l => Backlog(k) \subseteq Backlog(k)'
          BY <3>2, <5>1 DEF Backlog, ClientsAt
        <5> QED
          BY <2>0, <5>2 DEF Deserted
      <4> QED
        BY <1>1, <4>1, <4>2
    <3>4. FailuresExplained'
      BY <2>1, <3>3 DEF FailuresExplained
    <3>5. \A d \in Clients : client'[d].at = "backlog" => client'[d].on \in listening'
      BY <1>0, <3>2
    <3> QED
      BY <1>0, <2>0, <2>1, <3>2, <3>4, <3>5 DEF NetInv
  <2>2. ASSUME phantoms' = [phantoms EXCEPT ![l] = @ + 1], client' = client,
               \/ Backlog(l) = {} /\ refused' = refused
               \/ Backlog(l) # {} /\ refused < MaxRefused /\ refused' = refused + 1
        PROVE  NetInv'
    <3>1. phantoms' \in [Loops -> Nat] /\ refused' \in 0 .. MaxRefused
      BY <1>0, <2>2
    <3>2. ASSUME NEW k \in Loops
          PROVE  phantoms'[k] + (IF Deserted(k)' THEN 1 ELSE 0)
                   <= refused' + Cardinality(Departed(k)')
      <4>1. Departed(k)' = Departed(k) /\ Backlog(k)' = Backlog(k)
        BY <2>2 DEF Departed, Backlog, ClientsAt
      <4>2. refused' \in Nat /\ refused <= refused'
        BY <1>0, <2>2
      <4>3. CASE k = l
        <5>1. ~Deserted(k)' /\ phantoms'[k] = phantoms[k] + 1
          BY <1>0, <2>0, <2>2, <4>3 DEF Deserted
        <5>2. CASE Backlog(l) = {} /\ refused' = refused
          <6>1. Deserted(k)
            BY <2>0, <4>3, <5>2 DEF Deserted
          <6> QED
            BY <1>1, <4>1, <5>1, <5>2, <6>1
        <5>3. CASE Backlog(l) # {} /\ refused' = refused + 1
          BY <1>1, <4>1, <5>1, <5>3
        <5> QED
          BY <2>2, <5>2, <5>3
      <4>4. CASE k # l
        <5>1. Deserted(k)' = Deserted(k) /\ phantoms'[k] = phantoms[k]
          BY <1>0, <2>0, <2>2, <4>1, <4>4 DEF Deserted
        <5> QED
          BY <1>1, <4>1, <4>2, <5>1
      <4> QED
        BY <4>3, <4>4
    <3>3. FailuresExplained'
      BY <3>2 DEF FailuresExplained
    <3> QED
      BY <1>0, <2>0, <2>2, <3>1, <3>3 DEF NetInv
  <2> QED
    BY <1>3, <2>1, <2>2 DEF Accept
<1> QED
  BY <1>2, <1>3

\* Steps of the base thread and of the callers.
LEMMA BaseKeepsNet ==
  ASSUME ServerInv, NetInv,
         \/ setNumThread \/ StartInline \/ BaseEnters \/ BaseStops \/ Destroy \/ SpuriousWakeup
         \/ BaseStep
         \/ \E c \in Callers : Exchange(c) \/ QueueStart(c)
  PROVE  NetInv'
<1>0. /\ waiting \in BOOLEAN /\ idx \in 1 .. MaxThreads /\ (bpc = "wake" => idx \in Subs)
      /\ aborted \in {"no", "sleeping", "connected"}
      /\ threadnums \in 1 .. MaxThreads /\ MaxThreads \in Nat \ {0} /\ 0 \in Loops
      /\ 1 \in 1 .. MaxThreads
      /\ (bpc = "emplace" => idx \in Subs) /\ (bpc = "store" => idx \in Subs)
  BY BoundAssumption DEF NetInv, ServerInv, Shape, Progress, Asked, Loops
<1>1. \A i \in Subs : i + 1 \in 1 .. MaxThreads
  BY <1>0 DEF Subs
<1>2. CASE BaseListens
  BY <1>0, <1>2, ListenKeeps DEF BaseListens, Move
<1>3. CASE DestroyMembers
  BY <1>0, <1>3, DestroySingleKeeps DEF DestroyMembers, Move
<1>4. CASE StoreSleeping
  BY <1>0, <1>4, NetUntouched DEF StoreSleeping, Move
<1>5. CASE Emplace \/ WakeSub
  BY <1>0, <1>1, <1>5, NetUntouched DEF Emplace, WakeSub, Move
<1>6. CASE SkipLoop
  <2>1. idx + 1 \in 1 .. MaxThreads
    BY <1>0, <1>6 DEF SkipLoop
  <2> QED
    BY <1>0, <1>6, <2>1, NetUntouched DEF SkipLoop
<1>7. CASE Destroy
  BY <1>0, <1>7, NetUntouched DEF Destroy, Move
<1>8. CASE \/ CreateThread \/ StartReturns \/ TestEntry \/ Block \/ Unblock \/ StartFromQueue
           \/ TestLoop \/ AllAsked \/ Join
           \/ setNumThread \/ StartInline \/ BaseEnters \/ BaseStops \/ SpuriousWakeup
           \/ \E c \in Callers : Exchange(c) \/ QueueStart(c)
  <2>1. /\ UNCHANGED netVars /\ idx' = idx /\ aborted' = aborted
        /\ waiting' \in {waiting, TRUE, FALSE}
        /\ bpc' = bpc \/ bpc' # "wake"
    BY <1>8 DEF CreateThread, StartReturns, TestEntry, Block, Unblock, StartFromQueue, TestLoop,
       AllAsked, Join, setNumThread, StartInline, BaseEnters, BaseStops, SpuriousWakeup,
       Exchange, QueueStart, Move, baseVars, ServerInv, Shape
  <2> QED
    BY <1>0, <2>1, NetUntouched
<1> QED
  BY <1>2, <1>3, <1>4, <1>5, <1>6, <1>7, <1>8 DEF BaseStep

\* The invariant of the network side.
LEMMA NetInvariant == Spec => []NetInv
<1>1. Init => NetInv
  <2> SUFFICES ASSUME Init PROVE NetInv
    OBVIOUS
  <2>1. /\ 1 \in 1 .. MaxThreads /\ 0 \in 0 .. MaxRefused /\ 0 \in Loops
    BY BoundAssumption DEF Loops
  <2>2. client \in ClientType /\ phantoms \in [Loops -> Nat] /\ ready = {}
    BY <2>1 DEF Init, ClientType
  <2>3. FailuresExplained
    <3> SUFFICES ASSUME NEW l \in Loops
                 PROVE  phantoms[l] + (IF Deserted(l) THEN 1 ELSE 0)
                          <= refused + Cardinality(Departed(l))
      BY DEF FailuresExplained
    <3>1. phantoms[l] = 0 /\ ~Deserted(l) /\ refused = 0 /\ Cardinality(Departed(l)) \in Nat
      BY <2>2, DepartedFinite DEF Init, Deserted
    <3> QED
      BY <3>1
  <2>4. \A c \in Clients : client[c].at # "backlog"
    BY DEF Init
  <2>5. waiting = FALSE /\ idx = 1 /\ bpc = "setup" /\ listening = {} /\ refused = 0
        /\ aborted = "no"
    BY DEF Init
  <2> QED
    BY <2>1, <2>2, <2>3, <2>4, <2>5 DEF NetInv
<1>2. ServerInv /\ NetInv /\ [Next]_vars => NetInv'
  <2> SUFFICES ASSUME ServerInv, NetInv, [Next]_vars PROVE NetInv'
    OBVIOUS
  <2>1. ASSUME NEW i \in Subs, SubStep(i) PROVE NetInv'
    <3>1. i \in Loops /\ UNCHANGED <<bpc, idx>>
      BY <2>1 DEF SubStep, Publish, Notify, SubListens, EnterLoop, LeaveLoop, Unpublish, Unwind,
         baseVars, Loops
    <3>2. CASE SubListens(i)
      BY <3>1, <3>2, ListenKeeps DEF SubListens, baseVars, NetInv
    <3>3. CASE Unwind(i)
      BY <3>1, <3>3, DestroySingleKeeps DEF Unwind, baseVars
    <3>4. CASE Publish(i) \/ Notify(i) \/ EnterLoop(i) \/ LeaveLoop(i) \/ Unpublish(i)
      <4>1. UNCHANGED netVars /\ aborted' = aborted /\ waiting' \in {waiting, FALSE}
        BY <3>4 DEF Publish, Notify, EnterLoop, LeaveLoop, Unpublish, baseVars
      <4> QED
        BY <3>1, <4>1, NetUntouched DEF NetInv
    <3> QED
      BY <2>1, <3>2, <3>3, <3>4 DEF SubStep
  <2>2. CASE UNCHANGED vars
    BY <2>2, NetUntouched DEF vars, baseVars, NetInv
  <2> QED
    BY <2>1, <2>2, BaseKeepsNet, ClientSteps, AcceptSteps DEF Next
<1> QED
  BY <1>1, <1>2, ServerInvariant, PTL DEF Spec

\* The whole of what the run checks of the server: it keeps its shape, a failed
\* accept is never more than a lack of descriptors or a client that went away,
\* the destructor stores into loops that are alive, and it frees what no thread
\* uses any more.
THEOREM ServerSafe == Spec => []Safe
<1>1. ServerInv /\ NetInv => TypeOK
  <2> SUFFICES ASSUME ServerInv, NetInv PROVE TypeOK
    OBVIOUS
  <2>1. phantoms \in [Loops -> 0 .. MaxRefused + Cardinality(Clients)]
    <3> SUFFICES ASSUME NEW l \in Loops
                 PROVE  phantoms[l] \in 0 .. MaxRefused + Cardinality(Clients)
      BY DEF NetInv
    <3>1. /\ phantoms[l] \in Nat /\ refused \in 0 .. MaxRefused /\ MaxRefused \in Nat
          /\ phantoms[l] + (IF Deserted(l) THEN 1 ELSE 0) <= refused + Cardinality(Departed(l))
      BY BoundAssumption DEF NetInv, FailuresExplained
    <3> QED
      BY <3>1, DepartedFinite
  <2> QED
    BY <2>1 DEF TypeOK, ServerInv, Shape, NetInv, ClientType, BasePlaces, SubPlaces
<1> QED
  BY <1>1, ServerInvariant, NetInvariant, StopTouchesTheLiving, PTL DEF Safe
=============================================================================
