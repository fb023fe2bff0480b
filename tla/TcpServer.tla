----------------------------- MODULE TcpServer -----------------------------
(***************************************************************************)
(* net::TcpServer: a base loop and one thread per further loop, each with  *)
(* a TcpServerSingle that listens on the same port.  The base thread       *)
(* starts the threads one by one, runs its own loop, and at the end        *)
(* destroys the server, which puts the other loops to sleep and joins      *)
(* their threads.                                                          *)
(*                                                                         *)
(* A step of a thread is one access to what another thread can see:        *)
(* _state, an entry of _loops, the condition variable, _sleeping of a      *)
(* loop.  The inside of a loop is module EventLoop's; here an iteration is *)
(* a poll that may report the listening socket, its handler, and the test  *)
(* of _sleeping.  The poll's 100 ms limit makes every iteration end, so    *)
(* the eventfd is left out.                                                *)
(***************************************************************************)
EXTENDS Naturals, FiniteSets

CONSTANTS
    MaxThreads,  \* bound: the largest _threadnums
    Callers,     \* threads other than the base thread that call start()
    Clients,     \* each connects at most once
    MaxRefused,  \* bound: how often accept(2) fails for want of descriptors
    Spurious,    \* may pthread_cond_wait return without a notification?
    EarlyStop    \* may the server be destroyed before every loop is in loop()?

ASSUME BoundAssumption ==
    /\ MaxThreads \in Nat \ {0}
    /\ MaxRefused \in Nat
    /\ IsFiniteSet(Clients)
    /\ Spurious \in BOOLEAN
    /\ EarlyStop \in BOOLEAN

VARIABLES
    state,       \* _state
    threadnums,  \* _threadnums
    cpc,         \* where the other callers of start() are
    pending,     \* startInLoop tasks in the base loop's queue
    bpc,         \* where the base thread is
    back,        \* where startInLoop returns to: "setup" or "loop"
    idx,         \* i of startInLoop; the entry at hand of the destructor
    threads,     \* _threads
    waiting,     \* is the base thread blocked on _cond?
    loops,       \* _loops: is the entry set?
    spc,         \* where each sub-thread is
    created,     \* history: how many threads were created per index
    sleeping,    \* _sleeping of each sub-loop
    listening,   \* the loops whose listening socket is open
    ready,       \* the loops whose poll has reported the listening socket
    client,      \* where each client is, and at which loop
    phantoms,    \* per loop: connections made of a failed accept
    refused,     \* accepts that failed for want of descriptors so far
    aborted      \* the failed assert that ended the program

callVars == <<state, cpc, pending>>
baseVars == <<bpc, back, idx, threads, waiting>>
subVars  == <<loops, spc, created, sleeping>>
netVars  == <<listening, ready, client, phantoms, refused>>
vars     == <<callVars, threadnums, baseVars, subVars, netVars, aborted>>

Subs  == 1 .. MaxThreads - 1
Loops == {0} \cup Subs

Starting == {"listen", "create", "test", "wait", "blocked", "emplace"}
Stopping == {"entry", "store", "wake", "join", "members"}

TypeOK ==
    /\ state \in BOOLEAN
    /\ threadnums \in 1 .. MaxThreads
    /\ cpc \in [Callers -> {"idle", "won", "done"}]
    /\ pending \in Nat
    /\ bpc \in {"setup", "loop", "stopped", "destroyed"} \cup Starting \cup Stopping
    /\ back \in {"setup", "loop"}
    /\ idx \in 1 .. MaxThreads
    /\ threads \subseteq Subs
    /\ waiting \in BOOLEAN
    /\ loops \in [Subs -> BOOLEAN]
    /\ spc \in [Subs -> {"none", "born", "notify", "init", "enter", "loop",
                         "left", "unwind", "done"}]
    /\ created \in [Subs -> Nat]
    /\ sleeping \in [Subs -> BOOLEAN]
    /\ listening \subseteq Loops /\ ready \subseteq listening
    /\ client \in [Clients -> [at : {"new", "backlog", "up", "gone"}, on : Loops]]
    /\ phantoms \in [Loops -> 0 .. MaxRefused + Cardinality(Clients)]
    /\ refused \in 0 .. MaxRefused
    /\ aborted \in {"no", "sleeping", "connected"}

Init ==
    /\ state = FALSE
    /\ threadnums = 1
    /\ cpc = [c \in Callers |-> "idle"]
    /\ pending = 0
    /\ bpc = "setup" /\ back = "setup" /\ idx = 1
    /\ threads = {}
    /\ waiting = FALSE
    /\ loops = [i \in Subs |-> FALSE]
    /\ spc = [i \in Subs |-> "none"]
    /\ created = [i \in Subs |-> 0]
    /\ sleeping = [i \in Subs |-> FALSE]
    /\ listening = {} /\ ready = {}
    /\ client = [c \in Clients |-> [at |-> "new", on |-> 0]]
    /\ phantoms = [l \in Loops |-> 0]
    /\ refused = 0
    /\ aborted = "no"

ClientsAt(l, place) == {c \in Clients : client[c] = [at |-> place, on |-> l]}
Backlog(l)     == ClientsAt(l, "backlog")
Connections(l) == ClientsAt(l, "up")

(***************************************************************************)
(* setNumThread and start()                                                *)
(***************************************************************************)
\* The assert of !_state is the caller's obligation.
setNumThread ==
    /\ bpc = "setup" /\ ~state /\ threadnums = 1
    /\ threadnums' \in 1 .. MaxThreads
    /\ UNCHANGED <<callVars, baseVars, subVars, netVars, aborted>>

\* start() in another thread; the server must outlive the call.
Exchange(c) ==
    /\ cpc[c] = "idle" /\ bpc \notin Stopping \cup {"destroyed"}
    /\ state' = TRUE
    /\ cpc' = [cpc EXCEPT ![c] = IF state THEN "done" ELSE "won"]
    /\ UNCHANGED <<pending, threadnums, baseVars, subVars, netVars, aborted>>

QueueStart(c) ==
    /\ cpc[c] = "won"
    /\ cpc' = [cpc EXCEPT ![c] = "done"]
    /\ pending' = pending + 1
    /\ UNCHANGED <<state, threadnums, baseVars, subVars, netVars, aborted>>

BaseIsFree == bpc \in {"setup", "loop"} /\ 0 \notin ready

\* start() in the base thread: addTask runs startInLoop at once.
StartInline ==
    /\ BaseIsFree /\ ~state
    /\ state' = TRUE
    /\ bpc' = "listen" /\ back' = bpc
    /\ UNCHANGED <<cpc, pending, idx, threads, waiting, threadnums, subVars, netVars, aborted>>

\* doPendingTasks of the base loop.
StartFromQueue ==
    /\ bpc = "loop" /\ 0 \notin ready /\ pending > 0
    /\ pending' = pending - 1
    /\ bpc' = "listen" /\ back' = "loop"
    /\ UNCHANGED <<state, cpc, idx, threads, waiting, threadnums, subVars, netVars, aborted>>

(***************************************************************************)
(* startInLoop, in the base thread                                         *)
(***************************************************************************)
Move(from, to) == bpc = from /\ bpc' = to

BaseListens ==
    /\ Move("listen", "create")
    /\ listening' = listening \cup {0}
    /\ idx' = 1
    /\ UNCHANGED <<callVars, threadnums, back, threads, waiting, subVars, ready, client,
                   phantoms, refused, aborted>>

CreateThread ==
    /\ idx < threadnums
    /\ Move("create", "test")
    /\ spc' = [spc EXCEPT ![idx] = "born"]
    /\ created' = [created EXCEPT ![idx] = @ + 1]
    /\ UNCHANGED <<callVars, threadnums, back, idx, threads, waiting, loops, sleeping,
                   netVars, aborted>>

StartReturns ==
    /\ idx >= threadnums
    /\ Move("create", back)
    /\ UNCHANGED <<callVars, threadnums, back, idx, threads, waiting, subVars, netVars, aborted>>

TestEntry ==
    /\ Move("test", IF loops[idx] THEN "emplace" ELSE "wait")
    /\ UNCHANGED <<callVars, threadnums, back, idx, threads, waiting, subVars, netVars, aborted>>

\* Sem_t::wait up to the moment the thread is on the condition variable.
Block ==
    /\ Move("wait", "blocked")
    /\ waiting' = TRUE
    /\ UNCHANGED <<callVars, threadnums, back, idx, threads, subVars, netVars, aborted>>

\* Mutant of Unblock: `if` instead of `while`.
UnblockOnce ==
    /\ Move("blocked", "emplace")
    /\ Spurious \/ ~waiting
    /\ waiting' = FALSE
    /\ UNCHANGED <<callVars, threadnums, back, idx, threads, subVars, netVars, aborted>>

Unblock ==
    /\ Move("blocked", "test")
    /\ ~waiting
    /\ UNCHANGED <<callVars, threadnums, back, idx, threads, waiting, subVars, netVars, aborted>>

SpuriousWakeup ==
    /\ Spurious /\ bpc = "blocked" /\ waiting
    /\ waiting' = FALSE
    /\ UNCHANGED <<callVars, threadnums, bpc, back, idx, threads, subVars, netVars, aborted>>

Emplace ==
    /\ Move("emplace", "create")
    /\ threads' = threads \cup {idx}
    /\ idx' = idx + 1
    /\ UNCHANGED <<callVars, threadnums, back, waiting, subVars, netVars, aborted>>

(***************************************************************************)
(* runInThread                                                             *)
(***************************************************************************)
Go(i, from, to) == spc[i] = from /\ spc' = [spc EXCEPT ![i] = to]

Publish(i) ==
    /\ Go(i, "born", "notify")
    /\ loops' = [loops EXCEPT ![i] = TRUE]
    /\ UNCHANGED <<callVars, threadnums, baseVars, created, sleeping, netVars, aborted>>

\* notify_one under _mutex, which the base thread does not hold when it tests
\* the entry: it wakes the base thread only if that is already blocked.
Notify(i) ==
    /\ Go(i, "notify", "init")
    /\ waiting' = FALSE
    /\ UNCHANGED <<callVars, threadnums, bpc, back, idx, threads, loops, created, sleeping,
                   netVars, aborted>>

\* The init callback and Acceptor::listen.
SubListens(i) ==
    /\ Go(i, "init", "enter")
    /\ listening' = listening \cup {i}
    /\ UNCHANGED <<callVars, threadnums, baseVars, loops, created, sleeping, ready, client,
                   phantoms, refused, aborted>>

EnterLoop(i) ==
    /\ Go(i, "enter", "loop")
    /\ sleeping' = [sleeping EXCEPT ![i] = FALSE]
    /\ UNCHANGED <<callVars, threadnums, baseVars, loops, created, netVars, aborted>>

LeaveLoop(i) ==
    /\ sleeping[i] /\ i \notin ready
    /\ Go(i, "loop", "left")
    /\ UNCHANGED <<callVars, threadnums, baseVars, loops, created, sleeping, netVars, aborted>>

Unpublish(i) ==
    /\ Go(i, "left", "unwind")
    /\ loops' = [loops EXCEPT ![i] = FALSE]
    /\ UNCHANGED <<callVars, threadnums, baseVars, created, sleeping, netVars, aborted>>

\* ~TcpServerSingle of loop l: a connection still in the set fails the assert
\* of ~TcpConnection; without one the listening socket is closed, and with it
\* what is in the backlog.
DestroySingle(l) ==
    /\ aborted' = IF Connections(l) # {} \/ phantoms[l] > 0 THEN "connected" ELSE aborted
    /\ listening' = listening \ {l}
    /\ client' = [c \in Clients |->
                    IF c \in Backlog(l) THEN [client[c] EXCEPT !.at = "gone"] ELSE client[c]]
    /\ ready' = ready \ {l}
    /\ UNCHANGED <<phantoms, refused>>

Unwind(i) ==
    /\ Go(i, "unwind", "done")
    /\ DestroySingle(i)
    /\ UNCHANGED <<callVars, threadnums, baseVars, loops, created, sleeping>>

(***************************************************************************)
(* The base loop and the destructor                                        *)
(***************************************************************************)
BaseEnters ==
    /\ Move("setup", "loop")
    /\ UNCHANGED <<callVars, threadnums, back, idx, threads, waiting, subVars, netVars, aborted>>

\* The user has put the base loop to sleep, or never runs it.
BaseStops ==
    /\ BaseIsFree
    /\ bpc' = "stopped"
    /\ UNCHANGED <<callVars, threadnums, back, idx, threads, waiting, subVars, netVars, aborted>>

Destroy ==
    /\ Move("stopped", "entry")
    /\ \A c \in Callers : cpc[c] # "won"
    /\ EarlyStop \/ \A i \in threads : spc[i] = "loop"
    /\ idx' = 1
    /\ UNCHANGED <<callVars, threadnums, back, threads, waiting, subVars, netVars, aborted>>

TestLoop ==
    /\ idx < threadnums /\ loops[idx]
    /\ Move("entry", "store")
    /\ UNCHANGED <<callVars, threadnums, back, idx, threads, waiting, subVars, netVars, aborted>>

SkipLoop ==
    /\ bpc = "entry" /\ idx < threadnums /\ ~loops[idx]
    /\ idx' = idx + 1
    /\ UNCHANGED <<callVars, threadnums, bpc, back, threads, waiting, subVars, netVars, aborted>>

\* Mutant of StoreSleeping: only the wakeup is sent.
StoreSleepingNot ==
    /\ Move("store", "wake")
    /\ UNCHANGED <<callVars, threadnums, back, idx, threads, waiting, subVars, netVars, aborted>>

\* EventLoop::sleep of the entry: the assert and the store.
StoreSleeping ==
    /\ Move("store", "wake")
    /\ aborted' = IF sleeping[idx] THEN "sleeping" ELSE aborted
    /\ sleeping' = [sleeping EXCEPT ![idx] = TRUE]
    /\ UNCHANGED <<callVars, threadnums, back, idx, threads, waiting, loops, spc, created, netVars>>

\* What sleep() does after the store, isInLoopThread() and wakeup(): the loop may
\* have seen the store and be gone by now (WakeIsSafe).
WakeSub ==
    /\ Move("wake", "entry")
    /\ idx' = idx + 1
    /\ UNCHANGED <<callVars, threadnums, back, threads, waiting, subVars, netVars, aborted>>

AllAsked ==
    /\ idx >= threadnums
    /\ Move("entry", "join")
    /\ UNCHANGED <<callVars, threadnums, back, idx, threads, waiting, subVars, netVars, aborted>>

\* Mutant of Join: a thread whose entry is already cleared is taken for gone.
JoinCleared ==
    /\ \A i \in threads : ~loops[i]
    /\ Move("join", "members")
    /\ UNCHANGED <<callVars, threadnums, back, idx, threads, waiting, subVars, netVars, aborted>>

Join ==
    /\ \A i \in threads : spc[i] = "done"
    /\ Move("join", "members")
    /\ UNCHANGED <<callVars, threadnums, back, idx, threads, waiting, subVars, netVars, aborted>>

\* The members go: _baseServer, if there is one.
DestroyMembers ==
    /\ Move("members", "destroyed")
    /\ DestroySingle(0)
    /\ UNCHANGED <<callVars, threadnums, back, idx, threads, waiting, subVars>>

(***************************************************************************)
(* Acceptor, TcpServerSingle and the clients                               *)
(***************************************************************************)
InLoop(l) == IF l = 0 THEN bpc = "loop" ELSE spc[l] = "loop"

\* The kernel spreads the clients over the sockets of the port (SO_REUSEPORT).
Connect(c) ==
    /\ client[c].at = "new"
    /\ \E l \in listening : client' = [client EXCEPT ![c] = [at |-> "backlog", on |-> l]]
    /\ UNCHANGED <<callVars, threadnums, baseVars, subVars, listening, ready, phantoms,
                   refused, aborted>>

GiveUp(c) ==
    /\ client[c].at = "backlog"
    /\ client' = [client EXCEPT ![c].at = "gone"]
    /\ UNCHANGED <<callVars, threadnums, baseVars, subVars, listening, ready, phantoms,
                   refused, aborted>>

Poll(l) ==
    /\ InLoop(l) /\ l \notin ready /\ Backlog(l) # {}
    /\ ready' = ready \cup {l}
    /\ UNCHANGED <<callVars, threadnums, baseVars, subVars, listening, client, phantoms,
                   refused, aborted>>

\* Mutant of Accept: the event is dropped without a call of accept().
AcceptNot(l) ==
    /\ InLoop(l) /\ l \in ready
    /\ ready' = ready \ {l}
    /\ UNCHANGED <<callVars, threadnums, baseVars, subVars, listening, client, phantoms,
                   refused, aborted>>

\* Acceptor::handleRead and TcpServerSingle::OnConnection.  One connection is
\* taken per event.  A failed accept is only logged, and -1 goes on to
\* OnConnection as a descriptor: the set gets an entry no event will remove.
Accept(l) ==
    /\ InLoop(l) /\ l \in ready
    /\ ready' = ready \ {l}
    /\ \/ \E c \in Backlog(l) : client' = [client EXCEPT ![c].at = "up"]
          /\ UNCHANGED <<phantoms, refused>>
       \/ /\ Backlog(l) = {}
          /\ phantoms' = [phantoms EXCEPT ![l] = @ + 1]
          /\ UNCHANGED <<client, refused>>
       \/ /\ Backlog(l) # {} /\ refused < MaxRefused
          /\ phantoms' = [phantoms EXCEPT ![l] = @ + 1]
          /\ refused' = refused + 1
          /\ UNCHANGED client
    /\ UNCHANGED <<callVars, threadnums, baseVars, subVars, listening, aborted>>

\* TcpServerSingle::closeConnection, from a handler of the connection.
CloseConnection(c) ==
    /\ client[c].at = "up" /\ InLoop(client[c].on)
    /\ client' = [client EXCEPT ![c].at = "gone"]
    /\ UNCHANGED <<callVars, threadnums, baseVars, subVars, listening, ready, phantoms,
                   refused, aborted>>

(***************************************************************************)
(* The whole                                                               *)
(***************************************************************************)
BaseStep ==
    \/ BaseListens \/ CreateThread \/ StartReturns \/ TestEntry \/ Block \/ Unblock \/ Emplace
    \/ StartFromQueue
    \/ TestLoop \/ SkipLoop \/ StoreSleeping \/ WakeSub \/ AllAsked \/ Join \/ DestroyMembers

SubStep(i) ==
    \/ Publish(i) \/ Notify(i) \/ SubListens(i) \/ EnterLoop(i)
    \/ LeaveLoop(i) \/ Unpublish(i) \/ Unwind(i)

Next ==
    /\ aborted = "no"
    /\ \/ setNumThread \/ StartInline \/ BaseEnters \/ BaseStops \/ Destroy \/ SpuriousWakeup
       \/ BaseStep
       \/ \E c \in Callers : Exchange(c) \/ QueueStart(c)
       \/ \E i \in Subs : SubStep(i)
       \/ \E l \in Loops : Poll(l) \/ Accept(l)
       \/ \E c \in Clients : Connect(c) \/ GiveUp(c) \/ CloseConnection(c)

Spec == Init /\ [][Next]_vars

\* Every thread goes on with what it has begun, and an iteration of a loop
\* polls and handles what the poll reported.  Nobody has to call start(), to
\* connect, or to destroy the server; no spurious wakeup has to come.
Fairness ==
    /\ WF_vars(aborted = "no" /\ BaseStep)
    /\ \A i \in Subs : WF_vars(aborted = "no" /\ SubStep(i))
    /\ \A l \in Loops : WF_vars(aborted = "no" /\ (Poll(l) \/ Accept(l)))

FairSpec == Spec /\ Fairness

(***************************************************************************)
(* Properties                                                              *)
(***************************************************************************)
\* However many threads call start(), and whichever of them wins, no index gets
\* a second thread; and when startInLoop is over, or has come to the next index,
\* every thread it created has published its loop and is in the list the
\* destructor joins.  The wait may be woken by a notification or by nothing.
StartPublishes ==
    \A i \in Subs :
        /\ created[i] <= 1
        /\ created[i] > 0 /\ ~(bpc \in Starting /\ idx = i)
              => spc[i] # "born" /\ i \in threads

\* What the destructor writes and what it frees.  sleep()'s store into _sleeping
\* finds the loop alive and awake: an entry that was not nullptr when it was
\* tested belongs to a thread that has not left runInThread.  When the members of
\* the server go, no thread uses them any more.  What sleep() does after the
\* store is not in this: see WakeIsSafe.
StopIsSafe ==
    /\ bpc = "store" => spc[idx] \notin {"none", "born", "unwind", "done"} /\ ~sleeping[idx]
    /\ bpc \in {"members", "destroyed"} => \A i \in Subs : spc[i] \in {"none", "done"}

\* sleep() goes on to isInLoopThread() and wakeup() on the loop it has stored into
\* (EventLoop.cpp:144-145), so that loop should still be alive then.  No run checks
\* it, because it does not hold: the store lets the loop end.
WakeIsSafe == bpc = "wake" => spc[idx] \notin {"unwind", "done"}

\* The shape of the server, with the phantoms that failed accepts explain, and
\* what the destructor stores into and frees.
Safe == TypeOK /\ StopIsSafe

\* start() starts every loop: whoever has called it, the base thread comes
\* back from startInLoop.
StartsAll == (bpc \in Starting) ~> (bpc \notin Starting)

\* A client in the backlog is accepted, gives up, or loses its listener; a
\* failed accept does not lose it.
Served ==
    \A c \in Clients :
        (client[c].at = "backlog" /\ InLoop(client[c].on))
            ~> (client[c].at # "backlog" \/ ~InLoop(client[c].on) \/ aborted # "no")

\* The destructor ends, unless a connection is still up.
StopEnds == (bpc \in Stopping) ~> (bpc = "destroyed" \/ aborted = "connected")
=============================================================================
