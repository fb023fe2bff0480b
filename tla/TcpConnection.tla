--------------------------- MODULE TcpConnection ----------------------------
(***************************************************************************)
(* net::TcpConnection, accepted by a TcpServerSingle: its state, its       *)
(* channel's interest set, the output buffer, the socket as the code sees  *)
(* it, and the threads that call it.                                       *)
(*                                                                         *)
(* The loop thread runs the handlers; a handler is one step up to the user *)
(* callback it ends in (another thread shares only _state and the queue,   *)
(* and no handler reads _state twice in a way such a thread could tell).   *)
(* Calls of other threads are split at each access to _state.  Members     *)
(* are pure operators on the record `conn`; a byte is its position in the  *)
(* sequence of all bytes accepted by sendInLoop.                           *)
(***************************************************************************)
EXTENDS Naturals, Sequences, FiniteSets

CONSTANTS
    Users,             \* threads other than the loop thread with a shared_ptr
    UserMay,           \* what they call: a subset of Calls
    LoopMay,           \* what the user's callbacks call in the loop thread
    HighMay,           \* what the high-water-mark callback calls
    PeerMay,           \* what the peer may do: send urgent data, and how it may
                       \* end: a subset of {"urgent", "eof", "reset"}
    WriteCompleteSet,  \* is a write-complete callback set?
    HighWaterSet,      \* is a high-water-mark callback set?
    HighWaterMark,     \* _highWaterMark
    MaxLen,            \* bound: bytes in one send
    MaxSend,           \* bound: sends in all
    MaxCalls           \* bound: other calls, per thread

Calls == {"send", "shutdown", "forceClose", "stopRead", "startRead"}

ASSUME CallAssumption ==
    /\ UserMay \subseteq Calls /\ LoopMay \subseteq Calls /\ HighMay \subseteq Calls
    /\ PeerMay \subseteq {"urgent", "eof", "reset"}

ASSUME BoundAssumption ==
    /\ WriteCompleteSet \in BOOLEAN /\ HighWaterSet \in BOOLEAN
    /\ HighWaterMark \in Nat /\ MaxSend \in Nat /\ MaxCalls \in Nat
    /\ MaxLen \in Nat \ {0}

VARIABLES
    conn,     \* the connection (see ConnType)
    peer,     \* the other end: "open", "eof", "reset", "dead" (reset, and the
              \* pending socket error has been consumed)
    revents,  \* the events of the channel this iteration has still to handle
    lpc,      \* "accept", then what loop() is doing: "poll", "events", "tasks"
    queue,    \* _pendingTasks of the loop
    batch,    \* the tasks doPendingTasks is running
    stack,    \* user callbacks, and a send they interrupted, in the loop thread
    upc,      \* per user thread: the call it is in
    held,     \* per user thread: does it still hold its shared_ptr?
    sends,    \* sends so far
    calls,    \* per thread: other calls so far
    forced    \* history: forceClose has been called

loopVars == <<revents, lpc, queue, batch, stack>>
userVars == <<upc, held>>
history  == <<sends, calls, forced>>
vars     == <<conn, peer, loopVars, userVars, history>>

Loop  == "loop"
Idle  == [op |-> "none", at |-> "idle", was |-> FALSE, len |-> 0]
Tasks == [op : Calls, len : 0 .. MaxLen]
Frame == [kind : {"user", "high", "rest"}, data : Seq(Nat)]
User  == [kind |-> "user", data |-> <<>>]
High  == [kind |-> "high", data |-> <<>>]
Rest(data) == [kind |-> "rest", data |-> data]

ConnType ==
    [state    : {"Connecting", "Connected", "Disconnecting", "Disconnected"},
     events   : SUBSET {"IN", "PRI", "OUT"},  \* Channel::events_
     polling  : BOOLEAN,                      \* Channel::polling
     output   : Seq(Nat),                     \* _output
     wire     : Seq(Nat),                     \* what write(2) took
     accepted : Nat,                          \* bytes sendInLoop was given
     wrShut   : BOOLEAN,                      \* shutdown(SHUT_WR) called
     listed   : BOOLEAN,                      \* in TcpServerSingle::_connections
     lost     : BOOLEAN,                      \* a write failed for good
     failed   : {"no", "assert", "freed"},    \* an assert or a use after free
     freed    : BOOLEAN]                      \* ~TcpConnection has run

TypeOK ==
    /\ conn \in ConnType
    /\ conn.polling = (conn.events # {})
    /\ peer \in {"open", "eof", "reset", "dead"}
    /\ revents \subseteq {"IN", "PRI", "OUT", "HUP", "ERR"}
    /\ lpc \in {"accept", "poll", "events", "tasks"}
    /\ queue \in Seq(Tasks) /\ batch \in Seq(Tasks)
    /\ stack \in Seq(Frame)
    /\ upc \in [Users -> [op : Calls \cup {"none"}, was : BOOLEAN, len : 0 .. MaxLen,
                          at : {"idle", "assert", "test", "set", "push"}]]
    /\ held \in [Users -> BOOLEAN]
    /\ sends \in 0 .. MaxSend
    /\ calls \in [Users \cup {Loop} -> 0 .. MaxCalls]
    /\ forced \in BOOLEAN

Init ==
    /\ conn = [state |-> "Connecting", events |-> {}, polling |-> FALSE,
               output |-> <<>>, wire |-> <<>>, accepted |-> 0, wrShut |-> FALSE,
               listed |-> FALSE, lost |-> FALSE, failed |-> "no", freed |-> FALSE]
    /\ peer = "open"
    /\ revents = {}
    /\ lpc = "accept"
    /\ queue = <<>> /\ batch = <<>> /\ stack = <<>>
    /\ upc = [u \in Users |-> Idle]
    /\ held = [u \in Users |-> FALSE]
    /\ sends = 0
    /\ calls = [t \in Users \cup {Loop} |-> 0]
    /\ forced = FALSE

(***************************************************************************)
(* The channel                                                             *)
(***************************************************************************)
Fail(c) == [c EXCEPT !.failed = "assert"]

\* Epoller::updateChannel: add, modify or delete, after the interest set.
update(c) ==
    IF ~c.polling /\ c.events = {} THEN Fail(c)
    ELSE [c EXCEPT !.polling = c.events # {}]

enableRead(c)   == update([c EXCEPT !.events = @ \cup {"IN", "PRI"}])
disableRead(c)  == update([c EXCEPT !.events = @ \ {"IN"}])
enableWrite(c)  == update([c EXCEPT !.events = @ \cup {"OUT"}])
disableWrite(c) == update([c EXCEPT !.events = @ \ {"OUT"}])
disableAll(c)   == update([c EXCEPT !.events = {}])

isReading(c) == "IN" \in c.events
isWriting(c) == "OUT" \in c.events

(***************************************************************************)
(* The members, in the loop thread                                         *)
(***************************************************************************)
\* write(2) fails for good with EPIPE or ECONNRESET.
Broken(c) == c.wrShut \/ peer \in {"reset", "dead"}

\* Mutant of Keep: EPOLLOUT is not asked for.
KeepQuietly(c, data) == [c EXCEPT !.output = @ \o data]

\* Data that write(2) did not take: to the output buffer, to be written when
\* the socket is writable.
Keep(c, data) == enableWrite([c EXCEPT !.output = @ \o data])

\* What sendInLoop leaves behind: the connection, and the callbacks it calls
\* before it is done, in front of what it has still to do then.  Without a
\* high-water-mark callback nothing is kept.
Remainder(c, data) ==
    LET oldlen == Len(c.output)
        newlen == oldlen + Len(data)
    IN IF ~HighWaterSet THEN [conn |-> c, frames |-> <<>>]
       ELSE IF oldlen < HighWaterMark /\ newlen >= HighWaterMark
       THEN [conn |-> c, frames |-> <<Rest(data), High>>]
       ELSE [conn |-> Keep(c, data), frames |-> <<>>]

\* Mutant of sendInLoop: it writes although older bytes are buffered.
sendAtOnce(c, len) ==
    LET data == [i \in 1 .. len |-> c.accepted + i]
        a == [c EXCEPT !.accepted = @ + len]
    IN IF c.state = "Disconnected" THEN {[conn |-> c, frames |-> <<>>]}
       ELSE IF Broken(c) THEN {[conn |-> [a EXCEPT !.lost = TRUE], frames |-> <<>>]}
       ELSE {IF n = len
             THEN [conn |-> [a EXCEPT !.wire = @ \o data],
                   frames |-> IF WriteCompleteSet THEN <<User>> ELSE <<>>]
             ELSE Remainder([a EXCEPT !.wire = @ \o SubSeq(data, 1, n)],
                            SubSeq(data, n + 1, len)) : n \in 0 .. len}

\* Mutant of sendInLoop: it does not look at isWriting().
sendUnguarded(c, len) ==
    LET data == [i \in 1 .. len |-> c.accepted + i]
        a == [c EXCEPT !.accepted = @ + len]
    IN IF c.state = "Disconnected" THEN {[conn |-> c, frames |-> <<>>]}
       ELSE IF c.output # <<>> THEN {[conn |-> Fail(a), frames |-> <<>>]}
       ELSE {Remainder([a EXCEPT !.wire = @ \o SubSeq(data, 1, n)],
                       SubSeq(data, n + 1, len)) : n \in 0 .. len - 1}

sendInLoop(c, len) ==
    LET data == [i \in 1 .. len |-> c.accepted + i]
        a == [c EXCEPT !.accepted = @ + len]
    IN IF c.state = "Disconnected" THEN {[conn |-> c, frames |-> <<>>]}
       ELSE IF isWriting(c) THEN {Remainder(a, data)}
       ELSE IF c.output # <<>> THEN {[conn |-> Fail(a), frames |-> <<>>]}
       ELSE IF Broken(c) THEN {[conn |-> [a EXCEPT !.lost = TRUE], frames |-> <<>>]}
       ELSE {IF n = len
             THEN [conn |-> [a EXCEPT !.wire = @ \o data],
                   frames |-> IF WriteCompleteSet THEN <<User>> ELSE <<>>]
             ELSE Remainder([a EXCEPT !.wire = @ \o SubSeq(data, 1, n)],
                            SubSeq(data, n + 1, len)) : n \in 0 .. len}

\* Mutant of shutdownInLoop: it does not wait for the buffer.
shutdownNow(c) == IF c.state # "Disconnected" THEN [c EXCEPT !.wrShut = TRUE] ELSE c

shutdownInLoop(c) ==
    IF c.state # "Disconnected" /\ ~isWriting(c) THEN [c EXCEPT !.wrShut = TRUE] ELSE c

\* Mutant of Close: the server is not told.
CloseQuietly(c) ==
    IF c.state \notin {"Connected", "Disconnecting"} THEN Fail(c)
    ELSE disableAll([c EXCEPT !.state = "Disconnected"])

\* Close, and TcpServerSingle::closeConnection behind it; the connection
\* callback of the user is a frame the caller adds.
Close(c) ==
    IF c.state \notin {"Connected", "Disconnecting"} \/ ~c.listed THEN Fail(c)
    ELSE disableAll([c EXCEPT !.state = "Disconnected", !.listed = FALSE])

\* shutdown() called in the loop thread.
shutdown(c) ==
    IF c.state = "Connected" THEN shutdownInLoop([c EXCEPT !.state = "Disconnecting"])
    ELSE [c EXCEPT !.state = "Disconnecting"]

stopRead(c)  == IF isReading(c) THEN disableRead(c) ELSE c
startRead(c) == IF isReading(c) THEN c ELSE enableRead(c)

\* A step of the loop thread that turns the connection into c and calls the
\* callbacks in frames, on top of what is below.
Become(c, below, frames) ==
    /\ conn' = c
    /\ stack' = below \o frames

(***************************************************************************)
(* Lifetime                                                                *)
(***************************************************************************)
Owning(s) == \E i \in 1 .. Len(s) : s[i].op \in {"send", "shutdown", "forceClose"}

\* A shared_ptr exists: in the server's set, in a user thread, bound to a
\* task, or on the stack of the loop thread.
Referenced ==
    \/ conn.listed
    \/ \E u \in Users : held[u] \/ upc[u] # Idle
    \/ Owning(queue) \/ Owning(batch)
    \/ stack # <<>> \/ lpc \in {"accept", "events"}

Alive == conn.failed = "no"

\* ~TcpConnection
Destroy ==
    /\ Alive /\ ~conn.freed /\ ~Referenced
    /\ conn' = [(IF conn.state # "Disconnected" THEN Fail(conn) ELSE conn)
                  EXCEPT !.freed = TRUE]
    /\ UNCHANGED <<peer, loopVars, userVars, history>>

Drop(u) ==
    /\ Alive /\ held[u] /\ upc[u] = Idle
    /\ held' = [held EXCEPT ![u] = FALSE]
    /\ UNCHANGED <<conn, peer, loopVars, upc, history>>

(***************************************************************************)
(* The loop thread                                                         *)
(***************************************************************************)
InLoop(pc) == Alive /\ lpc = pc /\ stack = <<>>

\* TcpServerSingle::OnConnection: the connection callback hands the shared_ptr
\* to the other threads.
OnConnection ==
    /\ InLoop("accept")
    /\ Become(enableRead([conn EXCEPT !.listed = TRUE, !.state = "Connected"]), <<>>, <<User>>)
    /\ held' = [u \in Users |-> TRUE]
    /\ lpc' = "poll"
    /\ UNCHANGED <<peer, revents, queue, batch, upc, history>>

\* What a level-triggered epoll_wait must report of the socket.
Must ==
    {e \in {"IN", "OUT", "HUP", "ERR"} :
        \/ e = "IN" /\ isReading(conn) /\ peer # "open"
        \/ e = "OUT" /\ isWriting(conn) /\ Broken(conn)
        \/ e = "HUP" /\ (peer \in {"reset", "dead"} \/ (peer = "eof" /\ conn.wrShut))
        \/ e = "ERR" /\ peer = "reset"}

\* What it may report as well: data from the peer, urgent data, room in the
\* socket.  disableRead leaves EPOLLPRI in the interest set.
Can == conn.events \cap ({"IN", "OUT"} \cup IF "urgent" \in PeerMay THEN {"PRI"} ELSE {})

\* A channel whose tie no longer locks is not handled.  A hang-up that comes
\* with EPOLLIN, and with EPOLLIN only, is left to Read.
Poll ==
    /\ InLoop("poll")
    /\ IF conn.polling /\ ~conn.freed /\ Referenced
       THEN \E may \in SUBSET Can :
              LET all == Must \cup may
              IN revents' = IF "IN" \in all THEN all \ {"HUP"} ELSE all
       ELSE revents' = {}
    /\ lpc' = "events"
    /\ UNCHANGED <<conn, peer, queue, batch, stack, userVars, history>>

\* One test of handleEventsGuard: some of the events it names are there, and
\* those of the tests before it have been handled.
Take(these, earlier) ==
    /\ InLoop("events")
    /\ revents \cap these # {} /\ revents \cap earlier = {}
    /\ revents' = revents \ these
    /\ UNCHANGED <<lpc, queue, batch, userVars, history>>

HandleClose ==
    /\ Take({"HUP"}, {})
    /\ Become(Close(conn), <<>>, <<User>>)
    /\ UNCHANGED peer

\* Error() reads, and so clears, the pending error of the socket.
HandleError ==
    /\ Take({"ERR"}, {"HUP"})
    /\ peer' = IF peer = "reset" THEN "dead" ELSE peer
    /\ UNCHANGED <<conn, stack>>

\* Read(), for EPOLLIN and for EPOLLPRI: data for the decoder and the message
\* callback, the end of the stream, or an error that is logged (also that there
\* is nothing to read, when only urgent data woke the loop).
HandleRead ==
    /\ Take({"IN", "PRI"}, {"HUP", "ERR"})
    /\ IF conn.state = "Disconnected"
       THEN Become(Fail(conn), <<>>, <<>>) /\ UNCHANGED peer
       ELSE \/ peer = "open" /\ Become(conn, <<>>, <<User>>) /\ UNCHANGED peer
            \/ peer = "open" /\ "IN" \notin revents /\ UNCHANGED <<conn, stack, peer>>
            \/ peer \in {"eof", "dead"} /\ Become(Close(conn), <<>>, <<User>>) /\ UNCHANGED peer
            \/ peer = "reset" /\ peer' = "dead" /\ UNCHANGED <<conn, stack>>

\* Mutant of Written: the shutdown that waited for the buffer is forgotten.
WrittenNoShutdown(n) ==
    LET c == [conn EXCEPT !.wire = @ \o SubSeq(conn.output, 1, n),
                          !.output = SubSeq(@, n + 1, Len(@))]
    IN IF c.output # <<>> THEN Become(c, <<>>, <<>>)
       ELSE Become(disableWrite(c), <<>>, IF WriteCompleteSet THEN <<User>> ELSE <<>>)

\* Mutant of Written: the interest in EPOLLOUT outlives the buffer.
WrittenStillWriting(n) ==
    LET c == [conn EXCEPT !.wire = @ \o SubSeq(conn.output, 1, n),
                          !.output = SubSeq(@, n + 1, Len(@))]
    IN Become(c, <<>>, IF c.output = <<>> /\ WriteCompleteSet THEN <<User>> ELSE <<>>)

\* Write(), when write(2) takes n bytes of the output buffer.
Written(n) ==
    LET c == [conn EXCEPT !.wire = @ \o SubSeq(conn.output, 1, n),
                          !.output = SubSeq(@, n + 1, Len(@))]
    IN IF c.output # <<>> THEN Become(c, <<>>, <<>>)
       ELSE Become(IF c.state = "Disconnecting" THEN shutdownInLoop(disableWrite(c))
                   ELSE disableWrite(c),
                   <<>>, IF WriteCompleteSet THEN <<User>> ELSE <<>>)

\* Write(): a failing write(2) is logged and the data stay.
HandleWrite ==
    /\ Take({"OUT"}, {"HUP", "ERR", "IN", "PRI"})
    /\ UNCHANGED peer
    /\ IF conn.state = "Disconnected" THEN UNCHANGED <<conn, stack>>
       ELSE IF conn.output = <<>> \/ ~isWriting(conn) THEN Become(Fail(conn), <<>>, <<>>)
       ELSE IF Broken(conn) THEN UNCHANGED <<conn, stack>>
       ELSE \E n \in 0 .. Len(conn.output) : Written(n)

\* doPendingTasks takes the queue.
SwapTasks ==
    /\ InLoop("events") /\ revents = {}
    /\ batch' = queue /\ queue' = <<>>
    /\ lpc' = "tasks"
    /\ UNCHANGED <<conn, peer, revents, stack, userVars, history>>

TasksDone ==
    /\ InLoop("tasks") /\ batch = <<>>
    /\ lpc' = "poll"
    /\ UNCHANGED <<conn, peer, revents, queue, batch, stack, userVars, history>>

\* The tasks other threads queue.  stopRead and startRead capture a bare
\* `this`: nothing keeps the connection alive for them.
RunTask ==
    /\ InLoop("tasks") /\ batch # <<>>
    /\ batch' = Tail(batch)
    /\ LET t == Head(batch) IN
         IF conn.freed THEN Become([conn EXCEPT !.failed = "freed"], <<>>, <<>>)
         ELSE \/ t.op = "send" /\ \E r \in sendInLoop(conn, t.len) : Become(r.conn, <<>>, r.frames)
              \/ t.op = "shutdown" /\ Become(shutdownInLoop(conn), <<>>, <<>>)
              \/ t.op = "forceClose" /\ IF conn.state = "Disconnected" THEN UNCHANGED <<conn, stack>>
                                        ELSE Become(Close(conn), <<>>, <<User>>)
              \/ t.op = "stopRead" /\ Become(stopRead(conn), <<>>, <<>>)
              \/ t.op = "startRead" /\ Become(startRead(conn), <<>>, <<>>)
    /\ UNCHANGED <<peer, revents, lpc, queue, userVars, history>>

(***************************************************************************)
(* User callbacks in the loop thread: their calls run inline               *)
(***************************************************************************)
Top == stack[Len(stack)]
Below == SubSeq(stack, 1, Len(stack) - 1)

InCallback(op) ==
    /\ Alive /\ stack # <<>>
    /\ \/ Top.kind = "user" /\ op \in LoopMay
       \/ Top.kind = "high" /\ op \in HighMay

Called(t) ==
    /\ calls[t] < MaxCalls
    /\ calls' = [calls EXCEPT ![t] = @ + 1]

\* send() to a connection that is not connected does nothing.
CallSend ==
    /\ InCallback("send") /\ conn.state = "Connected"
    /\ sends < MaxSend /\ sends' = sends + 1
    /\ \E len \in 1 .. MaxLen : \E r \in sendInLoop(conn, len) : Become(r.conn, stack, r.frames)
    /\ UNCHANGED <<peer, revents, lpc, queue, batch, userVars, calls, forced>>

\* The asserts of shutdown() and forceClose() are the caller's obligation in
\* the loop thread, which sees a stable Disconnected.
CallShutdown ==
    /\ InCallback("shutdown") /\ conn.state # "Disconnected"
    /\ Called(Loop)
    /\ Become(shutdown(conn), stack, <<>>)
    /\ UNCHANGED <<peer, revents, lpc, queue, batch, userVars, sends, forced>>

CallForceClose ==
    /\ InCallback("forceClose") /\ conn.state # "Disconnected"
    /\ Called(Loop)
    /\ forced' = TRUE
    /\ IF conn.state = "Connected" THEN Become(Close(conn), stack, <<User>>)
       ELSE UNCHANGED <<conn, stack>>
    /\ UNCHANGED <<peer, revents, lpc, queue, batch, userVars, sends>>

\* stopRead() and startRead() do not look at _state: a callback of a closed
\* connection that starts reading registers its channel again.
CallStopRead ==
    /\ InCallback("stopRead")
    /\ Called(Loop)
    /\ Become(stopRead(conn), stack, <<>>)
    /\ UNCHANGED <<peer, revents, lpc, queue, batch, userVars, sends, forced>>

CallStartRead ==
    /\ InCallback("startRead")
    /\ Called(Loop)
    /\ Become(startRead(conn), stack, <<>>)
    /\ UNCHANGED <<peer, revents, lpc, queue, batch, userVars, sends, forced>>

CallbackReturns ==
    /\ Alive /\ stack # <<>> /\ Top.kind # "rest"
    /\ Become(conn, Below, <<>>)
    /\ UNCHANGED <<peer, revents, lpc, queue, batch, userVars, history>>

\* The end of a sendInLoop that called the high-water-mark callback.
ResumeSend ==
    /\ Alive /\ stack # <<>> /\ Top.kind = "rest"
    /\ Become(Keep(conn, Top.data), Below, <<>>)
    /\ UNCHANGED <<peer, revents, lpc, queue, batch, userVars, history>>

(***************************************************************************)
(* Other threads                                                           *)
(***************************************************************************)
Enqueue(op, len) == queue' = Append(queue, [op |-> op, len |-> len])

May(u, op) == Alive /\ held[u] /\ upc[u].at = "idle" /\ op \in UserMay

\* send(): the test of _state, then addTask.
UserSend(u) ==
    /\ May(u, "send") /\ conn.state = "Connected"
    /\ sends < MaxSend /\ sends' = sends + 1
    /\ \E len \in 1 .. MaxLen :
         upc' = [upc EXCEPT ![u] = [op |-> "send", at |-> "push", was |-> TRUE, len |-> len]]
    /\ UNCHANGED <<conn, peer, loopVars, held, calls, forced>>

\* shutdown() and forceClose(), by a thread that has just found the connection
\* not disconnected.
UserClose(u) ==
    /\ conn.state # "Disconnected"
    /\ Called(u)
    /\ \E op \in {"shutdown", "forceClose"} :
         /\ May(u, op)
         /\ upc' = [upc EXCEPT ![u] = [op |-> op, at |-> "assert", was |-> FALSE, len |-> 0]]
         /\ forced' = (forced \/ op = "forceClose")
    /\ UNCHANGED <<conn, peer, loopVars, held, sends>>

UserAssert(u) ==
    /\ Alive /\ upc[u].at = "assert"
    /\ conn' = IF conn.state = "Disconnected" THEN Fail(conn) ELSE conn
    /\ upc' = [upc EXCEPT ![u].at = "test"]
    /\ UNCHANGED <<peer, loopVars, held, history>>

UserTest(u) ==
    /\ Alive /\ upc[u].at = "test"
    /\ upc' = [upc EXCEPT ![u].was = (conn.state = "Connected"), ![u].at = "set"]
    /\ UNCHANGED <<conn, peer, loopVars, held, history>>

\* Mutant of UserSet: the task of the loop is not queued.
UserSetOnly(u) ==
    /\ Alive /\ upc[u].at = "set"
    /\ conn' = [conn EXCEPT !.state = "Disconnecting"]
    /\ upc' = [upc EXCEPT ![u] = Idle]
    /\ UNCHANGED <<peer, loopVars, held, history>>

UserSet(u) ==
    /\ Alive /\ upc[u].at = "set"
    /\ conn' = [conn EXCEPT !.state = "Disconnecting"]
    /\ upc' = [upc EXCEPT ![u] = IF @.was THEN [@ EXCEPT !.at = "push"] ELSE Idle]
    /\ UNCHANGED <<peer, loopVars, held, history>>

\* addTask from another thread: addInQueue, whose wakeup only shortens the poll.
UserPush(u) ==
    /\ Alive /\ upc[u].at = "push"
    /\ Enqueue(upc[u].op, upc[u].len)
    /\ upc' = [upc EXCEPT ![u] = Idle]
    /\ UNCHANGED <<conn, peer, revents, lpc, batch, stack, held, history>>

UserReading(u) ==
    /\ Called(u)
    /\ \E op \in {"stopRead", "startRead"} : May(u, op) /\ Enqueue(op, 0)
    /\ UNCHANGED <<conn, peer, revents, lpc, batch, stack, userVars, sends, forced>>

(***************************************************************************)
(* The peer                                                                *)
(***************************************************************************)
\* The peer's FIN is next in the receive queue.
PeerCloses ==
    /\ Alive /\ lpc # "accept" /\ peer = "open" /\ "eof" \in PeerMay
    /\ peer' = "eof"
    /\ UNCHANGED <<conn, loopVars, userVars, history>>

PeerResets ==
    /\ Alive /\ lpc # "accept" /\ peer \in {"open", "eof"} /\ "reset" \in PeerMay
    /\ peer' = "reset"
    /\ UNCHANGED <<conn, loopVars, userVars, history>>

Handle == HandleClose \/ HandleError \/ HandleRead \/ HandleWrite

LoopStep ==
    \/ OnConnection \/ Poll \/ Handle \/ SwapTasks \/ RunTask \/ TasksDone
    \/ CallbackReturns \/ ResumeSend

Call == CallSend \/ CallShutdown \/ CallForceClose \/ CallStopRead \/ CallStartRead

UserStep(u) == UserAssert(u) \/ UserTest(u) \/ UserSet(u) \/ UserPush(u)

Next ==
    \/ LoopStep \/ Call \/ Destroy \/ PeerCloses \/ PeerResets
    \/ \E u \in Users :
         UserStep(u) \/ UserSend(u) \/ UserClose(u) \/ UserReading(u) \/ Drop(u)

Spec == Init /\ [][Next]_vars

\* The loop thread and the calls of other threads go on, callbacks return, and
\* a peer that has not gone keeps reading: a socket that is waited for becomes
\* writable again and again, and takes data when it is.
Fairness ==
    /\ WF_vars(LoopStep)
    /\ SF_vars(Poll /\ "OUT" \in revents')
    /\ SF_vars(HandleWrite /\ conn'.output # conn.output)
    /\ \A u \in Users : WF_vars(UserStep(u))

FairSpec == Spec /\ Fairness

(***************************************************************************)
(* Properties                                                              *)
(***************************************************************************)
\* No assert of the library fails: not those of the handlers about the state
\* (Read, Write, Close, ~TcpConnection), the output buffer (sendInLoop, Write),
\* the server's set (closeConnection) or the channel (updateChannel).
AssertionsHold == conn.failed # "assert"

\* Whatever the callbacks, the other threads and the peer do, no assert fails
\* and nothing freed is used as long as the connection is open and in the
\* server's set; what can fail does so on a connection that has been closed.
AssertsOnlyLate == conn.failed # "no" => lpc # "accept" /\ ~conn.listed

\* An open connection is waiting for EPOLLOUT exactly while it has something to
\* write, so nothing in the buffer is forgotten and epoll does not spin.
WritingIffOutput == conn.listed => (isWriting(conn) <=> conn.output # <<>>)

\* The bytes of a send that is waiting for its high-water-mark callback.
Interrupted ==
    LET rests == {i \in 1 .. Len(stack) : stack[i].kind = "rest"}
    IN IF rests = {} THEN <<>> ELSE stack[CHOOSE i \in rests : TRUE].data

\* What write(2) took and what is kept for it are together all the bytes
\* sendInLoop of an open connection was given, in order, unless a write has failed for good.
StreamKept ==
    conn.listed /\ ~conn.lost =>
        conn.wire \o conn.output \o Interrupted = [i \in 1 .. conn.accepted |-> i]

\* What other threads' calls must leave true of an open connection: its asserts,
\* its interest in EPOLLOUT and its stream, whenever their tasks reach the loop.
Safe == TypeOK /\ AssertsOnlyLate /\ WritingIffOutput /\ StreamKept

\* A graceful shutdown flushes: when the FIN of an open connection goes out,
\* every byte that send() accepted while connected has gone out before it.
FlushedBeforeFin ==
    [][conn.listed /\ ~conn.wrShut /\ conn'.wrShut =>
          /\ conn'.output = <<>> /\ Interrupted = <<>>
          /\ \A i \in 1 .. Len(queue) : queue[i].op # "send"
          /\ \A i \in 1 .. Len(batch) : batch[i].op # "send"]_vars

\* A closed connection stays closed.
DisconnectedIsFinal ==
    [][conn.state = "Disconnected" => conn'.state = "Disconnected"]_vars

\* Open, and deaf to the peer because stopRead was called.
Paused == conn.state # "Disconnected" /\ ~isReading(conn)

\* A connection whose peer has gone is closed and leaves the server's set, by
\* whichever event it learns of it, unless its reading is paused.
PeerGoneCloses ==
    (peer # "open") ~> (Paused \/ (conn.state = "Disconnected" /\ ~conn.listed))

\* A graceful shutdown comes to its FIN, whatever was buffered, or the
\* connection is closed.
ShutdownFinishes ==
    (conn.state = "Disconnecting") ~> (conn.wrShut \/ conn.state = "Disconnected")

\* forceClose closes the connection without the help of the peer.
ForceCloseCloses == forced ~> conn.state = "Disconnected"

\* Thread u has called op, and its call is the one that found the connection
\* connected: it will queue the task of the loop.
Asking(u, op) == upc[u].op = op /\ upc[u].was

Closed == lpc # "accept" /\ ~conn.listed

\* The first thread to ask for the end of a connected connection gets it: after
\* its shutdown() the FIN goes out, after its forceClose() the connection leaves
\* the server's set, whatever other threads, callbacks and the peer do then.
ClosingFinishes ==
    \A u \in Users : /\ (Asking(u, "shutdown") ~> (conn.wrShut \/ Closed))
                      /\ (Asking(u, "forceClose") ~> Closed)
=============================================================================
