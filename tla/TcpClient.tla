----------------------------- MODULE TcpClient -----------------------------
(***************************************************************************)
(* net::TcpClient and its net::Connector: one attempt to connect, made in  *)
(* the loop thread by a blocking connect(2), a retry timer for when it     *)
(* fails, and the connection that comes of it.                             *)
(*                                                                         *)
(* Three threads take part: the loop thread, the tick thread of the timer  *)
(* queue, and a pool thread that runs the timer's callback.  The asserts   *)
(* are compiled in (CMakeLists.txt does not define NDEBUG): one that fails *)
(* ends the program.  The connection itself is module TcpConnection's, the *)
(* timer queue TimerQueue's; here each is what the client sees of it.      *)
(***************************************************************************)
EXTENDS Naturals

CONSTANT
    InBatch  \* may the client be started or destroyed by another channel's
             \* callback, between the poll and the handler of its own channel?

ASSUME InBatchAssumption == InBatch \in BOOLEAN

VARIABLES
    sock,       \* the socket: "fresh", "refused", "connected", "eof", "reset"
    fd,         \* its descriptor: "open", "closed", "reused" for another file,
                \* or "stolen": that other file has been closed
    started,    \* Connector::_started
    polling,    \* is the connector's channel registered for EPOLLOUT?
    connected,  \* TcpClient::_connected
    trytimer,   \* is _trytimer set?
    conn,       \* _connection: "none", "Connected", "Disconnecting"
    lpc,        \* the loop thread: "user" (user code or the poll), inside
                \* connect(2), after it, or done with the client
    ready,      \* the channel whose events this iteration has still to handle
    timer,      \* the timer: "none", "armed", "taken" (out of the map, to be
                \* inserted again)
    retrying,   \* a pool thread has been given retry()
    ups,        \* history: connection callbacks for a connection that came up
    downs,      \* history: and for one that went down
    errors,     \* history: error callbacks
    aborted     \* why the program ended: "no", or the assert or the access

sockVars  == <<sock, fd>>
connVars  == <<started, polling>>
cliVars   == <<connected, trytimer, conn>>
timerVars == <<timer, retrying>>
history   == <<ups, downs, errors>>
vars      == <<sockVars, connVars, cliVars, lpc, ready, timerVars, history, aborted>>

TypeOK ==
    /\ sock \in {"fresh", "refused", "connected", "eof", "reset"}
    /\ fd \in {"open", "closed", "reused", "stolen"}
    /\ started \in BOOLEAN /\ polling \in BOOLEAN
    /\ connected \in BOOLEAN /\ trytimer \in BOOLEAN
    /\ conn \in {"none", "Connected", "Disconnecting"}
    /\ lpc \in {"user", "connect", "handle", "gone"}
    /\ ready \in {"none", "connector", "connection"}
    /\ timer \in {"none", "armed", "taken"} /\ retrying \in BOOLEAN
    /\ ups \in Nat /\ downs \in Nat /\ errors \in 0 .. 1
    /\ aborted \in {"no", "started", "updateChannel", "loopThread", "Disconnected",
                    "dangling"}
    /\ trytimer => timer # "none"

\* TcpClient::TcpClient and Connector::Connector, which registers the channel
\* before there is a connection to wait for.
Init ==
    /\ sock = "fresh" /\ fd = "open"
    /\ started = FALSE /\ polling = TRUE
    /\ connected = FALSE /\ trytimer = FALSE /\ conn = "none"
    /\ lpc = "user" /\ ready = "none"
    /\ timer = "none" /\ retrying = FALSE
    /\ ups = 0 /\ downs = 0 /\ errors = 0
    /\ aborted = "no"

(***************************************************************************)
(* Pieces of the handlers                                                  *)
(***************************************************************************)
\* EventLoop::cancelTimer: a timer in the map is marked and will not fire; one
\* that handle() holds is not found.
CancelTimer == timer' = IF timer = "armed" THEN "none" ELSE timer

\* Mutant of OnConnection: the retry timer is forgotten, not cancelled.
OnConnectionTimed ==
    /\ trytimer' = FALSE
    /\ connected' = TRUE
    /\ conn' = "Connected"
    /\ ups' = ups + 1
    /\ UNCHANGED <<timer, fd>>

\* Mutant of OnConnection: _trytimer keeps the handle of the cancelled timer.
OnConnectionStale ==
    /\ IF trytimer THEN CancelTimer ELSE UNCHANGED timer
    /\ connected' = TRUE
    /\ conn' = "Connected"
    /\ ups' = ups + 1
    /\ UNCHANGED <<trytimer, fd>>

\* Mutant of OnConnection: the connector has done its work and is destroyed.
OnConnectionAlone ==
    /\ IF trytimer THEN CancelTimer ELSE UNCHANGED timer
    /\ trytimer' = FALSE
    /\ connected' = TRUE
    /\ conn' = "Connected"
    /\ ups' = ups + 1
    /\ fd' = "closed"

OnConnection ==
    /\ IF trytimer THEN CancelTimer ELSE UNCHANGED timer
    /\ trytimer' = FALSE
    /\ connected' = TRUE
    /\ conn' = "Connected"
    /\ ups' = ups + 1
    /\ UNCHANGED fd

\* Mutant of removeChannel: the channel stays registered.
removeChannelNot == polling /\ UNCHANGED polling

\* EventLoop::removeChannel: Channel::disableAll, for a registered channel.
removeChannel == polling /\ polling' = FALSE

\* Connector::handleWrite; Rest is what its caller does when there is still no
\* connection.  SO_ERROR is what is pending on the socket: connect(2) has taken
\* the error it returned, so a refused socket counts as a connected one.
handleWrite(Rest) ==
    /\ removeChannel
    /\ IF sock = "reset"
       THEN /\ errors' = errors + 1
            /\ Rest
            /\ UNCHANGED <<connected, conn, ups, fd>>
       ELSE OnConnection /\ UNCHANGED errors

\* TcpClient::closeConnection, from TcpConnection::Close; the last shared_ptr
\* goes with it, and ~TcpConnection closes the descriptor.
closeConnection ==
    /\ conn' = "none"
    /\ downs' = downs + 1
    /\ fd' = "closed"

Abort(why) ==
    /\ aborted' = why
    /\ UNCHANGED <<sockVars, connVars, cliVars, lpc, ready, timerVars, history>>

(***************************************************************************)
(* The loop thread                                                         *)
(***************************************************************************)
UserCode == lpc = "user" /\ (ready = "none" \/ InBatch)

\* start(), up to the blocking connect(2).  Calling it once is the caller's
\* obligation.
start ==
    /\ UserCode /\ ~started
    /\ started' = TRUE
    /\ lpc' = "connect"
    /\ UNCHANGED <<sockVars, polling, cliVars, ready, timerVars, history, aborted>>

ConnectSucceeds ==
    /\ lpc = "connect"
    /\ sock' = "connected"
    /\ lpc' = "handle"
    /\ UNCHANGED <<fd, connVars, cliVars, ready, timerVars, history, aborted>>

\* start()'s runEvery(3s, retry), for a client that is not connected.
ArmTimer == trytimer' = TRUE /\ timer' = "armed"

\* connect() calls handleWrite, and start() goes on.
HandleAtOnce ==
    /\ lpc = "handle" /\ handleWrite(ArmTimer)
    /\ lpc' = "user"
    /\ UNCHANGED <<sock, started, ready, retrying, downs, aborted>>

\* Mutant of ConnectFails: the channel of a failed attempt is removed.
ConnectFailsSilently ==
    /\ lpc = "connect"
    /\ sock' = "refused"
    /\ polling' = FALSE
    /\ ArmTimer
    /\ lpc' = "user"
    /\ UNCHANGED <<fd, started, connected, conn, ready, retrying, history, aborted>>

\* The failure is only logged; the channel stays registered.
ConnectFails ==
    /\ lpc = "connect"
    /\ sock' = "refused"
    /\ ArmTimer
    /\ lpc' = "user"
    /\ UNCHANGED <<fd, connVars, connected, conn, ready, retrying, history, aborted>>

\* epoll_wait.  A socket that is not connected reports EPOLLOUT and EPOLLHUP;
\* a connection has something to handle once its peer is gone: it is taken to
\* keep reading (no stopRead) and to be sent no urgent data.
Poll ==
    /\ lpc = "user" /\ ready = "none"
    /\ \/ polling /\ ready' = "connector"
       \/ conn # "none" /\ sock # "connected" /\ ready' = "connection"
    /\ UNCHANGED <<sockVars, connVars, cliVars, lpc, timerVars, history, aborted>>

\* Channel::doTask of the connector's channel.
HandleConnector ==
    /\ lpc = "user" /\ ready = "connector"
    /\ started /\ handleWrite(UNCHANGED <<trytimer, timer>>)
    /\ ready' = "none"
    /\ UNCHANGED <<sock, started, lpc, retrying, downs, aborted>>

\* The assert of _started, and that of updateChannel for a channel that a
\* start() in the same iteration has removed.
HandleConnectorFails ==
    /\ lpc = "user" /\ ready = "connector"
    /\ \/ ~started /\ Abort("started")
       \/ started /\ ~polling /\ Abort("updateChannel")

\* Mutant of HandleConnection: the end of the peer is only logged.
HandleConnectionNot ==
    /\ lpc = "user" /\ ready = "connection" /\ conn # "none"
    /\ ready' = "none"
    /\ UNCHANGED <<sockVars, connVars, cliVars, lpc, timerVars, history, aborted>>

\* TcpConnection's Read of an end of file or Close of a hang-up.
HandleConnection ==
    /\ lpc = "user" /\ ready = "connection" /\ conn # "none"
    /\ ready' = "none"
    /\ closeConnection
    /\ UNCHANGED <<sock, connVars, connected, trytimer, lpc, timerVars, ups, errors, aborted>>

\* TcpConnection::shutdown and forceClose, called by the user.
Shutdown ==
    /\ UserCode /\ conn = "Connected"
    /\ conn' = "Disconnecting"
    /\ UNCHANGED <<sockVars, connVars, connected, trytimer, lpc, ready, timerVars, history, aborted>>

ForceClose ==
    /\ UserCode /\ conn = "Connected"
    /\ closeConnection
    /\ UNCHANGED <<sock, connVars, connected, trytimer, lpc, ready, timerVars, ups, errors, aborted>>

\* ~TcpClient, and ~Connector, which closes the number its socket had: by
\* then ~TcpConnection may have closed it, and it may stand for another file.
\* forceClose does nothing to a connection that is shutting down, and
\* ~TcpConnection then fails its assert.
Destroy ==
    /\ UserCode /\ conn # "Disconnecting"
    /\ downs' = IF conn = "Connected" THEN downs + 1 ELSE downs
    /\ conn' = "none"
    /\ IF trytimer THEN CancelTimer ELSE UNCHANGED timer
    /\ trytimer' = FALSE
    /\ fd' \in IF fd = "reused" THEN {"stolen"}
               ELSE IF conn = "none" THEN {"closed"} ELSE {"closed", "stolen"}
    /\ lpc' = "gone"
    /\ UNCHANGED <<sock, connVars, connected, ready, retrying, ups, errors, aborted>>

DestroyFails == UserCode /\ conn = "Disconnecting" /\ Abort("Disconnected")

\* The batch still holds the bare pointer to a channel that is gone.
DanglingChannel ==
    /\ \/ lpc = "gone" /\ ready # "none"
       \/ ready = "connection" /\ conn = "none"
    /\ Abort("dangling")

(***************************************************************************)
(* The other threads and the network                                       *)
(***************************************************************************)
\* TimerQueue::handle: the timer is due, leaves the map, and its callback is
\* given to the pool, which has room for it.
Tick ==
    /\ timer = "armed"
    /\ timer' = "taken"
    /\ retrying' = TRUE
    /\ UNCHANGED <<sockVars, connVars, cliVars, lpc, ready, history, aborted>>

TickInserts ==
    /\ timer = "taken"
    /\ timer' = "armed"
    /\ UNCHANGED <<sockVars, connVars, cliVars, lpc, ready, retrying, history, aborted>>

\* retry() in a pool thread, which is never the loop thread: its first line
\* asserts that it is, so the rest of it is not reached.
retry ==
    /\ retrying
    /\ Abort(IF lpc = "gone" THEN "dangling" ELSE "loopThread")

PeerGoes ==
    /\ sock = "connected"
    /\ sock' \in {"eof", "reset"}
    /\ UNCHANGED <<fd, connVars, cliVars, lpc, ready, timerVars, history, aborted>>

\* Another part of the program opens a file and is given the free number.
ReuseFd ==
    /\ fd = "closed"
    /\ fd' = "reused"
    /\ UNCHANGED <<sock, connVars, cliVars, lpc, ready, timerVars, history, aborted>>

(***************************************************************************)
(* The whole                                                               *)
(***************************************************************************)
LoopStep ==
    \/ ConnectSucceeds \/ ConnectFails \/ HandleAtOnce
    \/ Poll \/ HandleConnector \/ HandleConnectorFails \/ HandleConnection \/ DanglingChannel

UserCall == start \/ Shutdown \/ ForceClose \/ Destroy \/ DestroyFails

Next ==
    /\ aborted = "no"
    /\ \/ LoopStep \/ UserCall
       \/ Tick \/ TickInserts \/ retry
       \/ PeerGoes \/ ReuseFd

Spec == Init /\ [][Next]_vars

\* The loop thread goes on: connect(2) returns, the loop polls and handles
\* what the poll reported.  Nobody has to call anything, the peer need not go,
\* and no timer has to fire.
Fairness == WF_vars(aborted = "no" /\ LoopStep)

FairSpec == Spec /\ Fairness

(***************************************************************************)
(* Properties                                                              *)
(***************************************************************************)
\* A client reports at most one connection in its life, whether connect()
\* succeeds at once or the channel reports later, and it is told of the end of
\* each connection once: _connection is set exactly in between.  While it is
\* set neither the connection nor the connector, which hold the same
\* descriptor, has closed it.
OneConnection ==
    /\ ups <= 1
    /\ ups = downs + (IF conn = "none" THEN 0 ELSE 1)
    /\ conn # "none" => fd = "open"

\* A connected client has no retry to come: its timer is out of the queue, or
\* has already fired.
TimerStopped == connected => timer # "armed" \/ retrying

\* start() is answered by a connection or an error, also when connect() fails
\* and only the channel can tell; no timer is needed for it.
StartAnswers ==
    lpc \in {"connect", "handle"} ~> (ups > 0 \/ errors > 0 \/ aborted # "no" \/ lpc = "gone")

\* A connection whose peer is gone, or that has never had one, goes down.
GoneGoesDown ==
    (conn # "none" /\ sock # "connected") ~> (conn = "none" \/ aborted # "no")

\* The connection callback is called when a connection is established.
UpIsConnected == conn # "none" => sock # "refused"
=============================================================================
