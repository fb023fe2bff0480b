-------------------------- MODULE TcpClientProofs ---------------------------
(***************************************************************************)
(* TcpClient and Connector, for calls that come between the poll and the   *)
(* handlers and for calls that do not: one connection, which goes down     *)
(* once, and no retry for a client that is connected.                      *)
(***************************************************************************)
EXTENDS TcpClient, TLAPS

(***************************************************************************)
(* The invariant                                                           *)
(***************************************************************************)
\* The connector's channel is registered until its one handleWrite: as long as
\* it is, nothing has been reported, and the socket's descriptor is the
\* connector's alone.
Unreported ==
    polling => /\ ups = 0 /\ errors = 0 /\ conn = "none" /\ ~connected
               /\ lpc # "gone" => fd = "open"

\* A client that has gone holds no connection.
GoneHasNone == lpc = "gone" => conn = "none"

\* Connected needs started; and the calls inside start() come before it.
Phases ==
    /\ ~started => ~connected /\ lpc \notin {"connect", "handle"}
    /\ lpc \in {"connect", "handle"} => ~connected

\* A timer in the queue that has not fired is the one _trytimer names, and
\* handle() holds only a timer whose callback it has given to the pool.
TimerNamed ==
    /\ timer = "armed" /\ ~retrying => trytimer
    /\ timer = "taken" => retrying

ClientInv == /\ TypeOK /\ OneConnection /\ TimerStopped
             /\ Unreported /\ GoneHasNone /\ Phases /\ TimerNamed

(***************************************************************************)
(* The steps                                                               *)
(***************************************************************************)
\* A step that ends the program changes nothing else.
LEMMA AbortKeeps ==
  ASSUME ClientInv,
         \E why \in {"started", "updateChannel", "loopThread", "Disconnected", "dangling"} :
            Abort(why)
  PROVE  ClientInv'
BY DEF Abort, sockVars, connVars, cliVars, timerVars, history, ClientInv, TypeOK, OneConnection,
   TimerStopped, Unreported, GoneHasNone, Phases, TimerNamed

\* The handler of the connector's channel, inside start() or from the loop:
\* the channel goes, and a connection or an error is reported.
LEMMA HandlerKeeps ==
  ASSUME ClientInv, HandleAtOnce \/ HandleConnector
  PROVE  ClientInv'
<1>1. /\ polling /\ polling' = FALSE /\ ups = 0 /\ errors = 0 /\ conn = "none" /\ ~connected
      /\ lpc \in {"handle", "user"} /\ lpc' = "user" /\ fd = "open" /\ started
      /\ UNCHANGED <<sock, started, retrying, downs, aborted>>
      /\ ready' \in {ready, "none"}
  BY DEF HandleAtOnce, HandleConnector, handleWrite, removeChannel, ClientInv, Unreported, Phases
<1>2. /\ TypeOK /\ TimerNamed /\ downs = 0
  BY <1>1 DEF ClientInv, OneConnection, TypeOK
<1>3. CASE errors' = errors + 1
  <2>1. /\ UNCHANGED <<connected, conn, ups, fd>>
        /\ ArmTimer \/ UNCHANGED <<trytimer, timer>>
    BY <1>1, <1>3 DEF HandleAtOnce, HandleConnector, handleWrite
  <2>2. TypeOK'
    <3>1. errors' \in 0 .. 1
      BY <1>1, <1>3
    <3>2. /\ trytimer' \in BOOLEAN /\ timer' \in {"none", "armed", "taken"}
          /\ trytimer' => timer' # "none"
      <4>1. CASE ArmTimer
        BY <4>1 DEF ArmTimer
      <4>2. CASE UNCHANGED <<trytimer, timer>>
        BY <1>2, <4>2 DEF TypeOK
      <4> QED
        BY <2>1, <4>1, <4>2
    <3> QED
      BY <1>1, <1>2, <2>1, <3>1, <3>2 DEF TypeOK
  <2>3. TimerNamed'
    BY <1>1, <1>2, <2>1 DEF TimerNamed, ArmTimer
  <2> QED
    BY <1>1, <1>2, <2>1, <2>2, <2>3 DEF ClientInv, OneConnection, TimerStopped, Unreported,
       GoneHasNone, Phases
<1>4. CASE OnConnection /\ UNCHANGED errors
  <2>1. /\ timer' \in {timer, "none"} /\ (trytimer => timer' # "armed")
        /\ ~trytimer => timer' = timer
        /\ trytimer' = FALSE /\ connected' = TRUE /\ conn' = "Connected" /\ ups' = ups + 1 /\ fd' = fd
    BY <1>4 DEF OnConnection, CancelTimer
  <2>2. TypeOK'
    <3>1. ups' \in Nat /\ errors' \in 0 .. 1
      BY <1>1, <1>4, <2>1
    <3>2. timer' \in {"none", "armed", "taken"}
      BY <1>2, <2>1 DEF TypeOK
    <3> QED
      BY <1>1, <1>2, <2>1, <3>1, <3>2 DEF TypeOK
  <2>3. TimerNamed' /\ TimerStopped'
    BY <1>1, <1>2, <2>1 DEF TimerNamed, TimerStopped
  <2> QED
    BY <1>1, <1>2, <2>1, <2>2, <2>3 DEF ClientInv, OneConnection, Unreported, GoneHasNone, Phases
<1> QED
  BY <1>1, <1>3, <1>4 DEF HandleAtOnce, HandleConnector, handleWrite

\* The end of the connection, noticed by the loop or asked for by the user.
LEMMA EndKeeps ==
  ASSUME ClientInv, HandleConnection \/ ForceClose
  PROVE  ClientInv'
<1>1. /\ conn # "none" /\ closeConnection /\ ready' \in {ready, "none"}
      /\ UNCHANGED <<sock, connVars, connected, trytimer, lpc, timerVars, ups, errors, aborted>>
  BY DEF HandleConnection, ForceClose
<1>2. TypeOK'
  BY <1>1 DEF closeConnection, connVars, timerVars, ClientInv, TypeOK
<1>3. ~polling
  BY <1>1 DEF ClientInv, Unreported
<1> QED
  BY <1>1, <1>2, <1>3 DEF closeConnection, connVars, timerVars, ClientInv, TypeOK, OneConnection,
     TimerStopped, Unreported, GoneHasNone, Phases, TimerNamed

\* The destructors.
LEMMA DestroyKeeps ==
  ASSUME ClientInv, Destroy
  PROVE  ClientInv'
<1>1. /\ downs' = IF conn = "Connected" THEN downs + 1 ELSE downs
      /\ conn \in {"none", "Connected"} /\ conn' = "none" /\ lpc' = "gone"
      /\ timer' \in {timer, "none"} /\ (trytimer => timer' # "armed")
      /\ ~trytimer => timer' = timer
      /\ trytimer' = FALSE /\ fd' \in {"closed", "stolen"}
      /\ UNCHANGED <<sock, started, polling, connected, ready, retrying, ups, errors, aborted>>
      /\ lpc = "user"
  BY DEF Destroy, UserCode, CancelTimer, connVars, ClientInv, TypeOK
<1>2. TypeOK'
  <2>1. downs' \in Nat /\ timer' \in {"none", "armed", "taken"}
    BY <1>1 DEF ClientInv, TypeOK
  <2>2. /\ trytimer' = FALSE /\ fd' \in {"closed", "stolen"} /\ conn' = "none" /\ lpc' = "gone"
        /\ UNCHANGED <<sock, started, polling, connected, ready, retrying, ups, errors, aborted>>
    BY <1>1
  <2>3. TypeOK
    BY DEF ClientInv
  <2>4. /\ fd' \in {"open", "closed", "reused", "stolen"}
        /\ trytimer' \in BOOLEAN /\ (trytimer' => timer' # "none")
    BY <2>2
  <2> QED
    BY <2>1, <2>2, <2>3, <2>4 DEF TypeOK
<1>3. OneConnection'
  BY <1>1 DEF ClientInv, TypeOK, OneConnection
<1>4. TimerNamed' /\ TimerStopped'
  BY <1>1 DEF ClientInv, TypeOK, TimerNamed, TimerStopped
<1> QED
  BY <1>1, <1>2, <1>3, <1>4 DEF ClientInv, Unreported, GoneHasNone, Phases

\* Calls and steps that neither report nor give up a connection.
LEMMA OthersKeep ==
  ASSUME ClientInv,
         \/ start \/ ConnectSucceeds \/ ConnectFails \/ Poll \/ Shutdown
         \/ Tick \/ TickInserts \/ PeerGoes \/ ReuseFd
  PROVE  ClientInv'
<1>0. TypeOK /\ OneConnection /\ TimerStopped /\ Unreported /\ GoneHasNone /\ Phases /\ TimerNamed
  BY DEF ClientInv
<1>1. CASE start \/ ConnectSucceeds \/ Poll
  <2>1. /\ UNCHANGED <<fd, polling, connected, trytimer, conn, timer, retrying, ups, downs, errors,
                      aborted>>
        /\ sock' \in {sock, "connected"} /\ ready' \in {ready, "connector", "connection"}
        /\ lpc # "gone" /\ lpc' # "gone"
    BY <1>1 DEF start, UserCode, ConnectSucceeds, Poll, sockVars, connVars, cliVars, timerVars,
       history
  <2>2. /\ started' \in BOOLEAN /\ lpc' \in {"user", "connect", "handle", "gone"}
        /\ Phases'
    <3>1. CASE start
      <4>1. started' = TRUE /\ lpc' = "connect" /\ ~started
        BY <3>1 DEF start
      <4> QED
        BY <1>0, <2>1, <4>1 DEF Phases
    <3>2. CASE ConnectSucceeds \/ Poll
      <4>1. /\ started' = started /\ lpc' \in {lpc, "handle"}
            /\ lpc' = "handle" => lpc \in {"connect", "handle"}
        BY <3>2 DEF ConnectSucceeds, Poll, connVars
      <4> QED
        BY <1>0, <2>1, <4>1 DEF Phases, TypeOK
    <3> QED
      BY <1>1, <3>1, <3>2
  <2>3. TypeOK'
    BY <1>0, <2>1, <2>2 DEF TypeOK
  <2> QED
    BY <1>0, <2>1, <2>2, <2>3 DEF ClientInv, OneConnection, TimerStopped, Unreported, GoneHasNone,
       TimerNamed
<1>2. CASE ConnectFails
  <2>1. /\ UNCHANGED <<fd, started, polling, connected, conn, retrying, ready, ups, downs, errors,
                      aborted>>
        /\ sock' = "refused" /\ lpc' = "user" /\ lpc = "connect"
        /\ trytimer' = TRUE /\ timer' = "armed"
    BY <1>2 DEF ConnectFails, ArmTimer, connVars, history
  <2>2. TypeOK'
    BY <1>0, <2>1 DEF TypeOK
  <2>3. TimerStopped' /\ TimerNamed' /\ Phases'
    BY <1>0, <2>1 DEF TimerStopped, TimerNamed, Phases
  <2> QED
    BY <1>0, <2>1, <2>2, <2>3 DEF ClientInv, OneConnection, Unreported, GoneHasNone
<1>3. CASE Shutdown
  <2>1. /\ UNCHANGED <<sock, fd, started, polling, connected, trytimer, lpc, timer, retrying, ready,
                      ups, downs, errors, aborted>>
        /\ conn = "Connected" /\ conn' = "Disconnecting" /\ lpc = "user"
    BY <1>3 DEF Shutdown, UserCode, sockVars, connVars, timerVars, history
  <2>2. TypeOK'
    BY <1>0, <2>1 DEF TypeOK
  <2> QED
    BY <1>0, <2>1, <2>2 DEF ClientInv, OneConnection, TimerStopped, Unreported, GoneHasNone,
       Phases, TimerNamed
<1>4. CASE Tick \/ TickInserts
  <2>1. /\ UNCHANGED <<sock, fd, started, polling, connected, trytimer, conn, lpc, ready, ups, downs,
                      errors, aborted>>
        /\ \/ timer' = "taken" /\ retrying' = TRUE
           \/ timer = "taken" /\ timer' = "armed" /\ retrying' = retrying
    BY <1>4 DEF Tick, TickInserts, sockVars, connVars, cliVars, history
  <2>2. TypeOK'
    <3>1. /\ timer' \in {"none", "armed", "taken"} /\ retrying' \in BOOLEAN
          /\ trytimer' => timer' # "none"
      <4>1. CASE timer' = "taken" /\ retrying' = TRUE
        BY <4>1
      <4>2. CASE timer' = "armed" /\ retrying' = retrying
        BY <1>0, <4>2 DEF TypeOK
      <4> QED
        BY <2>1, <4>1, <4>2
    <3> QED
      BY <1>0, <2>1, <3>1 DEF TypeOK
  <2>3. TimerStopped' /\ TimerNamed'
    BY <1>0, <2>1 DEF TimerStopped, TimerNamed
  <2> QED
    BY <1>0, <2>1, <2>2, <2>3 DEF ClientInv, OneConnection, Unreported, GoneHasNone, Phases
<1>5. CASE PeerGoes \/ ReuseFd
  <2>1. /\ UNCHANGED <<started, polling, connected, trytimer, conn, lpc, timer, retrying, ready, ups,
                      downs, errors, aborted>>
        /\ sock' \in {sock, "eof", "reset"}
        /\ (fd' = fd) \/ (fd = "closed" /\ fd' = "reused")
    BY <1>5 DEF PeerGoes, ReuseFd, connVars, cliVars, timerVars, history
  <2>2. TypeOK'
    BY <1>0, <2>1 DEF TypeOK
  <2> QED
    BY <1>0, <2>1, <2>2 DEF ClientInv, OneConnection, TimerStopped, Unreported, GoneHasNone,
       Phases, TimerNamed
<1> QED
  BY <1>1, <1>2, <1>3, <1>4, <1>5

\* The inductive invariant behind the theorems.
LEMMA ClientInvariant == Spec => []ClientInv
<1>1. Init => ClientInv
  <2> SUFFICES ASSUME Init PROVE ClientInv
    OBVIOUS
  <2>1. TypeOK
    <3>1. ups \in Nat /\ downs \in Nat /\ errors \in 0 .. 1
      BY DEF Init
    <3> QED
      BY <3>1 DEF Init, TypeOK
  <2>2. OneConnection
    BY DEF Init, OneConnection
  <2>3. TimerStopped /\ Unreported /\ GoneHasNone /\ Phases /\ TimerNamed
    BY DEF Init, TimerStopped, Unreported, GoneHasNone, Phases, TimerNamed
  <2> QED
    BY <2>1, <2>2, <2>3 DEF ClientInv
<1>2. ClientInv /\ [Next]_vars => ClientInv'
  <2> SUFFICES ASSUME ClientInv, [Next]_vars PROVE ClientInv'
    OBVIOUS
  <2>1. CASE HandleConnectorFails \/ DanglingChannel \/ DestroyFails \/ retry
    <3>1. \E why \in {"started", "updateChannel", "loopThread", "Disconnected", "dangling"} :
             Abort(why)
      BY <2>1 DEF HandleConnectorFails, DanglingChannel, DestroyFails, retry
    <3> QED
      BY <3>1, AbortKeeps
  <2>2. CASE UNCHANGED vars
    BY <2>2 DEF vars, sockVars, connVars, cliVars, timerVars, history, ClientInv, TypeOK,
       OneConnection, TimerStopped, Unreported, GoneHasNone, Phases, TimerNamed
  <2> QED
    BY <2>1, <2>2, HandlerKeeps, EndKeeps, DestroyKeeps, OthersKeep DEF Next, LoopStep, UserCall
<1> QED
  BY <1>1, <1>2, PTL DEF Spec

(***************************************************************************)
(* The theorems                                                            *)
(***************************************************************************)
\* The client keeps its shape, and _trytimer never names a timer that was not
\* made.
THEOREM ClientTypeCorrect == Spec => []TypeOK
BY ClientInvariant, PTL DEF ClientInv

\* At most one connection is reported, its end is reported once, and neither of
\* the two owners of the descriptor has closed it while the connection is up.
THEOREM ReportsOnce == Spec => []OneConnection
BY ClientInvariant, PTL DEF ClientInv

\* A connected client has no retry to come, however late it was connected.
THEOREM NoRetryWhenConnected == Spec => []TimerStopped
BY ClientInvariant, PTL DEF ClientInv

=============================================================================
