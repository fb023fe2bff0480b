------------------------ MODULE TcpConnectionProofs -------------------------
(***************************************************************************)
(* TcpConnection for every number of users, calls and bytes and every      *)
(* high-water mark.                                                        *)
(***************************************************************************)
EXTENDS TcpConnection, SequenceTheorems, TLAPS

(***************************************************************************)
(* The members keep the type of the connection                             *)
(***************************************************************************)
Conn == {c \in ConnType : c.polling = (c.events # {})}

\* Epoller::updateChannel makes `polling` say whether there is an interest.
LEMMA UpdateTyped ==
  ASSUME NEW c \in ConnType
  PROVE  update(c) \in Conn
<1>1. CASE ~c.polling /\ c.events = {}
  <2>1. Fail(c) \in ConnType /\ Fail(c).polling = c.polling /\ Fail(c).events = c.events
    BY DEF Fail, ConnType
  <2>2. c.polling \in BOOLEAN
    BY DEF ConnType
  <2> QED
    BY <1>1, <2>1, <2>2 DEF update, Conn
<1>2. CASE ~(~c.polling /\ c.events = {})
  <2> DEFINE d == [c EXCEPT !.polling = (c.events # {})]
  <2>1. d \in ConnType /\ d.polling = (d.events # {})
    BY DEF ConnType
  <2> QED
    BY <1>2, <2>1 DEF update, Conn
<1> QED
  BY <1>1, <1>2

\* Asking for events, and asking for no more.
LEMMA InterestTyped ==
  ASSUME NEW c \in ConnType
  PROVE  /\ enableRead(c) \in Conn /\ disableRead(c) \in Conn
         /\ enableWrite(c) \in Conn /\ disableWrite(c) \in Conn
         /\ disableAll(c) \in Conn
<1>1. ASSUME NEW events \in SUBSET {"IN", "PRI", "OUT"}
      PROVE  [c EXCEPT !.events = events] \in ConnType
  BY DEF ConnType
<1>2. c.events \in SUBSET {"IN", "PRI", "OUT"}
  BY DEF ConnType
<1> QED
  BY <1>1, <1>2, UpdateTyped DEF enableRead, disableRead, enableWrite, disableWrite, disableAll

\* The members that neither write nor buffer.
LEMMA MembersTyped ==
  ASSUME NEW c \in Conn
  PROVE  /\ Fail(c) \in Conn
         /\ shutdownInLoop(c) \in Conn /\ shutdown(c) \in Conn
         /\ stopRead(c) \in Conn /\ startRead(c) \in Conn
         /\ Close(c) \in Conn
<1>1. c \in ConnType /\ c.polling = (c.events # {})
  BY DEF Conn
<1>2. Fail(c) \in Conn
  BY <1>1 DEF Fail, ConnType, Conn
<1>3. ASSUME NEW d \in Conn PROVE shutdownInLoop(d) \in Conn
  BY <1>3 DEF shutdownInLoop, ConnType, Conn
<1>4. [c EXCEPT !.state = "Disconnecting"] \in Conn
  BY <1>1 DEF ConnType, Conn
<1>5. [c EXCEPT !.state = "Disconnected", !.listed = FALSE] \in ConnType
  BY <1>1 DEF ConnType
<1> QED
  BY <1>1, <1>2, <1>3, <1>4, <1>5, InterestTyped
     DEF shutdown, stopRead, startRead, Close

\* The bytes of a send, and the connection that has been given them.
Data(c, len)  == [i \in 1 .. len |-> c.accepted + i]
Given(c, len) == [c EXCEPT !.accepted = @ + len]

\* The bytes, what write(2) takes of them, and what it leaves.
LEMMA DataTyped ==
  ASSUME NEW c \in Conn, NEW len \in Nat, NEW n \in 0 .. len
  PROVE  /\ Data(c, len) \in Seq(Nat) /\ Len(Data(c, len)) = len
         /\ SubSeq(Data(c, len), 1, n) \in Seq(Nat)
         /\ SubSeq(Data(c, len), n + 1, len) \in Seq(Nat)
         /\ Len(SubSeq(Data(c, len), n + 1, len)) = len - n
<1> DEFINE data == Data(c, len)
<1>0. c.accepted \in Nat
  BY DEF Conn, ConnType
<1>1. data \in Seq(Nat) /\ Len(data) = len
  BY <1>0, IsASeq DEF Data
<1>2. \A i \in 1 .. len : data[i] \in Nat
  BY <1>0 DEF Data
<1> HIDE DEF data
<1>3. SubSeq(data, 1, n) \in Seq(Nat)
  BY <1>2, SubSeqProperties
<1>4. /\ SubSeq(data, n + 1, len) \in Seq(Nat)
      /\ Len(SubSeq(data, n + 1, len)) = IF n + 1 <= len THEN len - (n + 1) + 1 ELSE 0
  <2>1. n + 1 \in Int /\ len \in Int /\ \A i \in n + 1 .. len : data[i] \in Nat
    BY <1>2
  <2> QED
    BY <2>1, SubSeqProperties
<1> QED
  BY <1>1, <1>3, <1>4 DEF data

\* Keeping data in the output buffer.
LEMMA KeepTyped ==
  ASSUME NEW c \in Conn, NEW data \in Seq(Nat)
  PROVE  Keep(c, data) \in Conn
<1>1. c.output \o data \in Seq(Nat)
  BY ConcatProperties DEF Conn, ConnType
<1>2. [c EXCEPT !.output = c.output \o data] \in ConnType
  BY <1>1 DEF Conn, ConnType
<1> QED
  BY <1>2, InterestTyped DEF Keep

\* The results of sendInLoop: a connection and the frames on top of its caller.
Results == [conn : Conn, frames : Seq(Frame)]

\* The stacks the members leave.
LEMMA FramesTyped ==
  ASSUME NEW data \in Seq(Nat)
  PROVE  /\ <<>> \in Seq(Frame) /\ <<User>> \in Seq(Frame) /\ <<Rest(data), High>> \in Seq(Frame)
         /\ <<Rest(data)>> \in Seq(Frame)
<1>1. User \in Frame /\ High \in Frame /\ Rest(data) \in Frame
  BY EmptySeq DEF User, High, Rest, Frame
<1> QED
  BY <1>1

\* What sendInLoop leaves behind.
LEMMA RemainderTyped ==
  ASSUME NEW c \in Conn, NEW data \in Seq(Nat)
  PROVE  Remainder(c, data) \in Results
BY KeepTyped, FramesTyped DEF Remainder, Results

\* A connection that was given len bytes, of which write(2) took some.
LEMMA GivenTyped ==
  ASSUME NEW c \in Conn, NEW len \in Nat
  PROVE  /\ Given(c, len) \in Conn /\ [Given(c, len) EXCEPT !.lost = TRUE] \in Conn
         /\ \A taken \in Seq(Nat) : [Given(c, len) EXCEPT !.wire = @ \o taken] \in Conn
<1>1. c.accepted + len \in Nat
  BY DEF Conn, ConnType
<1>2. Given(c, len) \in Conn
  BY <1>1 DEF Given, Conn, ConnType
<1>3. [Given(c, len) EXCEPT !.lost = TRUE] \in Conn
  BY <1>2 DEF Conn, ConnType
<1>4. ASSUME NEW taken \in Seq(Nat)
      PROVE  [Given(c, len) EXCEPT !.wire = @ \o taken] \in Conn
  <2> DEFINE a == Given(c, len)
             wire == a.wire \o taken
  <2>1. wire \in Seq(Nat)
    BY <1>2, ConcatProperties DEF Conn, ConnType
  <2> HIDE DEF a, wire
  <2>2. a \in Conn
    BY <1>2 DEF a
  <2>3. [a EXCEPT !.wire = wire] \in Conn
    BY <2>1, <2>2 DEF Conn, ConnType
  <2> QED
    BY <2>3 DEF a, wire
<1> QED
  BY <1>2, <1>3, <1>4

\* What sendInLoop may return, and when.
LEMMA SendCases ==
  ASSUME NEW c, NEW len, NEW r \in sendInLoop(c, len)
  PROVE  LET data == Data(c, len)
             a    == Given(c, len)
         IN  \/ c.state = "Disconnected" /\ r = [conn |-> c, frames |-> <<>>]
             \/ /\ c.state # "Disconnected" /\ isWriting(c)
                /\ r = Remainder(a, data)
             \/ /\ c.state # "Disconnected" /\ ~isWriting(c) /\ c.output # <<>>
                /\ r = [conn |-> Fail(a), frames |-> <<>>]
             \/ /\ c.state # "Disconnected" /\ ~isWriting(c) /\ c.output = <<>>
                /\ \/ r = [conn |-> [a EXCEPT !.lost = TRUE], frames |-> <<>>]
                   \/ r = [conn   |-> [a EXCEPT !.wire = @ \o data],
                           frames |-> IF WriteCompleteSet THEN <<User>> ELSE <<>>]
                   \/ \E n \in 0 .. len :
                        /\ n # len
                        /\ r = Remainder([a EXCEPT !.wire = @ \o SubSeq(data, 1, n)],
                                         SubSeq(data, n + 1, len))
<1> DEFINE data == Data(c, len)
           a    == Given(c, len)
<1>1. CASE c.state = "Disconnected"
  BY <1>1 DEF sendInLoop, Data, Given
<1>2. CASE c.state # "Disconnected" /\ isWriting(c)
  BY <1>2 DEF sendInLoop, Data, Given
<1>3. CASE c.state # "Disconnected" /\ ~isWriting(c) /\ c.output # <<>>
  BY <1>3 DEF sendInLoop, Data, Given
<1>4. CASE c.state # "Disconnected" /\ ~isWriting(c) /\ c.output = <<>> /\ Broken(c)
  BY <1>4 DEF sendInLoop, Data, Given
<1>5. CASE c.state # "Disconnected" /\ ~isWriting(c) /\ c.output = <<>> /\ ~Broken(c)
  <2>1. PICK n \in 0 .. len :
          r = IF n = len
              THEN [conn   |-> [a EXCEPT !.wire = @ \o data],
                    frames |-> IF WriteCompleteSet THEN <<User>> ELSE <<>>]
              ELSE Remainder([a EXCEPT !.wire = @ \o SubSeq(data, 1, n)],
                             SubSeq(data, n + 1, len))
    BY <1>5 DEF sendInLoop, Data, Given
  <2>2. CASE n = len
    BY <1>5, <2>1, <2>2
  <2>3. CASE n # len
    BY <1>5, <2>1, <2>3
  <2> QED
    BY <2>2, <2>3
<1> QED
  BY <1>1, <1>2, <1>3, <1>4, <1>5

\* sendInLoop keeps the type of the connection.
LEMMA SendTyped ==
  ASSUME NEW c \in Conn, NEW len \in Nat, NEW r \in sendInLoop(c, len)
  PROVE  r \in Results
<1> DEFINE data == Data(c, len)
           a == Given(c, len)
<1>1. data \in Seq(Nat)
  BY DataTyped, len \in 0 .. len
<1>2. /\ a \in Conn /\ [a EXCEPT !.lost = TRUE] \in Conn
      /\ \A taken \in Seq(Nat) : [a EXCEPT !.wire = @ \o taken] \in Conn
  BY GivenTyped
<1>3. \A n \in 0 .. len : /\ SubSeq(data, 1, n) \in Seq(Nat)
                          /\ SubSeq(data, n + 1, len) \in Seq(Nat)
  BY DataTyped
<1>4. Fail(a) \in Conn
  BY <1>2, MembersTyped
<1>5. <<>> \in Seq(Frame) /\ <<User>> \in Seq(Frame)
  BY <1>1, FramesTyped
<1>6. \/ r = [conn |-> c, frames |-> <<>>]
      \/ r = Remainder(a, data)
      \/ r = [conn |-> Fail(a), frames |-> <<>>]
      \/ r = [conn |-> [a EXCEPT !.lost = TRUE], frames |-> <<>>]
      \/ r = [conn   |-> [a EXCEPT !.wire = @ \o data],
              frames |-> IF WriteCompleteSet THEN <<User>> ELSE <<>>]
      \/ \E n \in 0 .. len : r = Remainder([a EXCEPT !.wire = @ \o SubSeq(data, 1, n)],
                                           SubSeq(data, n + 1, len))
  BY SendCases
<1> HIDE DEF data, a
<1>7. \A d \in Conn, left \in Seq(Nat) : Remainder(d, left) \in Results
  BY RemainderTyped
<1>8. ASSUME NEW d \in Conn
      PROVE  /\ [conn |-> d, frames |-> <<>>] \in Results
             /\ [conn |-> d, frames |-> IF WriteCompleteSet THEN <<User>> ELSE <<>>] \in Results
  BY <1>5 DEF Results
<1> QED
  BY <1>1, <1>2, <1>3, <1>4, <1>6, <1>7, <1>8

\* The output buffer and the wire after write(2) took n bytes.
LEMMA WrittenTyped ==
  ASSUME NEW c \in Conn, NEW n \in 0 .. Len(c.output)
  PROVE  /\ [c EXCEPT !.wire = @ \o SubSeq(c.output, 1, n),
                      !.output = SubSeq(@, n + 1, Len(@))] \in Conn
         /\ SubSeq(c.output, n + 1, Len(c.output)) \in Seq(Nat)
<1> DEFINE front == SubSeq(c.output, 1, n)
           rest  == SubSeq(c.output, n + 1, Len(c.output))
           wire  == c.wire \o front
<1>1. c.output \in Seq(Nat) /\ c.wire \in Seq(Nat) /\ Len(c.output) \in Nat
  BY LenProperties DEF Conn, ConnType
<1>2. \A i \in 1 .. Len(c.output) : c.output[i] \in Nat
  BY <1>1
<1>3. front \in Seq(Nat)
  <2>1. \A i \in 1 .. n : c.output[i] \in Nat
    BY <1>1, <1>2
  <2> QED
    BY <2>1, SubSeqProperties
<1>4. rest \in Seq(Nat)
  <2>1. n + 1 \in Int /\ Len(c.output) \in Int
        /\ \A i \in n + 1 .. Len(c.output) : c.output[i] \in Nat
    BY <1>1, <1>2
  <2> QED
    BY <2>1, SubSeqProperties
<1>5. wire \in Seq(Nat)
  BY <1>1, <1>3, ConcatProperties
<1> HIDE DEF wire, rest
<1>6. [c EXCEPT !.wire = wire, !.output = rest] \in Conn
  BY <1>4, <1>5 DEF Conn, ConnType
<1> QED
  BY <1>4, <1>6 DEF wire, rest

(***************************************************************************)
(* Type correctness                                                        *)
(***************************************************************************)
Places == {"idle", "assert", "test", "set", "push"}
UserPcs == [op : Calls \cup {"none"}, was : BOOLEAN, len : 0 .. MaxLen, at : Places]

\* TypeOK is not inductive: a thread that pushes a task is in a call.
TypeInv == TypeOK /\ \A u \in Users : upc[u].at # "idle" => upc[u].op \in Calls

\* The conjuncts of TypeInv in the words of this module.
LEMMA TypeParts ==
  TypeInv <=>
    /\ conn \in Conn
    /\ peer \in {"open", "eof", "reset", "dead"}
    /\ revents \subseteq {"IN", "PRI", "OUT", "HUP", "ERR"}
    /\ lpc \in {"accept", "poll", "events", "tasks"}
    /\ queue \in Seq(Tasks) /\ batch \in Seq(Tasks)
    /\ stack \in Seq(Frame)
    /\ upc \in [Users -> UserPcs]
    /\ \A u \in Users : upc[u].at # "idle" => upc[u].op \in Calls
    /\ held \in [Users -> BOOLEAN]
    /\ sends \in 0 .. MaxSend
    /\ calls \in [Users \cup {Loop} -> 0 .. MaxCalls]
    /\ forced \in BOOLEAN
BY DEF TypeInv, TypeOK, Conn, UserPcs, Places

\* The frames on the stack.
LEMMA StackTyped ==
  ASSUME stack \in Seq(Frame)
  PROVE  /\ \A frames \in Seq(Frame) : stack \o frames \in Seq(Frame)
         /\ \A frames \in Seq(Frame) : <<>> \o frames \in Seq(Frame)
         /\ stack # <<>> => /\ Top \in Frame /\ Top.data \in Seq(Nat)
                            /\ Below \in Seq(Frame) /\ Below \o <<>> = Below
<1>1. \A frames \in Seq(Frame) : stack \o frames \in Seq(Frame) /\ <<>> \o frames \in Seq(Frame)
  BY EmptySeq, ConcatProperties
<1>2. ASSUME stack # <<>>
      PROVE  /\ Top \in Frame /\ Top.data \in Seq(Nat)
             /\ Below \in Seq(Frame) /\ Below \o <<>> = Below
  <2>1. Len(stack) \in Nat \ {0}
    BY <1>2, EmptySeq
  <2>2. \A i \in 1 .. Len(stack) : stack[i] \in Frame
    OBVIOUS
  <2>3. Top \in Frame /\ Top.data \in Seq(Nat)
    BY <2>1, <2>2 DEF Top, Frame
  <2>4. Below \in Seq(Frame)
    <3>1. Len(stack) - 1 \in Int /\ \A i \in 1 .. Len(stack) - 1 : stack[i] \in Frame
      BY <2>1, <2>2
    <3> QED
      BY <3>1, SubSeqProperties DEF Below
  <2> QED
    BY <2>3, <2>4, ConcatEmptySeq
<1> QED
  BY <1>1, <1>2

\* Steps of a handler that end in Become.
LEMMA BecomeTyped ==
  ASSUME TypeInv, conn' \in Conn, stack' \in Seq(Frame),
         peer' \in {"open", "eof", "reset", "dead"},
         revents' \subseteq {"IN", "PRI", "OUT", "HUP", "ERR"},
         lpc' \in {"accept", "poll", "events", "tasks"},
         batch' \in Seq(Tasks), queue' \in Seq(Tasks),
         held' \in [Users -> BOOLEAN], sends' \in 0 .. MaxSend,
         calls' \in [Users \cup {Loop} -> 0 .. MaxCalls], forced' \in BOOLEAN,
         upc' \in [Users -> UserPcs],
         \A u \in Users : upc'[u].at # "idle" => upc'[u].op \in Calls
  PROVE  TypeInv'
BY DEF TypeInv, TypeOK, Conn, UserPcs, Places

\* Calls of a user callback, its return, and the send it interrupted.
LEMMA CallbackTyped ==
  ASSUME TypeInv, Call \/ CallbackReturns \/ ResumeSend
  PROVE  TypeInv'
<1>0. /\ conn \in Conn /\ stack \in Seq(Frame) /\ stack # <<>>
      /\ sends \in 0 .. MaxSend /\ calls \in [Users \cup {Loop} -> 0 .. MaxCalls]
      /\ UNCHANGED <<peer, revents, lpc, queue, batch, upc, held>>
  BY TypeParts DEF Call, CallSend, CallShutdown, CallForceClose, CallStopRead, CallStartRead,
     InCallback, CallbackReturns, ResumeSend, userVars
<1>1. sends' \in 0 .. MaxSend
  BY <1>0, BoundAssumption DEF Call, CallSend, CallShutdown, CallForceClose, CallStopRead,
     CallStartRead, CallbackReturns, ResumeSend, history
<1>2. calls' \in [Users \cup {Loop} -> 0 .. MaxCalls]
  <2>1. Called(Loop) => calls' \in [Users \cup {Loop} -> 0 .. MaxCalls]
    BY <1>0, BoundAssumption DEF Called
  <2> QED
    BY <1>0, <2>1 DEF Call, CallSend, CallShutdown, CallForceClose, CallStopRead,
       CallStartRead, CallbackReturns, ResumeSend, history
<1>3. forced' \in BOOLEAN
  BY TypeParts DEF Call, CallSend, CallShutdown, CallForceClose, CallStopRead, CallStartRead,
     CallbackReturns, ResumeSend, history
<1>4. <<>> \in Seq(Frame) /\ <<User>> \in Seq(Frame)
  BY FramesTyped, EmptySeq
<1>5. conn' \in Conn /\ stack' \in Seq(Frame)
  <2>1. CASE CallSend
    <3>1. PICK len \in 1 .. MaxLen : \E r \in sendInLoop(conn, len) : Become(r.conn, stack, r.frames)
      BY <2>1 DEF CallSend
    <3>2. PICK r \in sendInLoop(conn, len) : Become(r.conn, stack, r.frames)
      BY <3>1
    <3>3. r \in Results
      BY <1>0, SendTyped, BoundAssumption
    <3> QED
      BY <1>0, <3>2, <3>3, StackTyped DEF Become, Results
  <2>2. CASE CallShutdown \/ CallForceClose \/ CallStopRead \/ CallStartRead
    BY <1>0, <1>4, <2>2, MembersTyped, StackTyped
       DEF CallShutdown, CallForceClose, CallStopRead, CallStartRead, Become
  <2>3. CASE CallbackReturns
    BY <1>0, <2>3, StackTyped DEF CallbackReturns, Become
  <2>4. CASE ResumeSend
    BY <1>0, <2>4, StackTyped, KeepTyped DEF ResumeSend, Become
  <2> QED
    BY <2>1, <2>2, <2>3, <2>4 DEF Call
<1> QED
  BY <1>0, <1>1, <1>2, <1>3, <1>5, BecomeTyped, TypeParts

\* write(2) takes bytes of the output buffer.
LEMMA WrittenKeepsType ==
  ASSUME TypeInv, NEW n \in 0 .. Len(conn.output), Written(n)
  PROVE  conn' \in Conn /\ stack' \in Seq(Frame)
<1> DEFINE c == [conn EXCEPT !.wire = @ \o SubSeq(conn.output, 1, n),
                            !.output = SubSeq(@, n + 1, Len(@))]
<1>1. conn \in Conn
  BY TypeParts
<1>2. c \in Conn
  BY <1>1, WrittenTyped
<1>3. \/ Become(c, <<>>, <<>>)
      \/ Become(IF c.state = "Disconnecting" THEN shutdownInLoop(disableWrite(c))
                ELSE disableWrite(c), <<>>, IF WriteCompleteSet THEN <<User>> ELSE <<>>)
  BY DEF Written
<1> HIDE DEF c
<1>4. disableWrite(c) \in Conn /\ shutdownInLoop(disableWrite(c)) \in Conn
  <2>1. c \in ConnType
    BY <1>2 DEF Conn
  <2> QED
    BY <2>1, InterestTyped, MembersTyped
<1>5. /\ <<>> \o <<>> \in Seq(Frame)
      /\ <<>> \o (IF WriteCompleteSet THEN <<User>> ELSE <<>>) \in Seq(Frame)
  BY FramesTyped, StackTyped, TypeParts, EmptySeq
<1> QED
  BY <1>2, <1>3, <1>4, <1>5 DEF Become

\* Steps of the loop thread outside a callback.
LEMMA LoopTyped ==
  ASSUME TypeInv,
         OnConnection \/ Poll \/ Handle \/ SwapTasks \/ RunTask \/ TasksDone
  PROVE  TypeInv'
<1>0. /\ conn \in Conn /\ conn \in ConnType /\ queue \in Seq(Tasks) /\ batch \in Seq(Tasks)
      /\ stack \in Seq(Frame) /\ peer \in {"open", "eof", "reset", "dead"}
      /\ revents \subseteq {"IN", "PRI", "OUT", "HUP", "ERR"} /\ held \in [Users -> BOOLEAN]
      /\ lpc \in {"accept", "poll", "events", "tasks"}
  BY TypeParts DEF Conn
<1>1. UNCHANGED <<upc, sends, calls, forced>>
  BY DEF OnConnection, Poll, Handle, HandleClose, HandleError, HandleRead, HandleWrite, Take,
     SwapTasks, RunTask, TasksDone, history, userVars
<1>2. <<>> \in Seq(Frame) /\ <<>> \o <<User>> \in Seq(Frame) /\ <<>> \o <<>> \in Seq(Frame)
      /\ \A frames \in Seq(Frame) : <<>> \o frames \in Seq(Frame)
  BY <1>0, FramesTyped, EmptySeq, StackTyped
<1>3. CASE OnConnection
  <2>1. /\ held' = [u \in Users |-> TRUE] /\ lpc' = "poll"
        /\ UNCHANGED <<peer, revents, queue, batch>>
        /\ conn' = enableRead([conn EXCEPT !.listed = TRUE, !.state = "Connected"])
        /\ stack' = <<>> \o <<User>>
    BY <1>3 DEF OnConnection, Become
  <2>2. [conn EXCEPT !.listed = TRUE, !.state = "Connected"] \in ConnType
    BY <1>0 DEF ConnType
  <2>3. conn' \in Conn
    BY <2>1, <2>2, InterestTyped
  <2> QED
    BY <1>0, <1>1, <1>2, <2>1, <2>3, BecomeTyped, TypeParts
<1>4. CASE Poll
  <2>1. lpc' = "events" /\ UNCHANGED <<conn, peer, queue, batch, stack, held>>
    BY <1>4 DEF Poll, userVars
  <2>2. revents' \subseteq {"IN", "PRI", "OUT", "HUP", "ERR"}
    BY <1>4 DEF Poll, Must, Can
  <2> QED
    BY <1>0, <1>1, <2>1, <2>2, BecomeTyped, TypeParts
<1>5. CASE Handle
  <2>1. revents' \subseteq revents /\ UNCHANGED <<lpc, queue, batch, held>>
    BY <1>5 DEF Handle, HandleClose, HandleError, HandleRead, HandleWrite, Take, userVars
  <2>2. peer' \in {"open", "eof", "reset", "dead"}
    BY <1>0, <1>5 DEF Handle, HandleClose, HandleError, HandleRead, HandleWrite
  <2>3. CASE HandleClose \/ HandleError \/ HandleRead
    <3>1. Close(conn) \in Conn /\ Fail(conn) \in Conn
      BY <1>0, MembersTyped
    <3>2. conn' \in Conn /\ stack' \in Seq(Frame)
      BY <1>0, <1>2, <2>3, <3>1 DEF HandleClose, HandleError, HandleRead, Become
    <3> QED
      BY <1>0, <1>1, <2>1, <2>2, <3>2, BecomeTyped, TypeParts
  <2>4. CASE HandleWrite
    <3>1. \/ UNCHANGED <<conn, stack>>
          \/ Become(Fail(conn), <<>>, <<>>)
          \/ \E n \in 0 .. Len(conn.output) : Written(n)
      BY <2>4 DEF HandleWrite
    <3>2. Fail(conn) \in Conn
      BY <1>0, MembersTyped
    <3>3. conn' \in Conn /\ stack' \in Seq(Frame)
      <4>1. CASE UNCHANGED <<conn, stack>>
        BY <1>0, <4>1
      <4>2. CASE Become(Fail(conn), <<>>, <<>>)
        BY <1>2, <3>2, <4>2 DEF Become
      <4>3. CASE \E n \in 0 .. Len(conn.output) : Written(n)
        BY <4>3, WrittenKeepsType
      <4> QED
        BY <3>1, <4>1, <4>2, <4>3
    <3> QED
      BY <1>0, <1>1, <2>1, <2>2, <3>3, BecomeTyped, TypeParts
  <2> QED
    BY <1>5, <2>3, <2>4 DEF Handle
<1>6. CASE SwapTasks \/ TasksDone
  <2>1. /\ batch' \in Seq(Tasks) /\ queue' \in Seq(Tasks)
        /\ lpc' \in {"accept", "poll", "events", "tasks"}
        /\ UNCHANGED <<conn, peer, revents, stack, held>>
    BY <1>0, <1>6, EmptySeq DEF SwapTasks, TasksDone, userVars
  <2> QED
    BY <1>0, <1>1, <2>1, BecomeTyped, TypeParts
<1>7. CASE RunTask
  <2>1. /\ batch # <<>> /\ batch' = Tail(batch)
        /\ UNCHANGED <<peer, revents, lpc, queue, held>>
    BY <1>7 DEF RunTask, userVars
  <2>2. batch' \in Seq(Tasks)
    BY <1>0, <2>1, HeadTailProperties
  <2>3. Head(batch) \in Tasks /\ Head(batch).len \in Nat
    <3>1. Head(batch) \in Tasks
      BY <1>0, <2>1, HeadTailProperties
    <3> QED
      BY <3>1, BoundAssumption DEF Tasks
  <2>4. /\ shutdownInLoop(conn) \in Conn /\ stopRead(conn) \in Conn /\ startRead(conn) \in Conn
        /\ Close(conn) \in Conn /\ [conn EXCEPT !.failed = "freed"] \in Conn
    <3>1. [conn EXCEPT !.failed = "freed"] \in Conn
      BY <1>0 DEF Conn, ConnType
    <3> QED
      BY <1>0, <3>1, MembersTyped
  <2>5. \/ conn' \in {shutdownInLoop(conn), stopRead(conn), startRead(conn), Close(conn),
                       [conn EXCEPT !.failed = "freed"], conn}
           /\ stack' \in {<<>> \o <<>>, <<>> \o <<User>>, stack}
        \/ \E r \in sendInLoop(conn, Head(batch).len) : Become(r.conn, <<>>, r.frames)
    BY <1>7 DEF RunTask, Become
  <2>6. conn' \in Conn /\ stack' \in Seq(Frame)
    <3>1. CASE \E r \in sendInLoop(conn, Head(batch).len) : Become(r.conn, <<>>, r.frames)
      <4>1. PICK r \in sendInLoop(conn, Head(batch).len) : Become(r.conn, <<>>, r.frames)
        BY <3>1
      <4>2. r \in Results
        BY <1>0, <2>3, SendTyped
      <4> QED
        BY <1>2, <4>1, <4>2 DEF Become, Results
    <3> QED
      BY <1>0, <1>2, <2>4, <2>5, <3>1
  <2> QED
    BY <1>0, <1>1, <2>1, <2>2, <2>6, BecomeTyped, TypeParts
<1> QED
  BY <1>3, <1>4, <1>5, <1>6, <1>7

\* The destructor, the other threads and the peer.
LEMMA OthersTyped ==
  ASSUME TypeInv,
         \/ Destroy \/ PeerCloses \/ PeerResets
         \/ \E u \in Users : UserStep(u) \/ UserSend(u) \/ UserClose(u) \/ UserReading(u) \/ Drop(u)
  PROVE  TypeInv'
<1>0. /\ conn \in Conn /\ queue \in Seq(Tasks) /\ held \in [Users -> BOOLEAN]
      /\ sends \in 0 .. MaxSend /\ calls \in [Users \cup {Loop} -> 0 .. MaxCalls]
      /\ upc \in [Users -> UserPcs] /\ forced \in BOOLEAN
      /\ \A u \in Users : upc[u].at # "idle" => upc[u].op \in Calls
      /\ MaxLen \in Nat /\ MaxSend \in Nat /\ MaxCalls \in Nat
  BY TypeParts, BoundAssumption
<1>1. Fail(conn) \in Conn
  BY <1>0, MembersTyped
<1>2. CASE Destroy
  <2>1. UNCHANGED <<peer, revents, lpc, queue, batch, stack, upc, held, sends, calls, forced>>
    BY <1>2 DEF Destroy, loopVars, userVars, history
  <2>2. \/ conn' = [Fail(conn) EXCEPT !.freed = TRUE]
        \/ conn' = [conn EXCEPT !.freed = TRUE]
    BY <1>2 DEF Destroy
  <2>3. \A c \in Conn : [c EXCEPT !.freed = TRUE] \in Conn
    BY DEF Conn, ConnType
  <2>4. conn' \in Conn
    BY <1>0, <1>1, <2>2, <2>3
  <2> QED
    BY <2>1, <2>4, BecomeTyped, TypeParts
<1>3. CASE PeerCloses \/ PeerResets
  <2>1. UNCHANGED <<conn, revents, lpc, queue, batch, stack, upc, held, sends, calls, forced>>
    BY <1>3 DEF PeerCloses, PeerResets, loopVars, userVars, history
  <2>2. peer' \in {"open", "eof", "reset", "dead"}
    BY <1>3 DEF PeerCloses, PeerResets
  <2> QED
    BY <2>1, <2>2, BecomeTyped, TypeParts
<1>4. ASSUME NEW u \in Users,
             UserStep(u) \/ UserSend(u) \/ UserClose(u) \/ UserReading(u) \/ Drop(u)
      PROVE  TypeInv'
  <2>0. upc[u] \in UserPcs
    BY <1>0
  <2>1. UNCHANGED <<peer, revents, lpc, batch, stack>>
    BY <1>4 DEF UserStep, UserAssert, UserTest, UserSet, UserPush, UserSend, UserClose,
       UserReading, Drop, loopVars
  <2>2. conn' \in Conn
    <3>1. [conn EXCEPT !.state = "Disconnecting"] \in Conn
      BY <1>0 DEF Conn, ConnType
    <3> QED
      BY <1>0, <1>1, <1>4, <3>1 DEF UserStep, UserAssert, UserTest, UserSet, UserPush, UserSend,
         UserClose, UserReading, Drop
  <2>3. queue' \in Seq(Tasks)
    <3>1. ASSUME NEW op \in Calls, NEW len \in 0 .. MaxLen, Enqueue(op, len)
          PROVE  queue' \in Seq(Tasks)
      <4>1. [op |-> op, len |-> len] \in Tasks
        BY DEF Tasks
      <4> QED
        BY <1>0, <3>1, <4>1, AppendProperties DEF Enqueue
    <3>2. CASE UserPush(u)
      <4>1. upc[u].at # "idle" /\ Enqueue(upc[u].op, upc[u].len)
        BY <3>2 DEF UserPush
      <4>2. upc[u].op \in Calls /\ upc[u].len \in 0 .. MaxLen
        BY <1>0, <2>0, <4>1 DEF UserPcs
      <4> QED
        BY <3>1, <4>1, <4>2
    <3>3. CASE UserReading(u)
      <4>1. PICK op \in {"stopRead", "startRead"} : Enqueue(op, 0)
        BY <3>3 DEF UserReading
      <4>2. op \in Calls /\ 0 \in 0 .. MaxLen
        BY <1>0 DEF Calls
      <4> QED
        BY <3>1, <4>1, <4>2
    <3>4. CASE UserAssert(u) \/ UserTest(u) \/ UserSet(u) \/ UserSend(u) \/ UserClose(u) \/ Drop(u)
      BY <1>0, <3>4 DEF UserAssert, UserTest, UserSet, UserSend, UserClose, Drop, loopVars
    <3> QED
      BY <1>4, <3>2, <3>3, <3>4 DEF UserStep
  <2>4. held' \in [Users -> BOOLEAN]
    BY <1>0, <1>4 DEF UserStep, UserAssert, UserTest, UserSet, UserPush, UserSend,
       UserClose, UserReading, Drop, userVars
  <2>5. sends' \in 0 .. MaxSend /\ forced' \in BOOLEAN
    <3>1. sends' = sends \/ (sends < MaxSend /\ sends' = sends + 1)
      BY <1>4 DEF UserStep, UserAssert, UserTest, UserSet, UserPush, UserSend,
         UserClose, UserReading, Drop, history
    <3>2. forced' = forced \/ forced' \in BOOLEAN
      BY <1>4 DEF UserStep, UserAssert, UserTest, UserSet, UserPush, UserSend,
         UserClose, UserReading, Drop, history
    <3> QED
      BY <1>0, <3>1, <3>2
  <2>6. calls' \in [Users \cup {Loop} -> 0 .. MaxCalls]
    <3>1. Called(u) => calls' \in [Users \cup {Loop} -> 0 .. MaxCalls]
      BY <1>0 DEF Called
    <3> QED
      BY <1>0, <1>4, <3>1 DEF UserStep, UserAssert, UserTest, UserSet, UserPush, UserSend,
         UserClose, UserReading, Drop, history
  <2>7. /\ upc' \in [Users -> UserPcs]
        /\ \A v \in Users : upc'[v].at # "idle" => upc'[v].op \in Calls
    <3>1. \/ upc' = upc
          \/ \E pc \in UserPcs : /\ upc' = [upc EXCEPT ![u] = pc]
                                 /\ pc.at # "idle" => pc.op \in Calls
      <4>1. Idle \in UserPcs /\ Idle.at = "idle"
        BY <1>0 DEF Idle, UserPcs, Places
      <4>2. CASE UserAssert(u) \/ UserTest(u)
        <5>1. upc[u].at # "idle"
          BY <4>2 DEF UserAssert, UserTest
        <5>2. CASE UserAssert(u)
          <6>1. upc' = [upc EXCEPT ![u] = [upc[u] EXCEPT !.at = "test"]]
            BY <1>0, <5>2 DEF UserAssert
          <6>2. /\ [upc[u] EXCEPT !.at = "test"] \in UserPcs
                /\ [upc[u] EXCEPT !.at = "test"].op \in Calls
            BY <1>0, <2>0, <5>1 DEF UserPcs, Places
          <6> QED
            BY <6>1, <6>2
        <5>3. CASE UserTest(u)
          <6> DEFINE pc == [upc[u] EXCEPT !.was = (conn.state = "Connected"), !.at = "set"]
          <6>1. upc' = [upc EXCEPT ![u] = pc]
            BY <1>0, <2>0, <5>3 DEF UserTest, UserPcs
          <6>2. pc \in UserPcs /\ pc.op \in Calls
            BY <1>0, <2>0, <5>1 DEF UserPcs, Places
          <6> QED
            BY <6>1, <6>2
        <5> QED
          BY <4>2, <5>2, <5>3
      <4>3. CASE UserSet(u)
        <5>1. upc[u].at # "idle"
          BY <4>3 DEF UserSet
        <5>2. /\ [upc[u] EXCEPT !.at = "push"] \in UserPcs
              /\ [upc[u] EXCEPT !.at = "push"].op \in Calls
          BY <1>0, <2>0, <5>1 DEF UserPcs, Places
        <5> QED
          BY <4>1, <4>3, <5>2 DEF UserSet
      <4>4. CASE UserPush(u)
        BY <4>1, <4>4 DEF UserPush
      <4>5. CASE UserSend(u)
        <5>1. PICK len \in 1 .. MaxLen :
                upc' = [upc EXCEPT ![u] = [op |-> "send", at |-> "push", was |-> TRUE, len |-> len]]
          BY <4>5 DEF UserSend
        <5>2. [op |-> "send", at |-> "push", was |-> TRUE, len |-> len] \in UserPcs
          BY <1>0 DEF UserPcs, Places, Calls
        <5> QED
          BY <5>1, <5>2 DEF Calls
      <4>6. CASE UserClose(u)
        <5>1. PICK op \in {"shutdown", "forceClose"} :
                upc' = [upc EXCEPT ![u] = [op |-> op, at |-> "assert", was |-> FALSE, len |-> 0]]
          BY <4>6 DEF UserClose
        <5>2. [op |-> op, at |-> "assert", was |-> FALSE, len |-> 0] \in UserPcs
          BY <1>0 DEF UserPcs, Places, Calls
        <5> QED
          BY <5>1, <5>2 DEF Calls
      <4>7. CASE UserReading(u) \/ Drop(u)
        BY <4>7 DEF UserReading, Drop, userVars
      <4> QED
        BY <1>4, <4>2, <4>3, <4>4, <4>5, <4>6, <4>7 DEF UserStep
    <3> QED
      BY <1>0, <3>1
  <2> QED
    BY <2>1, <2>2, <2>3, <2>4, <2>5, <2>6, <2>7, BecomeTyped, TypeParts
<1> QED
  BY <1>2, <1>3, <1>4

\* The inductive form of the type invariant.
LEMMA TypeInvariant == Spec => []TypeInv
<1>1. Init => TypeInv
  <2> SUFFICES ASSUME Init PROVE TypeInv
    OBVIOUS
  <2>1. conn \in Conn
    BY EmptySeq DEF Init, Conn, ConnType
  <2>2. Idle \in UserPcs /\ Idle.at = "idle"
    BY BoundAssumption DEF Idle, UserPcs, Places
  <2>3. /\ queue \in Seq(Tasks) /\ batch \in Seq(Tasks) /\ stack \in Seq(Frame)
        /\ held \in [Users -> BOOLEAN] /\ sends \in 0 .. MaxSend
        /\ calls \in [Users \cup {Loop} -> 0 .. MaxCalls]
    BY EmptySeq, BoundAssumption DEF Init
  <2>4. /\ upc \in [Users -> UserPcs] /\ \A u \in Users : upc[u].at = "idle"
    BY <2>2 DEF Init
  <2>5. /\ peer = "open" /\ revents = {} /\ lpc = "accept" /\ forced \in BOOLEAN
    BY DEF Init
  <2> QED
    BY <2>1, <2>3, <2>4, <2>5, TypeParts
<1>2. TypeInv /\ [Next]_vars => TypeInv'
  <2>1. ASSUME TypeInv, UNCHANGED vars PROVE TypeInv'
    BY <2>1, BecomeTyped, TypeParts DEF vars, loopVars, userVars, history
  <2> QED
    BY <2>1, LoopTyped, CallbackTyped, OthersTyped DEF Next, LoopStep
<1> QED
  BY <1>1, <1>2, PTL DEF Spec

\* Every member leaves a connection of its type, whose channel is polled
\* exactly when it has an interest, for every bound and every mix of calls.
THEOREM ConnTypeCorrect == Spec => []TypeOK
BY TypeInvariant, PTL DEF TypeInv

(***************************************************************************)
(* The asserts and EPOLLOUT, whatever the callbacks, the other threads and *)
(* the peer do: as long as the connection is in the server's set it is in  *)
(* order.  What is done to it afterwards may be wrong (a startRead that    *)
(* registers its channel again, a shutdown whose store of _state comes     *)
(* after the close, a read of urgent data behind a hang-up), but never     *)
(* puts it back into the set.                                              *)
(***************************************************************************)
Open(c) == c.state \in {"Connected", "Disconnecting"}

\* A connection in order.
Fit(c) ==
    /\ Open(c) /\ c.listed /\ ~c.freed /\ c.failed = "no"
    /\ "PRI" \in c.events
    /\ "OUT" \in c.events <=> c.output # <<>>

\* A step from c to d that leaves the connection in order, if it leaves it in
\* the set, and waiting for EPOLLOUT if it was.
Keeps(c, d) == d.listed => c.listed /\ Fit(d) /\ (isWriting(c) => isWriting(d))

\* Before the connection is handed out nothing has happened to it.
Fresh ==
    /\ conn.state = "Connecting" /\ conn.events = {} /\ conn.output = <<>>
    /\ ~conn.listed /\ ~conn.freed /\ conn.failed = "no"
    /\ stack = <<>> /\ revents = {}
    /\ \A u \in Users : ~held[u] /\ upc[u].at = "idle"

\* The calls of a callback that neither write nor close.
LEMMA FitMembers ==
  ASSUME NEW c \in Conn, Fit(c)
  PROVE  /\ Fit(stopRead(c)) /\ Fit(startRead(c)) /\ Fit(shutdownInLoop(c)) /\ Fit(shutdown(c))
         /\ \A d \in {stopRead(c), startRead(c), shutdownInLoop(c), shutdown(c)} :
               isWriting(d) = isWriting(c) /\ d.output = c.output
         /\ ~Close(c).listed
<1>0. /\ c \in ConnType /\ c.polling = (c.events # {}) /\ "PRI" \in c.events /\ c.polling
      /\ c.events \subseteq {"IN", "PRI", "OUT"}
  BY DEF Conn, ConnType, Fit
<1>1. ASSUME NEW events \in SUBSET {"IN", "PRI", "OUT"}
      PROVE  update([c EXCEPT !.events = events]) = [c EXCEPT !.events = events, !.polling = (events # {})]
  BY <1>0 DEF update, ConnType
<1>2. ASSUME NEW events \in SUBSET {"IN", "PRI", "OUT"}, "PRI" \in events,
             "OUT" \in events <=> "OUT" \in c.events
      PROVE  LET d == update([c EXCEPT !.events = events])
             IN  Fit(d) /\ isWriting(d) = isWriting(c) /\ d.output = c.output
  <2> DEFINE d == [c EXCEPT !.events = events, !.polling = (events # {})]
  <2>1. Fit(d) /\ isWriting(d) = isWriting(c) /\ d.output = c.output
    BY <1>0, <1>2 DEF Fit, Open, isWriting, ConnType
  <2>2. update([c EXCEPT !.events = events]) = d
    BY <1>1
  <2> HIDE DEF d
  <2> QED
    BY <2>1, <2>2
<1>3. Fit(stopRead(c)) /\ isWriting(stopRead(c)) = isWriting(c) /\ stopRead(c).output = c.output
  <2>1. CASE isReading(c)
    <3> DEFINE events == c.events \ {"IN"}
    <3>1. stopRead(c) = update([c EXCEPT !.events = events])
      BY <2>1 DEF stopRead, disableRead
    <3>2. /\ events \in SUBSET {"IN", "PRI", "OUT"} /\ "PRI" \in events
          /\ "OUT" \in events <=> "OUT" \in c.events
      BY <1>0
    <3> HIDE DEF events
    <3> QED
      BY <1>2, <3>1, <3>2
  <2>2. CASE ~isReading(c)
    BY <2>2 DEF stopRead
  <2> QED
    BY <2>1, <2>2
<1>4. Fit(startRead(c)) /\ isWriting(startRead(c)) = isWriting(c) /\ startRead(c).output = c.output
  <2>1. CASE ~isReading(c)
    <3> DEFINE events == c.events \cup {"IN", "PRI"}
    <3>1. startRead(c) = update([c EXCEPT !.events = events])
      BY <2>1 DEF startRead, enableRead
    <3>2. /\ events \in SUBSET {"IN", "PRI", "OUT"} /\ "PRI" \in events
          /\ "OUT" \in events <=> "OUT" \in c.events
      BY <1>0
    <3> HIDE DEF events
    <3> QED
      BY <1>2, <3>1, <3>2
  <2>2. CASE isReading(c)
    BY <2>2 DEF startRead
  <2> QED
    BY <2>1, <2>2
<1>5. ASSUME NEW d \in ConnType, Fit(d)
      PROVE  /\ Fit(shutdownInLoop(d)) /\ isWriting(shutdownInLoop(d)) = isWriting(d)
             /\ shutdownInLoop(d).output = d.output
  BY <1>5 DEF shutdownInLoop, Fit, Open, isWriting, ConnType
<1>6. Fit(shutdown(c)) /\ isWriting(shutdown(c)) = isWriting(c) /\ shutdown(c).output = c.output
  <2> DEFINE d == [c EXCEPT !.state = "Disconnecting"]
  <2>1. d \in ConnType /\ Fit(d) /\ isWriting(d) = isWriting(c) /\ d.output = c.output
    BY <1>0 DEF Fit, Open, isWriting, ConnType
  <2>2. shutdown(c) = d \/ shutdown(c) = shutdownInLoop(d)
    BY DEF shutdown
  <2> QED
    BY <1>5, <2>1, <2>2
<1>7. ~Close(c).listed
  <2>1. Close(c) = disableAll([c EXCEPT !.state = "Disconnected", !.listed = FALSE])
    BY DEF Close, Fit, Open
  <2>2. update([[c EXCEPT !.state = "Disconnected", !.listed = FALSE] EXCEPT !.events = {}])
        = [c EXCEPT !.state = "Disconnected", !.listed = FALSE, !.events = {}, !.polling = FALSE]
    BY <1>0 DEF update, ConnType
  <2>3. ~[c EXCEPT !.state = "Disconnected", !.listed = FALSE, !.events = {}, !.polling = FALSE].listed
    BY <1>0 DEF ConnType
  <2> QED
    BY <2>1, <2>2, <2>3 DEF disableAll
<1> QED
  BY <1>0, <1>3, <1>4, <1>5, <1>6, <1>7

\* Asking for EPOLLOUT and asking for it no more.
LEMMA FitWriting ==
  ASSUME NEW c \in Conn, Open(c), c.listed, ~c.freed, c.failed = "no", "PRI" \in c.events
  PROVE  /\ c.output # <<>> => Fit(enableWrite(c)) /\ isWriting(enableWrite(c))
         /\ c.output = <<>> => Fit(disableWrite(c))
<1>0. /\ c \in ConnType /\ c.polling = (c.events # {}) /\ c.polling
      /\ c.events \subseteq {"IN", "PRI", "OUT"}
  BY DEF Conn, ConnType
<1>1. ASSUME NEW events \in SUBSET {"IN", "PRI", "OUT"}, "PRI" \in events
      PROVE  /\ update([c EXCEPT !.events = events]).events = events
             /\ "OUT" \in events <=> c.output # <<>> => Fit(update([c EXCEPT !.events = events]))
  <2> DEFINE d == [c EXCEPT !.events = events, !.polling = (events # {})]
  <2>1. update([c EXCEPT !.events = events]) = d
    BY <1>0 DEF update, ConnType
  <2>2. d.events = events /\ ((("OUT" \in events) <=> c.output # <<>>) => Fit(d))
    BY <1>0, <1>1 DEF Fit, Open, ConnType
  <2> HIDE DEF d
  <2> QED
    BY <2>1, <2>2
<1>2. enableWrite(c) = update([c EXCEPT !.events = c.events \cup {"OUT"}])
  BY DEF enableWrite
<1>3. disableWrite(c) = update([c EXCEPT !.events = c.events \ {"OUT"}])
  BY DEF disableWrite
<1>4. c.output # <<>> => Fit(enableWrite(c)) /\ isWriting(enableWrite(c))
  <2> DEFINE events == c.events \cup {"OUT"}
  <2>1. events \in SUBSET {"IN", "PRI", "OUT"} /\ "PRI" \in events /\ "OUT" \in events
    BY <1>0
  <2>2. enableWrite(c) = update([c EXCEPT !.events = events])
    BY <1>2
  <2> HIDE DEF events
  <2> QED
    BY <1>1, <2>1, <2>2 DEF isWriting
<1>5. c.output = <<>> => Fit(disableWrite(c))
  <2> DEFINE events == c.events \ {"OUT"}
  <2>1. events \in SUBSET {"IN", "PRI", "OUT"} /\ "PRI" \in events /\ "OUT" \notin events
    BY <1>0
  <2>2. disableWrite(c) = update([c EXCEPT !.events = events])
    BY <1>3
  <2> HIDE DEF events
  <2> QED
    BY <1>1, <2>1, <2>2
<1> QED
  BY <1>4, <1>5

\* Keeping data leaves the connection waiting for EPOLLOUT.
LEMMA FitKeep ==
  ASSUME NEW c \in Conn, Fit(c), NEW data \in Seq(Nat), isWriting(c) \/ data # <<>>
  PROVE  Fit(Keep(c, data)) /\ isWriting(Keep(c, data))
<1> DEFINE output == c.output \o data
           d == [c EXCEPT !.output = output]
<1>1. output \in Seq(Nat) /\ output # <<>>
  BY ConcatEqualIffEmpty, ConcatProperties DEF Conn, ConnType, Fit, isWriting
<1>2. Keep(c, data) = enableWrite([c EXCEPT !.output = output])
  BY DEF Keep
<1> HIDE DEF output
<1>3. /\ d \in Conn /\ Open(d) /\ d.listed /\ ~d.freed /\ d.failed = "no" /\ "PRI" \in d.events
      /\ d.output # <<>>
  BY <1>1 DEF Conn, ConnType, Fit, Open
<1> QED
  BY <1>2, <1>3, FitWriting

\* What sendInLoop leaves to be done by a connection that is up.
Following(frames) ==
    \/ frames = <<>> \/ frames = <<User>>
    \/ \E data \in Seq(Nat) : data # <<>> /\ frames = <<Rest(data), High>>

\* What sendInLoop leaves behind is waiting for EPOLLOUT or for the callback.
LEMMA FitRemainder ==
  ASSUME NEW c \in Conn, Fit(c), NEW data \in Seq(Nat), isWriting(c) \/ data # <<>>
  PROVE  LET r == Remainder(c, data)
         IN  /\ Fit(r.conn) /\ (isWriting(c) => isWriting(r.conn))
             /\ Following(r.frames)
<1>1. Fit(Keep(c, data)) /\ isWriting(Keep(c, data))
  BY FitKeep
<1>2. CASE HighWaterSet /\ Len(c.output) < HighWaterMark /\ Len(c.output) + Len(data) >= HighWaterMark
  <2>1. data # <<>>
    <3>1. Len(c.output) \in Nat /\ HighWaterMark \in Nat
      BY BoundAssumption, LenProperties DEF Conn, ConnType
    <3>2. Len(data) # 0
      BY <1>2, <3>1
    <3> QED
      BY <3>2
  <2>2. Remainder(c, data) = [conn |-> c, frames |-> <<Rest(data), High>>]
    BY <1>2 DEF Remainder
  <2> QED
    BY <2>1, <2>2 DEF Following
<1>3. CASE ~(HighWaterSet /\ Len(c.output) < HighWaterMark /\ Len(c.output) + Len(data) >= HighWaterMark)
  <2>1. \/ Remainder(c, data) = [conn |-> c, frames |-> <<>>]
        \/ Remainder(c, data) = [conn |-> Keep(c, data), frames |-> <<>>]
    BY <1>3 DEF Remainder
  <2> QED
    BY <1>1, <2>1 DEF Following
<1> QED
  BY <1>2, <1>3

\* sendInLoop keeps a connection that is up in order.
LEMMA FitSend ==
  ASSUME NEW c \in Conn, Fit(c), NEW len \in Nat, NEW r \in sendInLoop(c, len)
  PROVE  /\ Fit(r.conn) /\ (isWriting(c) => isWriting(r.conn))
         /\ Following(r.frames)
<1> DEFINE data == Data(c, len)
           a    == Given(c, len)
<1>1. /\ a \in Conn /\ [a EXCEPT !.lost = TRUE] \in Conn
      /\ \A taken \in Seq(Nat) : [a EXCEPT !.wire = @ \o taken] \in Conn
  BY GivenTyped
<1>2. Fit(a) /\ a.output = c.output /\ isWriting(a) = isWriting(c)
  BY DEF Conn, ConnType, Fit, Open, Given, isWriting
<1>3. data \in Seq(Nat)
  BY DataTyped, len \in 0 .. len
<1>4. \A n \in 0 .. len : /\ SubSeq(data, 1, n) \in Seq(Nat)
                          /\ SubSeq(data, n + 1, len) \in Seq(Nat)
                          /\ n # len => SubSeq(data, n + 1, len) # <<>>
  <2> TAKE n \in 0 .. len
  <2>1. /\ SubSeq(data, 1, n) \in Seq(Nat)
        /\ SubSeq(data, n + 1, len) \in Seq(Nat)
        /\ Len(SubSeq(data, n + 1, len)) = len - n
    BY DataTyped
  <2>2. n # len => len - n # 0
    OBVIOUS
  <2> QED
    BY <2>1, <2>2, EmptySeq
<1>5. \/ c.state = "Disconnected" /\ r = [conn |-> c, frames |-> <<>>]
      \/ isWriting(c) /\ r = Remainder(a, data)
      \/ ~isWriting(c) /\ c.output # <<>> /\ r = [conn |-> Fail(a), frames |-> <<>>]
      \/ /\ ~isWriting(c)
         /\ \/ r = [conn |-> [a EXCEPT !.lost = TRUE], frames |-> <<>>]
            \/ r = [conn   |-> [a EXCEPT !.wire = @ \o data],
                    frames |-> IF WriteCompleteSet THEN <<User>> ELSE <<>>]
            \/ \E n \in 0 .. len :
                 /\ n # len
                 /\ r = Remainder([a EXCEPT !.wire = @ \o SubSeq(data, 1, n)],
                                  SubSeq(data, n + 1, len))
  BY SendCases
<1> HIDE DEF data, a
<1>6. ASSUME NEW taken \in Seq(Nat)
      PROVE  /\ Fit([a EXCEPT !.wire = @ \o taken])
             /\ isWriting([a EXCEPT !.wire = @ \o taken]) = isWriting(c)
  BY <1>1, <1>2 DEF Conn, ConnType, Fit, Open, isWriting
<1>7. CASE isWriting(c) /\ r = Remainder(a, data)
  BY <1>1, <1>2, <1>3, <1>7, FitRemainder DEF Following
<1>8. CASE /\ ~isWriting(c)
           /\ \/ r = [conn |-> [a EXCEPT !.lost = TRUE], frames |-> <<>>]
              \/ r = [conn   |-> [a EXCEPT !.wire = @ \o data],
                      frames |-> IF WriteCompleteSet THEN <<User>> ELSE <<>>]
  <2>1. Fit([a EXCEPT !.lost = TRUE])
    BY <1>1, <1>2 DEF Conn, ConnType, Fit, Open
  <2> DEFINE all  == [a EXCEPT !.wire = @ \o data]
             lost == [a EXCEPT !.lost = TRUE]
  <2>2. Fit(all)
    BY <1>3, <1>6
  <2>3. \/ r = [conn |-> lost, frames |-> <<>>]
        \/ r = [conn |-> all, frames |-> <<User>>]
        \/ r = [conn |-> all, frames |-> <<>>]
    BY <1>8
  <2> HIDE DEF all, lost
  <2>4. Fit(lost)
    BY <2>1 DEF lost
  <2> QED
    BY <1>8, <2>2, <2>3, <2>4 DEF Following
<1>9. ASSUME ~isWriting(c), NEW n \in 0 .. len, n # len,
             r = Remainder([a EXCEPT !.wire = @ \o SubSeq(data, 1, n)],
                           SubSeq(data, n + 1, len))
      PROVE  Fit(r.conn) /\ Following(r.frames)
  <2> DEFINE d == [a EXCEPT !.wire = @ \o SubSeq(data, 1, n)]
             left == SubSeq(data, n + 1, len)
  <2>1. d \in Conn /\ Fit(d) /\ left \in Seq(Nat) /\ left # <<>>
    BY <1>1, <1>4, <1>6, <1>9
  <2>2. r = Remainder(d, left)
    BY <1>9
  <2> HIDE DEF d, left
  <2> QED
    BY <2>1, <2>2, FitRemainder DEF Following
<1>10. c.state # "Disconnected" /\ (isWriting(c) <=> c.output # <<>>)
  BY DEF Fit, Open, isWriting
<1> QED
  BY <1>5, <1>7, <1>8, <1>9, <1>10

\* A connection comes up when it is accepted.
LEMMA FitAccepted ==
  ASSUME conn \in Conn, Fresh
  PROVE  Fit(enableRead([conn EXCEPT !.listed = TRUE, !.state = "Connected"]))
<1> DEFINE c == [conn EXCEPT !.listed = TRUE, !.state = "Connected"]
           d == [c EXCEPT !.events = {"IN", "PRI"}, !.polling = TRUE]
<1>1. /\ c \in Conn /\ c.events = {} /\ c.output = <<>> /\ ~c.freed /\ c.failed = "no"
      /\ c.state = "Connected" /\ c.listed
  BY DEF Fresh, Conn, ConnType
<1> HIDE DEF c
<1>2. {} \cup {"IN", "PRI"} = {"IN", "PRI"} /\ {"IN", "PRI"} # {}
  OBVIOUS
<1>3. enableRead(c) = d
  BY <1>1, <1>2 DEF enableRead, update, Conn, ConnType
<1>4. Fit(d)
  BY <1>1 DEF Fit, Open, Conn, ConnType
<1> QED
  BY <1>3, <1>4 DEF c

\* No member but Close touches the server's set, and Close only leaves it.
LEMMA ListedMembers ==
  ASSUME NEW c \in Conn
  PROVE  /\ \A d \in {Fail(c), stopRead(c), startRead(c), shutdownInLoop(c), shutdown(c),
                      disableWrite(c)} : d.listed = c.listed
         /\ Close(c).listed => c.listed
         /\ \A data \in Seq(Nat) : Keep(c, data).listed = c.listed
         /\ \A len \in Nat : \A r \in sendInLoop(c, len) : r.conn.listed = c.listed
<1>0. c \in ConnType
  BY DEF Conn
<1>1. \A d \in ConnType : Fail(d).listed = d.listed /\ update(d).listed = d.listed
  BY DEF update, Fail, ConnType
<1>2. \A events \in SUBSET {"IN", "PRI", "OUT"} : update([c EXCEPT !.events = events]).listed = c.listed
  <2> TAKE events \in SUBSET {"IN", "PRI", "OUT"}
  <2> DEFINE d == [c EXCEPT !.events = events]
  <2>1. d \in ConnType /\ d.listed = c.listed
    BY <1>0 DEF ConnType
  <2> HIDE DEF d
  <2>2. update(d).listed = c.listed
    BY <1>1, <2>1
  <2> QED
    BY <2>2 DEF d
<1>3. /\ enableRead(c).listed = c.listed /\ disableRead(c).listed = c.listed
      /\ disableWrite(c).listed = c.listed
  <2>1. /\ c.events \cup {"IN", "PRI"} \in SUBSET {"IN", "PRI", "OUT"}
        /\ c.events \ {"IN"} \in SUBSET {"IN", "PRI", "OUT"}
        /\ c.events \ {"OUT"} \in SUBSET {"IN", "PRI", "OUT"}
    BY <1>0 DEF ConnType
  <2> QED
    BY <1>2, <2>1 DEF enableRead, disableRead, disableWrite
<1>4. stopRead(c).listed = c.listed /\ startRead(c).listed = c.listed
  BY <1>3 DEF stopRead, startRead
<1>5. \A d \in ConnType : shutdownInLoop(d).listed = d.listed
  BY DEF shutdownInLoop, ConnType
<1>6. shutdown(c).listed = c.listed
  <2> DEFINE d == [c EXCEPT !.state = "Disconnecting"]
  <2>1. d \in ConnType /\ d.listed = c.listed
    BY <1>0 DEF ConnType
  <2>2. shutdown(c) = d \/ shutdown(c) = shutdownInLoop(d)
    BY DEF shutdown
  <2> HIDE DEF d
  <2> QED
    BY <1>5, <2>1, <2>2
<1>7. Close(c).listed => c.listed
  BY <1>0, <1>1 DEF Close
<1>8. \A d \in Conn : \A data \in Seq(Nat) : Keep(d, data).listed = d.listed
  <2> TAKE d \in Conn
  <2> TAKE data \in Seq(Nat)
  <2> DEFINE output == d.output \o data
             e == [d EXCEPT !.output = output]
             events == e.events \cup {"OUT"}
             f == [e EXCEPT !.events = events]
  <2>1. output \in Seq(Nat)
    BY ConcatProperties DEF Conn, ConnType
  <2> HIDE DEF output
  <2>2. e \in ConnType /\ e.listed = d.listed
    BY <2>1 DEF Conn, ConnType
  <2>3. Keep(d, data) = update(f)
    BY DEF Keep, enableWrite, output
  <2> HIDE DEF e
  <2>4. f \in ConnType /\ f.listed = e.listed
    BY <2>2 DEF ConnType
  <2> HIDE DEF f
  <2> QED
    BY <1>1, <2>2, <2>3, <2>4
<1>9. ASSUME NEW len \in Nat, NEW r \in sendInLoop(c, len)
      PROVE  r.conn.listed = c.listed
  <2> DEFINE data == Data(c, len)
             a    == Given(c, len)
  <2>1. /\ a \in Conn /\ a \in ConnType /\ a.listed = c.listed
        /\ \A taken \in Seq(Nat) : /\ [a EXCEPT !.wire = @ \o taken] \in Conn
                                   /\ [a EXCEPT !.wire = @ \o taken].listed = c.listed
    <3>1. /\ a \in Conn
          /\ \A taken \in Seq(Nat) : [a EXCEPT !.wire = @ \o taken] \in Conn
      BY GivenTyped
    <3>2. a.listed = c.listed
      BY <1>0 DEF Given, ConnType
    <3>3. a \in ConnType
      BY <3>1 DEF Conn
    <3> HIDE DEF a
    <3>4. \A taken \in Seq(Nat) : [a EXCEPT !.wire = @ \o taken].listed = a.listed
      BY <3>3 DEF ConnType
    <3> QED
      BY <3>1, <3>2, <3>3, <3>4
  <2>2. /\ data \in Seq(Nat)
        /\ \A n \in 0 .. len : SubSeq(data, 1, n) \in Seq(Nat) /\ SubSeq(data, n + 1, len) \in Seq(Nat)
    BY DataTyped, len \in 0 .. len
  <2>3. ASSUME NEW d \in Conn, NEW left \in Seq(Nat)
        PROVE  Remainder(d, left).conn.listed = d.listed
    <3>1. Remainder(d, left).conn \in {d, Keep(d, left)}
      BY DEF Remainder
    <3> QED
      BY <1>8, <3>1
  <2>4. \/ c.state = "Disconnected" /\ r = [conn |-> c, frames |-> <<>>]
        \/ isWriting(c) /\ r = Remainder(a, data)
        \/ r = [conn |-> Fail(a), frames |-> <<>>]
        \/ r = [conn |-> [a EXCEPT !.lost = TRUE], frames |-> <<>>]
        \/ r = [conn   |-> [a EXCEPT !.wire = @ \o data],
                frames |-> IF WriteCompleteSet THEN <<User>> ELSE <<>>]
        \/ \E n \in 0 .. len :
             r = Remainder([a EXCEPT !.wire = @ \o SubSeq(data, 1, n)], SubSeq(data, n + 1, len))
    <3>1. \/ c.state = "Disconnected" /\ r = [conn |-> c, frames |-> <<>>]
          \/ isWriting(c) /\ r = Remainder(a, data)
          \/ ~isWriting(c) /\ c.output # <<>> /\ r = [conn |-> Fail(a), frames |-> <<>>]
          \/ /\ ~isWriting(c)
             /\ \/ r = [conn |-> [a EXCEPT !.lost = TRUE], frames |-> <<>>]
                \/ r = [conn   |-> [a EXCEPT !.wire = @ \o data],
                        frames |-> IF WriteCompleteSet THEN <<User>> ELSE <<>>]
                \/ \E n \in 0 .. len :
                     /\ n # len
                     /\ r = Remainder([a EXCEPT !.wire = @ \o SubSeq(data, 1, n)],
                                      SubSeq(data, n + 1, len))
      BY SendCases
    <3> HIDE DEF data, a
    <3> QED
      BY <3>1
  <2> HIDE DEF data, a
  <2>5. [a EXCEPT !.lost = TRUE].listed = c.listed /\ Fail(a).listed = c.listed
    BY <1>1, <2>1 DEF ConnType
  <2>6. CASE isWriting(c) /\ r = Remainder(a, data)
    BY <2>1, <2>2, <2>3, <2>6
  <2>7. ASSUME NEW n \in 0 .. len,
               r = Remainder([a EXCEPT !.wire = @ \o SubSeq(data, 1, n)], SubSeq(data, n + 1, len))
        PROVE  r.conn.listed = c.listed
    <3> DEFINE d == [a EXCEPT !.wire = @ \o SubSeq(data, 1, n)]
               left == SubSeq(data, n + 1, len)
    <3>1. d \in Conn /\ d.listed = c.listed /\ left \in Seq(Nat)
      BY <2>1, <2>2
    <3>2. r = Remainder(d, left)
      BY <2>7
    <3> HIDE DEF d, left
    <3> QED
      BY <2>3, <3>1, <3>2
  <2>8. CASE r = [conn   |-> [a EXCEPT !.wire = @ \o data],
                  frames |-> IF WriteCompleteSet THEN <<User>> ELSE <<>>]
    BY <2>1, <2>2, <2>8
  <2>9. CASE \/ r = [conn |-> c, frames |-> <<>>] \/ r = [conn |-> Fail(a), frames |-> <<>>]
             \/ r = [conn |-> [a EXCEPT !.lost = TRUE], frames |-> <<>>]
    <3>1. r.conn \in {c, Fail(a), [a EXCEPT !.lost = TRUE]}
      BY <2>9
    <3> QED
      BY <2>5, <3>1
  <2> QED
    BY <2>4, <2>6, <2>7, <2>8, <2>9
<1>10. Fail(c).listed = c.listed /\ shutdownInLoop(c).listed = c.listed
  BY <1>0, <1>1, <1>5
<1> QED
  BY <1>3, <1>4, <1>6, <1>7, <1>8, <1>9, <1>10

\* The members keep the connection in order, and one that has left the set out
\* of it.
LEMMA KeepsMembers ==
  ASSUME NEW c \in Conn, c.listed => Fit(c)
  PROVE  /\ \A d \in {c, stopRead(c), startRead(c), shutdownInLoop(c), shutdown(c), Close(c)} :
              Keeps(c, d)
         /\ \A data \in Seq(Nat) : data # <<>> => Keeps(c, Keep(c, data))
         /\ \A len \in Nat : \A r \in sendInLoop(c, len) :
              Keeps(c, r.conn) /\ (c.listed => Following(r.frames))
<1>1. CASE c.listed
  <2>0. Fit(c)
    BY <1>1
  <2>1. \A d \in {c, stopRead(c), startRead(c), shutdownInLoop(c), shutdown(c)} : Keeps(c, d)
    BY <1>1, <2>0, FitMembers DEF Keeps
  <2>2. Keeps(c, Close(c))
    BY <2>0, FitMembers DEF Keeps
  <2>3. \A data \in Seq(Nat) : data # <<>> => Keeps(c, Keep(c, data))
    BY <1>1, <2>0, FitKeep DEF Keeps
  <2>4. ASSUME NEW len \in Nat, NEW r \in sendInLoop(c, len)
        PROVE  Keeps(c, r.conn) /\ Following(r.frames)
    <3>1. Fit(r.conn) /\ (isWriting(c) => isWriting(r.conn)) /\ Following(r.frames)
      BY <2>0, FitSend
    <3> QED
      BY <1>1, <3>1 DEF Keeps
  <2> QED
    BY <2>1, <2>2, <2>3, <2>4
<1>2. CASE ~c.listed
  BY <1>2, ListedMembers DEF Keeps
<1> QED
  BY <1>1, <1>2

\* A send that waits for its high-water-mark callback has bytes to keep.
Filled(s) == \A i \in 1 .. Len(s) : s[i].kind = "rest" => s[i].data # <<>>

\* Frames pushed and popped.
LEMMA FilledSteps ==
  ASSUME NEW s \in Seq(Frame), Filled(s)
  PROVE  /\ \A frames \in Seq(Frame) : Following(frames) => Filled(s \o frames)
         /\ s # <<>> => /\ Filled(SubSeq(s, 1, Len(s) - 1))
                        /\ s[Len(s)].kind = "rest" => s[Len(s)].data # <<>>
<1>0. Len(s) \in Nat /\ (s = <<>> <=> Len(s) = 0)
  BY EmptySeq, LenProperties
<1>1. ASSUME NEW frames \in Seq(Frame), Following(frames)
      PROVE  Filled(s \o frames)
  <2>1. /\ Len(s \o frames) = Len(s) + Len(frames) /\ Len(frames) \in Nat
        /\ \A i \in 1 .. Len(s) + Len(frames) :
              (s \o frames)[i] = IF i <= Len(s) THEN s[i] ELSE frames[i - Len(s)]
    BY <1>0, ConcatProperties, LenProperties
  <2>2. Filled(frames)
    <3>1. CASE frames = <<>>
      BY <3>1 DEF Filled
    <3>2. CASE frames = <<User>>
      <4>1. Len(frames) = 1 /\ frames[1].kind = "user"
        BY <3>2 DEF User
      <4> QED
        BY <4>1 DEF Filled
    <3>3. ASSUME NEW data \in Seq(Nat), data # <<>>, frames = <<Rest(data), High>>
          PROVE  Filled(frames)
      <4>1. Len(frames) = 2 /\ frames[1].data = data /\ frames[2].kind = "high"
        BY <3>3 DEF Rest, High
      <4> QED
        BY <3>3, <4>1 DEF Filled
    <3> QED
      BY <1>1, <3>1, <3>2, <3>3 DEF Following
  <2> DEFINE whole == s \o frames
  <2>3. \A i \in 1 .. Len(whole) :
          \/ i \in 1 .. Len(s) /\ whole[i] = s[i]
          \/ i - Len(s) \in 1 .. Len(frames) /\ whole[i] = frames[i - Len(s)]
    BY <1>0, <2>1
  <2> HIDE DEF whole
  <2>4. Filled(whole)
    BY <2>2, <2>3 DEF Filled
  <2> QED
    BY <2>4 DEF whole
<1>2. ASSUME s # <<>>
      PROVE  /\ Filled(SubSeq(s, 1, Len(s) - 1))
             /\ s[Len(s)].kind = "rest" => s[Len(s)].data # <<>>
  <2> DEFINE n == Len(s) - 1
             t == SubSeq(s, 1, n)
  <2>1. n \in Nat /\ \A i \in 1 .. n : s[i] \in Frame /\ i \in 1 .. Len(s)
    BY <1>0, <1>2
  <2>2. Len(s) \in 1 .. Len(s)
    BY <1>0, <1>2
  <2> HIDE DEF n
  <2>3. /\ Len(t) = IF 1 <= n THEN n - 1 + 1 ELSE 0
        /\ \A i \in 1 .. n - 1 + 1 : t[i] = s[1 + i - 1]
    BY <2>1, SubSeqProperties
  <2>4. Len(t) = n /\ \A i \in 1 .. n : i \in 1 .. n - 1 + 1 /\ 1 + i - 1 = i
    BY <2>1, <2>3
  <2>5. \A i \in 1 .. n : t[i] = s[i]
    BY <2>3, <2>4
  <2> HIDE DEF t
  <2>6. Filled(t)
    BY <2>1, <2>4, <2>5 DEF Filled
  <2> QED
    BY <2>2, <2>6 DEF Filled, n, t
<1> QED
  BY <1>1, <1>2

CoreInv ==
    /\ TypeInv
    /\ lpc = "accept" => Fresh
    /\ conn.listed => /\ Fit(conn) /\ Filled(stack)
                      /\ "OUT" \in revents => isWriting(conn)

\* Once the connection is handed out it stays so, and only the accept comes
\* before.
LEMMA HandedOut ==
  ASSUME CoreInv, Next
  PROVE  lpc' # "accept" /\ (OnConnection \/ lpc # "accept")
<1>1. ASSUME LoopStep \/ Call \/ Destroy \/ PeerCloses \/ PeerResets
      PROVE  lpc' # "accept" /\ (OnConnection \/ lpc # "accept")
  <2>1. OnConnection => lpc' = "poll"
    BY DEF OnConnection
  <2>2. Poll \/ SwapTasks \/ TasksDone => lpc # "accept" /\ lpc' # "accept"
    BY DEF Poll, SwapTasks, TasksDone, InLoop
  <2>3. RunTask \/ Handle => lpc # "accept" /\ lpc' = lpc
    BY DEF RunTask, Handle, HandleClose, HandleError, HandleRead, HandleWrite, Take, InLoop
  <2>4. Call \/ CallbackReturns \/ ResumeSend => lpc # "accept" /\ lpc' = lpc
    BY DEF Call, CallSend, CallShutdown, CallForceClose, CallStopRead, CallStartRead, InCallback,
       CallbackReturns, ResumeSend, CoreInv, Fresh
  <2>5. Destroy \/ PeerCloses \/ PeerResets => lpc # "accept" /\ lpc' = lpc
    BY DEF Destroy, PeerCloses, PeerResets, Referenced, loopVars
  <2> QED
    BY <1>1, <2>1, <2>2, <2>3, <2>4, <2>5 DEF LoopStep
<1>2. ASSUME NEW u \in Users,
             UserStep(u) \/ UserSend(u) \/ UserClose(u) \/ UserReading(u) \/ Drop(u)
      PROVE  lpc # "accept" /\ lpc' = lpc
  <2>1. held[u] \/ upc[u].at # "idle"
    BY <1>2 DEF UserStep, UserAssert, UserTest, UserSet, UserPush, UserSend, UserClose, UserReading,
       Drop, May
  <2>2. lpc # "accept"
    BY <2>1 DEF CoreInv, Fresh
  <2>3. lpc' = lpc
    BY <1>2 DEF UserStep, UserAssert, UserTest, UserSet, UserPush, UserSend, UserClose, UserReading,
       Drop, loopVars
  <2> QED
    BY <2>2, <2>3
<1> QED
  BY <1>1, <1>2 DEF Next

\* A step that leaves the connection in order and does not put it back into the
\* set: only the accept puts it there.
Orderly == CoreInv' /\ (conn'.listed => conn.listed \/ OnConnection)

\* A step that keeps the connection and pushes or pops the frames of sends that
\* have bytes to keep.
LEMMA CoreKept ==
  ASSUME CoreInv, TypeInv', lpc' # "accept", Keeps(conn, conn'), revents' \subseteq revents,
         conn'.listed => Filled(stack')
  PROVE  Orderly
BY DEF Orderly, CoreInv, Keeps

\* write(2) takes bytes of the output buffer of a connection that is up.
LEMMA WrittenFit ==
  ASSUME TypeInv, Fit(conn), isWriting(conn), NEW n \in 0 .. Len(conn.output), Written(n)
  PROVE  Fit(conn') /\ \E frames \in {<<>>, <<User>>} : stack' = <<>> \o frames
<1> DEFINE wire == conn.wire \o SubSeq(conn.output, 1, n)
           rest == SubSeq(conn.output, n + 1, Len(conn.output))
           c == [conn EXCEPT !.wire = wire, !.output = rest]
<1>0. conn \in Conn
  BY TypeParts
<1>1. c \in Conn
  BY <1>0, WrittenTyped
<1>2. IF c.output # <<>> THEN Become(c, <<>>, <<>>)
      ELSE Become(IF c.state = "Disconnecting" THEN shutdownInLoop(disableWrite(c))
                  ELSE disableWrite(c), <<>>, IF WriteCompleteSet THEN <<User>> ELSE <<>>)
  BY DEF Written
<1> HIDE DEF wire, rest
<1>3. /\ c.output = rest /\ Open(c) /\ c.listed /\ ~c.freed /\ c.failed = "no"
      /\ "PRI" \in c.events /\ "OUT" \in c.events
  BY <1>0 DEF Conn, ConnType, Fit, Open, isWriting
<1> HIDE DEF c
<1>4. CASE c.output # <<>>
  BY <1>2, <1>3, <1>4 DEF Become, Fit
<1>5. CASE c.output = <<>>
  <2>1. Fit(disableWrite(c)) /\ disableWrite(c) \in Conn
    BY <1>1, <1>3, <1>5, FitWriting, InterestTyped DEF Conn
  <2>2. Fit(shutdownInLoop(disableWrite(c)))
    BY <2>1, FitMembers
  <2> QED
    BY <1>2, <1>5, <2>1, <2>2 DEF Become
<1> QED
  BY <1>4, <1>5

\* It takes them of one that has left the set as well, and leaves it out.
LEMMA WrittenListed ==
  ASSUME TypeInv, NEW n \in 0 .. Len(conn.output), Written(n)
  PROVE  conn'.listed = conn.listed
<1> DEFINE wire == conn.wire \o SubSeq(conn.output, 1, n)
           rest == SubSeq(conn.output, n + 1, Len(conn.output))
           c == [conn EXCEPT !.wire = wire, !.output = rest]
<1>0. conn \in Conn
  BY TypeParts
<1>1. c \in Conn
  BY <1>0, WrittenTyped
<1>2. conn' \in {c, disableWrite(c), shutdownInLoop(disableWrite(c))}
  BY DEF Written, Become
<1> HIDE DEF wire, rest
<1>3. c.listed = conn.listed
  BY <1>0 DEF Conn, ConnType
<1> HIDE DEF c
<1>4. disableWrite(c) \in Conn /\ disableWrite(c).listed = c.listed
  BY <1>1, InterestTyped, ListedMembers DEF Conn
<1>5. shutdownInLoop(disableWrite(c)).listed = disableWrite(c).listed
  BY <1>4, ListedMembers
<1> QED
  BY <1>2, <1>3, <1>4, <1>5

\* The handlers and the tasks.
LEMMA LoopCore ==
  ASSUME CoreInv, TypeInv', lpc' # "accept",
         OnConnection \/ Poll \/ Handle \/ SwapTasks \/ RunTask \/ TasksDone
  PROVE  Orderly
<1>0. /\ TypeInv /\ conn \in Conn /\ stack \in Seq(Frame) /\ batch \in Seq(Tasks)
      /\ (conn.listed => Fit(conn)) /\ (conn.listed => Filled(stack))
      /\ (conn.listed /\ "OUT" \in revents => isWriting(conn))
  BY TypeParts DEF CoreInv
<1>1. Keeps(conn, conn) /\ Keeps(conn, Close(conn))
  BY <1>0, KeepsMembers
<1>2. Filled(<<>>) /\ \A frames \in Seq(Frame) : Following(frames) => Filled(<<>> \o frames)
  <2>1. <<>> \in Seq(Frame) /\ Filled(<<>>)
    BY EmptySeq DEF Filled
  <2> QED
    BY <2>1, FilledSteps
<1>3. Following(<<>>) /\ Following(<<User>>) /\ <<>> \in Seq(Frame) /\ <<User>> \in Seq(Frame)
  BY FramesTyped, EmptySeq DEF Following
<1>4. Filled(<<>> \o <<>>) /\ Filled(<<>> \o <<User>>)
  BY <1>2, <1>3
<1>5. ASSUME conn.state = "Disconnected" PROVE Keeps(conn, Fail(conn))
  <2>1. ~conn.listed
    BY <1>0, <1>5 DEF Fit, Open
  <2> QED
    BY <1>0, <2>1, ListedMembers DEF Keeps
<1>6. CASE OnConnection
  <2> DEFINE c == enableRead([conn EXCEPT !.listed = TRUE, !.state = "Connected"])
  <2>1. Fresh /\ conn' = c /\ stack' = <<>> \o <<User>> /\ revents' = revents
    BY <1>6 DEF CoreInv, OnConnection, InLoop, Become
  <2>2. Fit(c)
    BY <1>0, <2>1, FitAccepted
  <2> HIDE DEF c
  <2>3. "OUT" \notin revents'
    BY <2>1 DEF Fresh
  <2> QED
    BY <1>4, <1>6, <2>1, <2>2, <2>3 DEF Orderly, CoreInv
<1>7. CASE Poll
  <2>1. UNCHANGED <<conn, stack>>
    BY <1>7 DEF Poll
  <2>2. "OUT" \in revents' => isWriting(conn)
    BY <1>7 DEF Poll, Must, Can, isWriting
  <2> QED
    BY <1>0, <2>1, <2>2 DEF Orderly, CoreInv, isWriting
<1>8. CASE HandleClose
  <2>1. conn' = Close(conn) /\ stack' = <<>> \o <<User>> /\ revents' \subseteq revents
    BY <1>8 DEF HandleClose, Take, Become
  <2> QED
    BY <1>1, <1>4, <2>1, CoreKept
<1>9. CASE HandleError
  <2>1. UNCHANGED <<conn, stack>> /\ revents' \subseteq revents
    BY <1>9 DEF HandleError, Take
  <2> QED
    BY <1>0, <1>1, <2>1, CoreKept
<1>10. CASE HandleRead
  <2>1. stack = <<>> /\ revents' \subseteq revents
    BY <1>10 DEF HandleRead, Take, InLoop
  <2>2. \/ conn.state = "Disconnected" /\ conn' = Fail(conn) /\ stack' = <<>> \o <<>>
        \/ conn' = conn /\ (stack' = stack \/ stack' = <<>> \o <<User>>)
        \/ conn' = Close(conn) /\ stack' = <<>> \o <<User>>
    BY <1>10 DEF HandleRead, Become
  <2> QED
    BY <1>1, <1>2, <1>4, <1>5, <2>1, <2>2, CoreKept
<1>11. CASE HandleWrite
  <2>1. stack = <<>> /\ "OUT" \in revents /\ revents' = revents \ {"OUT"}
    BY <1>11 DEF HandleWrite, Take, InLoop
  <2>2. \/ UNCHANGED <<conn, stack>>
        \/ /\ conn.output = <<>> \/ ~isWriting(conn)
           /\ conn' = Fail(conn) /\ stack' = <<>> \o <<>>
        \/ /\ isWriting(conn)
           /\ \E n \in 0 .. Len(conn.output) : Written(n)
    BY <1>11 DEF HandleWrite, Become
  <2>3. conn.listed => isWriting(conn) /\ conn.output # <<>>
    BY <1>0, <2>1 DEF Fit, isWriting
  <2>4. CASE UNCHANGED <<conn, stack>>
    BY <1>0, <1>1, <2>1, <2>4, CoreKept
  <2>5. CASE (conn.output = <<>> \/ ~isWriting(conn)) /\ conn' = Fail(conn)
    <3>1. ~conn'.listed
      BY <1>0, <2>3, <2>5, ListedMembers
    <3> QED
      BY <2>1, <3>1, CoreKept DEF Keeps
  <2>6. ASSUME isWriting(conn), NEW n \in 0 .. Len(conn.output), Written(n)
        PROVE  Orderly
    <3>1. CASE conn.listed
      <4>1. Fit(conn') /\ \E frames \in {<<>>, <<User>>} : stack' = <<>> \o frames
        BY <1>0, <2>6, <3>1, WrittenFit
      <4> QED
        BY <1>4, <2>1, <3>1, <4>1 DEF Orderly, CoreInv
    <3>2. CASE ~conn.listed
      <4>1. ~conn'.listed
        BY <1>0, <2>6, <3>2, WrittenListed
      <4> QED
        BY <4>1 DEF Orderly, CoreInv
    <3> QED
      BY <3>1, <3>2
  <2> QED
    BY <2>2, <2>4, <2>5, <2>6
<1>12. CASE RunTask
  <2>1. stack = <<>> /\ batch # <<>> /\ revents' = revents
    BY <1>12 DEF RunTask, InLoop
  <2>2. Head(batch) \in Tasks
    BY <1>0, <2>1, HeadTailProperties, EmptySeq
  <2>3. Head(batch).len \in Nat
    BY <2>2, BoundAssumption DEF Tasks
  <2>4. \/ conn.freed /\ conn' = [conn EXCEPT !.failed = "freed"]
        \/ /\ conn' \in {stopRead(conn), startRead(conn), shutdownInLoop(conn)}
           /\ stack' = <<>> \o <<>>
        \/ UNCHANGED <<conn, stack>>
        \/ conn' = Close(conn) /\ stack' = <<>> \o <<User>>
        \/ \E r \in sendInLoop(conn, Head(batch).len) : conn' = r.conn /\ stack' = <<>> \o r.frames
    BY <1>12 DEF RunTask, Become
  <2>5. CASE conn.freed /\ conn' = [conn EXCEPT !.failed = "freed"]
    <3>1. ~conn'.listed
      BY <1>0, <2>5 DEF Fit, Conn, ConnType
    <3> QED
      BY <2>1, <3>1, CoreKept DEF Keeps
  <2>6. CASE /\ conn' \in {stopRead(conn), startRead(conn), shutdownInLoop(conn)}
             /\ stack' = <<>> \o <<>>
    <3>1. Keeps(conn, conn')
      BY <1>0, <2>6, KeepsMembers
    <3> QED
      BY <1>4, <2>1, <2>6, <3>1, CoreKept
  <2>7. CASE UNCHANGED <<conn, stack>> \/ (conn' = Close(conn) /\ stack' = <<>> \o <<User>>)
    BY <1>0, <1>1, <1>4, <2>1, <2>7, CoreKept
  <2>8. ASSUME NEW r \in sendInLoop(conn, Head(batch).len), conn' = r.conn, stack' = <<>> \o r.frames
        PROVE  Orderly
    <3>1. Keeps(conn, r.conn) /\ (conn.listed => Following(r.frames))
      BY <1>0, <2>3, KeepsMembers
    <3>2. r.frames \in Seq(Frame)
      BY <1>0, <2>3, SendTyped DEF Results
    <3>3. conn'.listed => Filled(stack')
      BY <1>2, <2>8, <3>1, <3>2 DEF Keeps
    <3> QED
      BY <2>1, <2>8, <3>1, <3>3, CoreKept
  <2> QED
    BY <2>4, <2>5, <2>6, <2>7, <2>8
<1>13. CASE SwapTasks \/ TasksDone
  <2>1. UNCHANGED <<conn, stack, revents>>
    BY <1>13 DEF SwapTasks, TasksDone
  <2> QED
    BY <1>0, <1>1, <2>1, CoreKept
<1> QED
  BY <1>6, <1>7, <1>8, <1>9, <1>10, <1>11, <1>12, <1>13 DEF Handle

\* The calls of callbacks.
LEMMA CallbackCore ==
  ASSUME CoreInv, TypeInv', lpc' # "accept", Call \/ CallbackReturns \/ ResumeSend
  PROVE  Orderly
<1>0. /\ TypeInv /\ conn \in Conn /\ stack \in Seq(Frame) /\ stack # <<>>
      /\ (conn.listed => Fit(conn)) /\ (conn.listed => Filled(stack)) /\ revents' = revents
  <2>1. stack # <<>> /\ revents' = revents
    BY DEF Call, CallSend, CallShutdown, CallForceClose, CallStopRead, CallStartRead, InCallback,
       CallbackReturns, ResumeSend
  <2> QED
    BY <2>1, TypeParts DEF CoreInv
<1>1. /\ \A d \in {conn, stopRead(conn), startRead(conn), shutdown(conn), Close(conn)} : Keeps(conn, d)
  BY <1>0, KeepsMembers
<1>2. /\ Following(<<>>) /\ Following(<<User>>) /\ <<>> \in Seq(Frame) /\ <<User>> \in Seq(Frame)
      /\ \A frames \in Seq(Frame) : conn.listed /\ Following(frames) => Filled(stack \o frames)
  <2>1. conn.listed => \A frames \in Seq(Frame) : Following(frames) => Filled(stack \o frames)
    BY <1>0, FilledSteps
  <2> QED
    BY <2>1, FramesTyped, EmptySeq DEF Following
<1>3. CASE CallSend
  <2>1. PICK len \in 1 .. MaxLen : \E r \in sendInLoop(conn, len) : Become(r.conn, stack, r.frames)
    BY <1>3 DEF CallSend
  <2>2. PICK r \in sendInLoop(conn, len) : Become(r.conn, stack, r.frames)
    BY <2>1
  <2>3. len \in Nat
    BY BoundAssumption
  <2>4. Keeps(conn, r.conn) /\ (conn.listed => Following(r.frames))
    BY <1>0, <2>3, KeepsMembers
  <2>5. r.frames \in Seq(Frame)
    BY <1>0, <2>3, SendTyped DEF Results
  <2>6. conn' = r.conn /\ stack' = stack \o r.frames
    BY <2>2 DEF Become
  <2>7. conn'.listed => Filled(stack')
    BY <1>2, <2>4, <2>5, <2>6 DEF Keeps
  <2> QED
    BY <1>0, <2>4, <2>6, <2>7, CoreKept
<1>4. CASE CallShutdown \/ CallForceClose \/ CallStopRead \/ CallStartRead
  <2>1. /\ conn' \in {conn, stopRead(conn), startRead(conn), shutdown(conn), Close(conn)}
        /\ stack' = stack \/ stack' = stack \o <<>> \/ stack' = stack \o <<User>>
    BY <1>4 DEF CallShutdown, CallForceClose, CallStopRead, CallStartRead, Become
  <2>2. Keeps(conn, conn')
    BY <1>1, <2>1
  <2>3. conn'.listed => Filled(stack')
    BY <1>0, <1>2, <2>1, <2>2 DEF Keeps
  <2> QED
    BY <1>0, <2>2, <2>3, CoreKept
<1>5. CASE CallbackReturns \/ ResumeSend
  <2>1. Top.data \in Seq(Nat) /\ Below \in Seq(Frame)
    BY <1>0, StackTyped
  <2>2. /\ conn' = conn \/ (conn' = Keep(conn, Top.data) /\ Top.kind = "rest")
        /\ stack' = Below \o <<>>
    BY <1>5 DEF CallbackReturns, ResumeSend, Become
  <2>3. stack' = Below
    BY <2>1, <2>2, ConcatEmptySeq
  <2>4. conn.listed => Filled(Below) /\ (Top.kind = "rest" => Top.data # <<>>)
    BY <1>0, FilledSteps DEF Below, Top
  <2>5. Keeps(conn, conn')
    <3>1. CASE conn' = conn
      BY <1>1, <3>1
    <3>2. CASE conn' = Keep(conn, Top.data) /\ Top.kind = "rest"
      <4>1. CASE conn.listed
        BY <1>0, <2>1, <2>4, <3>2, <4>1, KeepsMembers
      <4>2. CASE ~conn.listed
        <5>1. ~conn'.listed
          BY <1>0, <2>1, <3>2, <4>2, ListedMembers
        <5> QED
          BY <5>1 DEF Keeps
      <4> QED
        BY <4>1, <4>2
    <3> QED
      BY <2>2, <3>1, <3>2
  <2>6. conn'.listed => Filled(stack')
    BY <2>3, <2>4, <2>5 DEF Keeps
  <2> QED
    BY <1>0, <2>5, <2>6, CoreKept
<1> QED
  BY <1>3, <1>4, <1>5 DEF Call

\* The destructor, the peer and the other threads.
LEMMA OthersCore ==
  ASSUME CoreInv, TypeInv', lpc' # "accept",
         \/ Destroy \/ PeerCloses \/ PeerResets
         \/ \E u \in Users : UserStep(u) \/ UserSend(u) \/ UserClose(u) \/ UserReading(u) \/ Drop(u)
  PROVE  Orderly
<1>0. /\ conn \in Conn /\ (conn.listed => Fit(conn)) /\ (conn.listed => Filled(stack))
      /\ UNCHANGED <<stack, revents>>
  <2>1. UNCHANGED <<stack, revents>>
    BY DEF Destroy, PeerCloses, PeerResets, UserStep, UserAssert, UserTest, UserSet, UserPush,
       UserSend, UserClose, UserReading, Drop, loopVars
  <2> QED
    BY <2>1, TypeParts DEF CoreInv
<1>1. ASSUME Keeps(conn, conn') PROVE Orderly
  <2>1. conn'.listed => Filled(stack')
    BY <1>0, <1>1 DEF Keeps
  <2> QED
    BY <1>0, <1>1, <2>1, CoreKept
<1>2. Keeps(conn, conn)
  BY <1>0, KeepsMembers
<1>3. CASE Destroy
  <2>1. ~conn.listed
    BY <1>3 DEF Destroy, Referenced
  <2>2. conn' \in {[Fail(conn) EXCEPT !.freed = TRUE], [conn EXCEPT !.freed = TRUE]}
    BY <1>3 DEF Destroy
  <2>3. Fail(conn) \in Conn /\ ~Fail(conn).listed
    BY <1>0, <2>1, MembersTyped, ListedMembers
  <2>4. \A d \in Conn : [d EXCEPT !.freed = TRUE].listed = d.listed
    BY DEF Conn, ConnType
  <2> QED
    BY <1>0, <1>1, <2>1, <2>2, <2>3, <2>4 DEF Keeps
<1>4. CASE PeerCloses \/ PeerResets
  BY <1>1, <1>2, <1>4 DEF PeerCloses, PeerResets
<1>5. ASSUME NEW u \in Users,
             UserStep(u) \/ UserSend(u) \/ UserClose(u) \/ UserReading(u) \/ Drop(u)
      PROVE  Orderly
  <2>1. \/ conn' = conn
        \/ conn.state = "Disconnected" /\ conn' = Fail(conn)
        \/ conn' = [conn EXCEPT !.state = "Disconnecting"]
    BY <1>5 DEF UserStep, UserAssert, UserTest, UserSet, UserPush, UserSend, UserClose,
       UserReading, Drop
  <2>2. CASE conn.state = "Disconnected" /\ conn' = Fail(conn)
    <3>1. ~conn'.listed
      BY <1>0, <2>2, ListedMembers DEF Fit, Open
    <3> QED
      BY <1>1, <3>1 DEF Keeps
  <2>3. CASE conn' = [conn EXCEPT !.state = "Disconnecting"]
    <3>1. Keeps(conn, conn')
      BY <1>0, <2>3 DEF Keeps, Fit, Open, Conn, ConnType, isWriting
    <3> QED
      BY <1>1, <3>1
  <2> QED
    BY <1>1, <1>2, <2>1, <2>2, <2>3
<1> QED
  BY <1>3, <1>4, <1>5

\* One step keeps the connection in order, and out of the set if it was out.
LEMMA StepOrderly ==
  ASSUME CoreInv, Next
  PROVE  TypeInv' /\ Orderly
<1>1. TypeInv
  BY DEF CoreInv
<1>2. TypeInv'
  BY <1>1, LoopTyped, CallbackTyped, OthersTyped DEF Next, LoopStep
<1>3. lpc' # "accept"
  BY HandedOut
<1> QED
  BY <1>2, <1>3, LoopCore, CallbackCore, OthersCore DEF Next, LoopStep

\* A connection in the server's set is in order in every state.
LEMMA CoreInvariant == Spec => []CoreInv
<1>1. Init /\ TypeInv => CoreInv
  BY DEF Init, CoreInv, Fresh, Idle
<1>2. CoreInv /\ [Next]_vars => CoreInv'
  <2>1. ASSUME CoreInv, UNCHANGED vars PROVE CoreInv'
    BY <2>1 DEF CoreInv, Fresh, TypeInv, TypeOK, isWriting, vars, loopVars, userVars, history
  <2> QED
    BY <2>1, StepOrderly DEF Orderly
<1> QED
  BY <1>1, <1>2, TypeInvariant, PTL DEF Spec

\* No assert fails, and no task finds the connection freed, before it has left
\* the server's set: for every number of threads and every mix of their calls,
\* those of the callbacks and what the peer does.
THEOREM ListedAsserts == Spec => []AssertsOnlyLate
<1>1. CoreInv => AssertsOnlyLate
  BY DEF CoreInv, AssertsOnlyLate, Fresh, Fit
<1> QED
  BY <1>1, CoreInvariant, PTL

\* A connection in the server's set waits for EPOLLOUT exactly when it has bytes
\* to write, whoever calls what.
THEOREM ListedWriting == Spec => []WritingIffOutput
<1>1. CoreInv => WritingIffOutput
  BY DEF CoreInv, WritingIffOutput, Fit, isWriting
<1> QED
  BY <1>1, CoreInvariant, PTL

(***************************************************************************)
(* The stream of a connection in the server's set, when the high-water-    *)
(* mark callback is set (without one, what write(2) did not take is        *)
(* dropped) and does not send itself (its bytes would overtake those of    *)
(* the send it interrupts).                                                *)
(***************************************************************************)
Mild == HighWaterSet /\ "send" \notin HighMay

\* A send that waits for its high-water-mark callback is on top of the stack,
\* or directly under that callback.
Lone(s) == \A i \in 1 .. Len(s) :
    s[i].kind = "rest" =>
        /\ s[i].data # <<>>
        /\ i = Len(s) \/ (i = Len(s) - 1 /\ s[Len(s)].kind = "high")
Waits(s) == \E i \in 1 .. Len(s) : s[i].kind = "rest"

\* Frames pushed by a callback or by the loop, and frames popped.
LEMMA StackSteps ==
  ASSUME NEW s \in Seq(Frame), Lone(s)
  PROVE  /\ s = <<>> \/ s[Len(s)].kind = "user" =>
              /\ ~Waits(s)
              /\ \A frames \in Seq(Frame) : Following(frames) => Lone(s \o frames)
         /\ s # <<>> => LET t == SubSeq(s, 1, Len(s) - 1)
                        IN  Lone(t) /\ (Waits(t) => Waits(s))
<1>0. Len(s) \in Nat /\ (s = <<>> <=> Len(s) = 0)
  BY EmptySeq, LenProperties
<1>1. ASSUME s = <<>> \/ s[Len(s)].kind = "user"
      PROVE  /\ ~Waits(s)
             /\ \A frames \in Seq(Frame) : Following(frames) => Lone(s \o frames)
  <2>1. ~Waits(s)
    BY <1>0, <1>1 DEF Waits, Lone
  <2>2. ASSUME NEW frames \in Seq(Frame), Following(frames)
        PROVE  Lone(s \o frames)
    <3>1. /\ Len(s \o frames) = Len(s) + Len(frames)
          /\ \A i \in 1 .. Len(s) : (s \o frames)[i] = s[i]
          /\ \A i \in Len(s) + 1 .. Len(s) + Len(frames) : (s \o frames)[i] = frames[i - Len(s)]
      BY <1>0, ConcatProperties
    <3>2. CASE frames = <<>>
      BY <3>2, ConcatEmptySeq
    <3>3. CASE frames = <<User>>
      <4>1. Len(frames) = 1 /\ frames[1].kind = "user"
        BY <3>3 DEF User
      <4> QED
        BY <1>0, <2>1, <3>1, <4>1 DEF Lone, Waits
    <3>4. ASSUME NEW data \in Seq(Nat), data # <<>>, frames = <<Rest(data), High>>
          PROVE  Lone(s \o frames)
      <4>1. /\ Len(frames) = 2 /\ frames[1].kind = "rest" /\ frames[1].data = data
            /\ frames[2].kind = "high"
        BY <3>4 DEF Rest, High
      <4>2. /\ (s \o frames)[Len(s) + 1] = frames[1]
            /\ (s \o frames)[Len(s) + 2] = frames[2]
            /\ Len(s \o frames) = Len(s) + 2
        BY <1>0, <3>1, <4>1
      <4> DEFINE whole == s \o frames
      <4>3. \A i \in 1 .. Len(s) : whole[i].kind # "rest"
        BY <2>1, <3>1 DEF Waits
      <4> HIDE DEF whole
      <4>4. \A i \in 1 .. Len(whole) : i \in 1 .. Len(s) \/ i = Len(s) + 1 \/ i = Len(s) + 2
        BY <1>0, <4>2 DEF whole
      <4>5. /\ Len(s) + 1 = Len(whole) - 1 /\ whole[Len(whole)].kind = "high"
            /\ whole[Len(s) + 1].data # <<>> /\ whole[Len(s) + 2].kind = "high"
        BY <1>0, <3>4, <4>1, <4>2 DEF whole
      <4>6. Lone(whole)
        BY <4>3, <4>4, <4>5 DEF Lone
      <4> QED
        BY <4>6 DEF whole
    <3> QED
      BY <2>2, <3>2, <3>3, <3>4 DEF Following
  <2> QED
    BY <2>1, <2>2
<1>2. ASSUME s # <<>>
      PROVE  LET t == SubSeq(s, 1, Len(s) - 1)
             IN  Lone(t) /\ (Waits(t) => Waits(s))
  <2> DEFINE t == SubSeq(s, 1, Len(s) - 1)
  <2>1. Len(t) = Len(s) - 1 /\ \A i \in 1 .. Len(t) : t[i] = s[i]
    <3> DEFINE n == Len(s) - 1
    <3>1. n \in Nat /\ \A i \in 1 .. n : s[i] \in Frame
      BY <1>0, <1>2
    <3> HIDE DEF n
    <3>2. /\ Len(SubSeq(s, 1, n)) = IF 1 <= n THEN n - 1 + 1 ELSE 0
          /\ \A i \in 1 .. n - 1 + 1 : SubSeq(s, 1, n)[i] = s[1 + i - 1]
      BY <3>1, SubSeqProperties
    <3>3. Len(SubSeq(s, 1, n)) = n
      BY <3>1, <3>2
    <3>4. \A i \in 1 .. n : i \in 1 .. n - 1 + 1 /\ 1 + i - 1 = i
      BY <3>1
    <3>5. \A i \in 1 .. n : SubSeq(s, 1, n)[i] = s[i]
      BY <3>2, <3>4
    <3> QED
      BY <3>3, <3>5 DEF n
  <2> QED
    BY <1>0, <2>1 DEF Lone, Waits
<1> QED
  BY <1>1, <1>2

Numbers(n) == [i \in 1 .. n |-> i]

\* The bytes of the send that waits on a stack.
Pending(s) ==
    LET rests == {i \in 1 .. Len(s) : s[i].kind = "rest"}
    IN IF rests = {} THEN <<>> ELSE s[CHOOSE i \in rests : TRUE].data

\* At most one send waits, so its frame says which bytes are pending.
LEMMA PendingIs ==
  ASSUME NEW s \in Seq(Frame), Lone(s)
  PROVE  /\ ~Waits(s) => Pending(s) = <<>>
         /\ \A i \in 1 .. Len(s) : s[i].kind = "rest" => Pending(s) = s[i].data
         /\ Pending(s) \in Seq(Nat)
<1> DEFINE rests == {i \in 1 .. Len(s) : s[i].kind = "rest"}
<1>0. Len(s) \in Nat /\ \A i \in 1 .. Len(s) : s[i] \in Frame
  BY LenProperties
<1>1. Pending(s) = IF rests = {} THEN <<>> ELSE s[CHOOSE i \in rests : TRUE].data
  BY DEF Pending
<1>2. ~Waits(s) => rests = {}
  BY DEF Waits
<1>3. \A i, j \in rests : i = j
  BY <1>0 DEF Lone
<1>4. \A i \in rests : (CHOOSE j \in rests : TRUE) = i
  BY <1>3
<1>5. \A i \in rests : Pending(s) = s[i].data /\ s[i].data \in Seq(Nat)
  <2> TAKE i \in rests
  <2>1. (CHOOSE j \in rests : TRUE) = i
    BY <1>4
  <2>2. Pending(s) = s[i].data
    BY <1>1, <2>1
  <2>3. s[i] \in Frame
    BY <1>0
  <2> QED
    BY <2>2, <2>3 DEF Frame
<1>6. rests = {} => Pending(s) = <<>> /\ <<>> \in Seq(Nat)
  BY <1>1, EmptySeq
<1> QED
  BY <1>2, <1>5, <1>6

\* What a step does to the pending bytes.
LEMMA PendingSteps ==
  ASSUME NEW s \in Seq(Frame), Lone(s)
  PROVE  /\ s = <<>> \/ s[Len(s)].kind = "user" =>
              /\ Pending(s) = <<>>
              /\ Pending(s \o <<>>) = <<>> /\ Pending(s \o <<User>>) = <<>>
              /\ \A data \in Seq(Nat) :
                    data # <<>> => Pending(s \o <<Rest(data), High>>) = data
         /\ s # <<>> =>
              LET t == SubSeq(s, 1, Len(s) - 1)
              IN  /\ s[Len(s)].kind # "rest" => Pending(t) = Pending(s)
                  /\ s[Len(s)].kind = "rest" => Pending(t) = <<>> /\ Pending(s) = s[Len(s)].data
<1>0. Len(s) \in Nat /\ (s = <<>> <=> Len(s) = 0)
  BY EmptySeq, LenProperties
<1>1. ASSUME s = <<>> \/ s[Len(s)].kind = "user"
      PROVE  /\ Pending(s) = <<>>
             /\ Pending(s \o <<>>) = <<>> /\ Pending(s \o <<User>>) = <<>>
             /\ \A data \in Seq(Nat) :
                   data # <<>> => Pending(s \o <<Rest(data), High>>) = data
  <2>1. ~Waits(s)
    BY <1>1, StackSteps
  <2>2. Pending(s) = <<>> /\ s \o <<>> = s
    BY <2>1, PendingIs, ConcatEmptySeq
  <2>3. Pending(s \o <<User>>) = <<>>
    <3> DEFINE t == s \o <<User>>
    <3>1. <<User>> \in Seq(Frame) /\ Following(<<User>>)
      BY FramesTyped, EmptySeq DEF Following
    <3>2. Lone(t) /\ t \in Seq(Frame)
      BY <1>1, <3>1, StackSteps, ConcatProperties
    <3>3. /\ Len(t) = Len(s) + 1 /\ \A i \in 1 .. Len(s) : t[i] = s[i]
          /\ t[Len(s) + 1] = User
      BY <1>0, <3>1, ConcatProperties
    <3>4. ~Waits(t)
      BY <1>0, <2>1, <3>3 DEF Waits, User
    <3> QED
      BY <3>2, <3>4, PendingIs
  <2>4. ASSUME NEW data \in Seq(Nat), data # <<>>
        PROVE  Pending(s \o <<Rest(data), High>>) = data
    <3> DEFINE frames == <<Rest(data), High>>
               t == s \o frames
    <3>1. frames \in Seq(Frame) /\ Following(frames)
      BY <2>4, FramesTyped DEF Following
    <3>2. Lone(t) /\ t \in Seq(Frame)
      BY <1>1, <3>1, StackSteps, ConcatProperties
    <3>3. Len(frames) = 2 /\ frames[1] = Rest(data)
      OBVIOUS
    <3>4. Len(t) = Len(s) + 2 /\ t[Len(s) + 1] = Rest(data)
      BY <1>0, <3>1, <3>3, ConcatProperties
    <3> HIDE DEF t
    <3>5. Pending(t) = t[Len(s) + 1].data
      <4>1. Len(s) + 1 \in 1 .. Len(t) /\ t[Len(s) + 1].kind = "rest"
        BY <1>0, <3>4 DEF Rest
      <4> QED
        BY <3>2, <4>1, PendingIs
    <3> QED
      BY <3>4, <3>5 DEF t, Rest
  <2> QED
    BY <2>2, <2>3, <2>4
<1>2. ASSUME s # <<>>
      PROVE  LET t == SubSeq(s, 1, Len(s) - 1)
             IN  /\ s[Len(s)].kind # "rest" => Pending(t) = Pending(s)
                 /\ s[Len(s)].kind = "rest" => Pending(t) = <<>> /\ Pending(s) = s[Len(s)].data
  <2> DEFINE n == Len(s) - 1
             t == SubSeq(s, 1, n)
  <2>1. Lone(t)
    BY <1>2, StackSteps
  <2>2. n \in Nat /\ Len(s) = n + 1 /\ \A i \in 1 .. n : s[i] \in Frame
    BY <1>0, <1>2
  <2> HIDE DEF n
  <2>3. t \in Seq(Frame) /\ Len(t) = n /\ \A i \in 1 .. n : t[i] = s[i]
    <3>1. /\ t \in Seq(Frame) /\ Len(t) = IF 1 <= n THEN n - 1 + 1 ELSE 0
          /\ \A i \in 1 .. n - 1 + 1 : t[i] = s[1 + i - 1]
      BY <2>2, SubSeqProperties
    <3> HIDE DEF t
    <3>2. Len(t) = n
      BY <2>2, <3>1
    <3>3. \A i \in 1 .. n : i \in 1 .. n - 1 + 1 /\ 1 + i - 1 = i
      BY <2>2
    <3> QED
      BY <3>1, <3>2, <3>3
  <2> HIDE DEF t
  <2>4. ASSUME s[Len(s)].kind # "rest" PROVE Pending(t) = Pending(s)
    <3>1. CASE Waits(s)
      <4>1. PICK i \in 1 .. Len(s) : s[i].kind = "rest"
        BY <3>1 DEF Waits
      <4>2. i \in 1 .. n
        BY <2>2, <2>4, <4>1
      <4> QED
        BY <2>1, <2>3, <4>1, <4>2, PendingIs
    <3>2. CASE ~Waits(s)
      <4>1. ~Waits(t)
        BY <2>2, <2>3, <3>2 DEF Waits
      <4> QED
        BY <2>1, <2>3, <3>2, <4>1, PendingIs
    <3> QED
      BY <3>1, <3>2
  <2>5. ASSUME s[Len(s)].kind = "rest"
        PROVE  Pending(t) = <<>> /\ Pending(s) = s[Len(s)].data
    <3>1. Pending(s) = s[Len(s)].data
      BY <2>2, <2>5, PendingIs
    <3>2. ~Waits(t)
      BY <2>2, <2>3, <2>5 DEF Lone, Waits
    <3> QED
      BY <2>1, <2>3, <3>1, <3>2, PendingIs
  <2> QED
    BY <2>4, <2>5 DEF n, t
<1> QED
  BY <1>1, <1>2

\* Concatenation of bytes is associative.
LEMMA Assoc ==
  ASSUME NEW s \in Seq(Nat), NEW t \in Seq(Nat), NEW u \in Seq(Nat)
  PROVE  (s \o t) \o u = s \o (t \o u)
BY ConcatAssociative

\* Bytes, split where write(2) stopped.
LEMMA Split ==
  ASSUME NEW data \in Seq(Nat), NEW n \in 0 .. Len(data)
  PROVE  /\ SubSeq(data, 1, n) \in Seq(Nat)
         /\ SubSeq(data, n + 1, Len(data)) \in Seq(Nat)
         /\ SubSeq(data, 1, n) \o SubSeq(data, n + 1, Len(data)) = data
<1> DEFINE l == Len(data)
           one == 1
<1>1. l \in Nat /\ n \in Nat /\ n <= l /\ \A i \in 1 .. l : data[i] \in Nat
  BY LenProperties
<1>2. 1 \in Int /\ n \in Int /\ \A i \in 1 .. n : data[i] \in Nat
  BY <1>1
<1>3. SubSeq(data, 1, n) \in Seq(Nat)
  BY <1>2, SubSeqProperties
<1>4. n + 1 \in Int /\ l \in Int /\ \A i \in n + 1 .. l : data[i] \in Nat
  BY <1>1
<1>5. SubSeq(data, n + 1, l) \in Seq(Nat)
  BY <1>4, SubSeqProperties
<1>6. one \in 1 .. l + 1 /\ n \in one - 1 .. l /\ l \in n .. l
  BY <1>1
<1> HIDE DEF one
<1>7. SubSeq(data, one, n) \o SubSeq(data, n + 1, l) = SubSeq(data, one, l)
  BY <1>6, ConcatAdjacentSubSeq
<1>8. SubSeq(data, 1, l) = data
  BY SubSeqFull
<1> QED
  BY <1>3, <1>5, <1>7, <1>8 DEF one

\* The next bytes, behind all that came before.
LEMMA NextNumbers ==
  ASSUME NEW c \in Conn, NEW len \in Nat
  PROVE  Numbers(c.accepted) \o Data(c, len) = Numbers(c.accepted + len)
<1> DEFINE m == c.accepted
           old == Numbers(m)
           new == Data(c, len)
           all == Numbers(m + len)
<1>1. m \in Nat /\ m + len \in Nat
  BY DEF Conn, ConnType
<1>2. old \in Seq(Nat) /\ Len(old) = m /\ \A i \in 1 .. m : old[i] = i
  BY <1>1, IsASeq DEF Numbers
<1>3. all \in Seq(Nat) /\ Len(all) = m + len /\ \A i \in 1 .. m + len : all[i] = i
  BY <1>1, IsASeq DEF Numbers
<1>4. new \in Seq(Nat) /\ Len(new) = len /\ \A i \in 1 .. len : new[i] = m + i
  <2>1. len \in 0 .. len
    OBVIOUS
  <2> QED
    BY <2>1, DataTyped DEF Data
<1> HIDE DEF old, new, all, m
<1>5. /\ old \o new \in Seq(Nat) /\ Len(old \o new) = m + len
      /\ \A i \in 1 .. m + len : (old \o new)[i] = IF i <= m THEN old[i] ELSE new[i - m]
  BY <1>2, <1>4, ConcatProperties
<1>6. \A i \in 1 .. m + len : (old \o new)[i] = all[i]
  <2> TAKE i \in 1 .. m + len
  <2>1. CASE i <= m
    BY <1>1, <1>2, <1>3, <1>5, <2>1
  <2>2. CASE ~(i <= m)
    <3>1. i - m \in 1 .. len /\ m + (i - m) = i
      BY <1>1, <2>2
    <3> QED
      BY <1>3, <1>4, <1>5, <2>2, <3>1
  <2> QED
    BY <2>1, <2>2
<1>7. old \o new = all
  BY <1>3, <1>5, <1>6, SeqEqual
<1> QED
  BY <1>7 DEF old, new, all, m

\* The stream of a connection, its bytes and its counters.
Stream(c) == c.wire \o c.output
Like(c, d) ==
    d.wire = c.wire /\ d.output = c.output /\ d.accepted = c.accepted /\ d.lost = c.lost

\* The members that only change the interest or the state.
LEMMA LikeMembers ==
  ASSUME NEW c \in Conn
  PROVE  /\ \A d \in {stopRead(c), startRead(c), shutdownInLoop(c), shutdown(c), enableRead(c),
                      enableWrite(c), disableWrite(c)} : Like(c, d)
         /\ \A d \in {stopRead(c), startRead(c), enableRead(c), enableWrite(c), disableWrite(c),
                      Close(c), Fail(c)} : d.wrShut = c.wrShut
<1>0. c \in ConnType
  BY DEF Conn
<1>1. \A d \in ConnType : Like(d, update(d)) /\ update(d).wrShut = d.wrShut
  BY DEF update, Fail, Like, ConnType
<1>2. ASSUME NEW events \in SUBSET {"IN", "PRI", "OUT"}
      PROVE  /\ Like(c, update([c EXCEPT !.events = events]))
             /\ update([c EXCEPT !.events = events]).wrShut = c.wrShut
  <2> DEFINE d == [c EXCEPT !.events = events]
  <2>1. d \in ConnType /\ Like(c, d) /\ d.wrShut = c.wrShut
    BY <1>0 DEF Like, ConnType
  <2> HIDE DEF d
  <2>2. Like(c, update(d)) /\ update(d).wrShut = c.wrShut
    BY <1>1, <2>1 DEF Like
  <2> QED
    BY <2>2 DEF d
<1>3. c.events \in SUBSET {"IN", "PRI", "OUT"}
  BY <1>0 DEF ConnType
<1>4. \A d \in {enableRead(c), disableRead(c), enableWrite(c), disableWrite(c)} :
        Like(c, d) /\ d.wrShut = c.wrShut
  <2>1. /\ c.events \cup {"IN", "PRI"} \in SUBSET {"IN", "PRI", "OUT"}
        /\ c.events \ {"IN"} \in SUBSET {"IN", "PRI", "OUT"}
        /\ c.events \cup {"OUT"} \in SUBSET {"IN", "PRI", "OUT"}
        /\ c.events \ {"OUT"} \in SUBSET {"IN", "PRI", "OUT"}
    BY <1>3
  <2> QED
    BY <1>2, <2>1 DEF enableRead, disableRead, enableWrite, disableWrite
<1>5. Like(c, c)
  BY DEF Like
<1>6. ASSUME NEW d \in ConnType PROVE Like(d, shutdownInLoop(d))
  BY <1>6 DEF shutdownInLoop, Like, ConnType
<1>7. Like(c, shutdown(c))
  <2> DEFINE d == [c EXCEPT !.state = "Disconnecting"]
  <2>1. d \in ConnType /\ Like(c, d)
    BY <1>0 DEF Like, ConnType
  <2>2. shutdown(c) = d \/ shutdown(c) = shutdownInLoop(d)
    BY DEF shutdown
  <2> HIDE DEF d
  <2> QED
    BY <1>6, <2>1, <2>2 DEF Like
<1>8. Close(c).wrShut = c.wrShut /\ Fail(c).wrShut = c.wrShut
  <2>1. Fail(c).wrShut = c.wrShut
    BY <1>0 DEF Fail, ConnType
  <2> DEFINE d == [c EXCEPT !.state = "Disconnected", !.listed = FALSE, !.events = {}]
  <2>2. d \in ConnType /\ d.wrShut = c.wrShut
    BY <1>0 DEF ConnType
  <2>3. Close(c) = Fail(c) \/ Close(c) = update(d)
    BY DEF Close, disableAll
  <2> HIDE DEF d
  <2> QED
    BY <1>1, <2>1, <2>2, <2>3
<1>9. /\ stopRead(c) \in {c, disableRead(c)} /\ startRead(c) \in {c, enableRead(c)}
      /\ Like(c, shutdownInLoop(c))
  BY <1>0, <1>6 DEF stopRead, startRead
<1> HIDE DEF Like
<1>10. /\ Like(c, stopRead(c)) /\ stopRead(c).wrShut = c.wrShut
       /\ Like(c, startRead(c)) /\ startRead(c).wrShut = c.wrShut
  BY <1>4, <1>5, <1>9
<1>11. /\ Like(c, enableRead(c)) /\ enableRead(c).wrShut = c.wrShut
       /\ Like(c, enableWrite(c)) /\ enableWrite(c).wrShut = c.wrShut
       /\ Like(c, disableWrite(c)) /\ disableWrite(c).wrShut = c.wrShut
  BY <1>4
<1> QED
  BY <1>4, <1>5, <1>7, <1>8, <1>9

\* Keeping bytes in the output buffer puts them behind the stream.
LEMMA StreamKeep ==
  ASSUME NEW c \in Conn, NEW data \in Seq(Nat)
  PROVE  /\ Stream(Keep(c, data)) = Stream(c) \o data /\ Keep(c, data).accepted = c.accepted
         /\ Keep(c, data).lost = c.lost /\ Keep(c, data).wrShut = c.wrShut
         /\ Stream(c) \in Seq(Nat)
<1> DEFINE output == c.output \o data
           d == [c EXCEPT !.output = output]
<1>0. c.output \in Seq(Nat) /\ c.wire \in Seq(Nat)
  BY DEF Conn, ConnType
<1>1. /\ output \in Seq(Nat) /\ Stream(c) \in Seq(Nat)
      /\ c.wire \o output = Stream(c) \o data
  <2>1. output \in Seq(Nat) /\ Stream(c) \in Seq(Nat)
    BY <1>0, ConcatProperties DEF Stream
  <2>2. (c.wire \o c.output) \o data = c.wire \o (c.output \o data)
    BY <1>0, Assoc
  <2> QED
    BY <2>1, <2>2 DEF Stream
<1>2. Keep(c, data) = enableWrite(d)
  BY DEF Keep
<1> HIDE DEF output
<1>3. d \in Conn /\ d.output = output /\ d.wire = c.wire /\ d.accepted = c.accepted
      /\ d.lost = c.lost /\ d.wrShut = c.wrShut
  BY <1>1 DEF Conn, ConnType
<1> HIDE DEF d
<1>4. Like(d, enableWrite(d)) /\ enableWrite(d).wrShut = d.wrShut
  BY <1>3, LikeMembers
<1> QED
  BY <1>1, <1>2, <1>3, <1>4 DEF Like, Stream

\* What sendInLoop keeps or leaves to its high-water-mark callback.
LEMMA StreamRemainder ==
  ASSUME HighWaterSet, NEW c \in Conn, NEW data \in Seq(Nat)
  PROVE  LET r == Remainder(c, data)
         IN  /\ r.conn.accepted = c.accepted /\ r.conn.lost = c.lost /\ r.conn.wrShut = c.wrShut
             /\ \/ r.frames = <<>> /\ Stream(r.conn) = Stream(c) \o data
                \/ r.frames = <<Rest(data), High>> /\ Stream(r.conn) = Stream(c)
<1>1. \/ Remainder(c, data) = [conn |-> c, frames |-> <<Rest(data), High>>]
      \/ Remainder(c, data) = [conn |-> Keep(c, data), frames |-> <<>>]
  BY DEF Remainder
<1> QED
  BY <1>1, StreamKeep

\* A send puts its bytes behind the stream, those included that wait for the
\* high-water-mark callback.
LEMMA StreamSend ==
  ASSUME HighWaterSet, NEW c \in Conn, Fit(c), NEW len \in Nat, NEW r \in sendInLoop(c, len)
  PROVE  LET all == Stream(c) \o Data(c, len)
         IN  /\ r.conn.wrShut = c.wrShut /\ (~r.conn.lost => ~c.lost)
             /\ r.conn.accepted = c.accepted + len
             /\ ~r.conn.lost =>
                   \/ r.frames \in {<<>>, <<User>>} /\ Stream(r.conn) = all
                   \/ \E left \in Seq(Nat) :
                        r.frames = <<Rest(left), High>> /\ Stream(r.conn) \o left = all
<1> DEFINE data == Data(c, len)
           a    == Given(c, len)
           all  == Stream(c) \o data
<1>1. /\ a \in Conn /\ [a EXCEPT !.lost = TRUE] \in Conn
      /\ \A taken \in Seq(Nat) : [a EXCEPT !.wire = @ \o taken] \in Conn
  BY GivenTyped
<1>2. /\ a.wire = c.wire /\ a.output = c.output /\ a.lost = c.lost /\ a.wrShut = c.wrShut
      /\ a.accepted = c.accepted + len /\ isWriting(a) = isWriting(c)
  BY DEF Conn, ConnType, Given, isWriting
<1>3. data \in Seq(Nat) /\ Len(data) = len
  BY DataTyped, len \in 0 .. len
<1>4. /\ c.wire \in Seq(Nat) /\ c.output \in Seq(Nat) /\ c.lost \in BOOLEAN
      /\ c.state # "Disconnected" /\ (isWriting(c) <=> c.output # <<>>)
  BY DEF Conn, ConnType, Fit, Open, isWriting
<1>5. \/ isWriting(c) /\ r = Remainder(a, data)
      \/ r = [conn |-> [a EXCEPT !.lost = TRUE], frames |-> <<>>]
      \/ /\ c.output = <<>>
         /\ r = [conn   |-> [a EXCEPT !.wire = @ \o data],
                 frames |-> IF WriteCompleteSet THEN <<User>> ELSE <<>>]
      \/ /\ c.output = <<>>
         /\ \E n \in 0 .. len : r = Remainder([a EXCEPT !.wire = @ \o SubSeq(data, 1, n)],
                                             SubSeq(data, n + 1, len))
  <2>1. \/ c.state = "Disconnected" /\ r = [conn |-> c, frames |-> <<>>]
        \/ isWriting(c) /\ r = Remainder(a, data)
        \/ ~isWriting(c) /\ c.output # <<>> /\ r = [conn |-> Fail(a), frames |-> <<>>]
        \/ /\ c.output = <<>>
           /\ \/ r = [conn |-> [a EXCEPT !.lost = TRUE], frames |-> <<>>]
              \/ r = [conn   |-> [a EXCEPT !.wire = @ \o data],
                      frames |-> IF WriteCompleteSet THEN <<User>> ELSE <<>>]
              \/ \E n \in 0 .. len :
                   /\ n # len
                   /\ r = Remainder([a EXCEPT !.wire = @ \o SubSeq(data, 1, n)],
                                    SubSeq(data, n + 1, len))
    BY SendCases
  <2> HIDE DEF data, a
  <2> QED
    BY <1>4, <2>1
<1> HIDE DEF data, a
\* The connection when write(2) has taken bytes and nothing is buffered.
<1>6. ASSUME NEW taken \in Seq(Nat), c.output = <<>>
      PROVE  LET d == [a EXCEPT !.wire = @ \o taken]
             IN  /\ d \in Conn /\ d.accepted = c.accepted + len /\ d.lost = c.lost
                 /\ d.wrShut = c.wrShut /\ Stream(d) = Stream(c) \o taken
  <2> DEFINE wire == a.wire \o taken
             d == [a EXCEPT !.wire = wire]
  <2>1. wire \in Seq(Nat) /\ c.wire \o <<>> = c.wire /\ wire \o <<>> = wire
    BY <1>2, <1>4, ConcatProperties, ConcatEmptySeq
  <2>2. d \in Conn
    BY <1>1
  <2>3. wire = Stream(c) \o taken
    BY <1>2, <1>6, <2>1 DEF Stream
  <2> HIDE DEF wire
  <2>4. /\ d.wire = wire /\ d.output = c.output /\ d.accepted = c.accepted + len
        /\ d.lost = c.lost /\ d.wrShut = c.wrShut
    BY <1>1, <1>2 DEF Conn, ConnType
  <2>5. Stream(d) = wire
    BY <1>6, <2>1, <2>4 DEF Stream
  <2> QED
    BY <2>2, <2>3, <2>4, <2>5 DEF wire
<1>7. CASE isWriting(c) /\ r = Remainder(a, data)
  <2>1. Stream(a) = Stream(c)
    BY <1>2 DEF Stream
  <2> QED
    <3>1. /\ r.conn.accepted = a.accepted /\ r.conn.lost = a.lost /\ r.conn.wrShut = a.wrShut
          /\ \/ r.frames = <<>> /\ Stream(r.conn) = Stream(a) \o data
             \/ r.frames = <<Rest(data), High>> /\ Stream(r.conn) = Stream(a)
      BY <1>1, <1>3, <1>7, StreamRemainder
    <3>2. \/ r.frames = <<>> /\ Stream(r.conn) = all
          \/ r.frames = <<Rest(data), High>> /\ Stream(r.conn) \o data = all
      BY <2>1, <3>1
    <3> QED
      BY <1>2, <1>3, <1>4, <3>1, <3>2 DEF data
<1>8. CASE r = [conn |-> [a EXCEPT !.lost = TRUE], frames |-> <<>>]
  <2>1. LET d == [a EXCEPT !.lost = TRUE]
        IN  d.lost /\ d.accepted = c.accepted + len /\ d.wrShut = c.wrShut
    BY <1>1, <1>2 DEF Conn, ConnType
  <2> QED
    BY <1>8, <2>1
<1>9. CASE /\ c.output = <<>>
           /\ r = [conn   |-> [a EXCEPT !.wire = @ \o data],
                   frames |-> IF WriteCompleteSet THEN <<User>> ELSE <<>>]
  <2> DEFINE d == [a EXCEPT !.wire = @ \o data]
  <2>1. r.conn = d /\ r.frames \in {<<>>, <<User>>}
    BY <1>9
  <2>2. /\ d.accepted = c.accepted + len /\ d.lost = c.lost
        /\ d.wrShut = c.wrShut /\ Stream(d) = all
    BY <1>3, <1>6, <1>9
  <2> HIDE DEF d
  <2> QED
    BY <2>1, <2>2 DEF data
<1>10. ASSUME c.output = <<>>, NEW n \in 0 .. len,
              r = Remainder([a EXCEPT !.wire = @ \o SubSeq(data, 1, n)],
                            SubSeq(data, n + 1, len))
       PROVE  /\ r.conn.wrShut = c.wrShut /\ r.conn.lost = c.lost
              /\ r.conn.accepted = c.accepted + len
              /\ \/ r.frames = <<>> /\ Stream(r.conn) = all
                 \/ \E left \in Seq(Nat) :
                      r.frames = <<Rest(left), High>> /\ Stream(r.conn) \o left = all
  <2> DEFINE front == SubSeq(data, 1, n)
             left  == SubSeq(data, n + 1, len)
             d     == [a EXCEPT !.wire = @ \o front]
  <2>1. front \in Seq(Nat) /\ left \in Seq(Nat) /\ front \o left = data
    BY <1>3, Split
  <2>2. /\ d \in Conn /\ d.accepted = c.accepted + len /\ d.lost = c.lost
        /\ d.wrShut = c.wrShut /\ Stream(d) = Stream(c) \o front
    BY <1>6, <1>10, <2>1
  <2>3. r = Remainder(d, left)
    BY <1>10
  <2> HIDE DEF front, left, d
  <2>4. (Stream(c) \o front) \o left = all
    <3>1. Stream(c) \in Seq(Nat)
      BY <1>3, StreamKeep
    <3> QED
      BY <2>1, <3>1, Assoc
  <2>5. Stream(d) \o left = all
    BY <2>2, <2>4
  <2> QED
    BY <2>1, <2>2, <2>3, <2>5, StreamRemainder
<1> QED
  BY <1>5, <1>7, <1>8, <1>9, <1>10 DEF data

\* The bytes that leave the buffer go to the wire.
LEMMA StreamWritten ==
  ASSUME TypeInv, NEW n \in 0 .. Len(conn.output), Written(n)
  PROVE  /\ Stream(conn') = Stream(conn) /\ conn'.accepted = conn.accepted
         /\ conn'.lost = conn.lost
         /\ \E frames \in {<<>>, <<User>>} : stack' = <<>> \o frames
         /\ conn'.wrShut = conn.wrShut \/ conn'.output = <<>>
<1> DEFINE front == SubSeq(conn.output, 1, n)
           rest  == SubSeq(conn.output, n + 1, Len(conn.output))
           wire  == conn.wire \o front
           c == [conn EXCEPT !.wire = wire, !.output = rest]
<1>0. conn \in Conn /\ conn.output \in Seq(Nat) /\ conn.wire \in Seq(Nat)
  BY TypeParts DEF Conn, ConnType
<1>1. c \in Conn
  BY <1>0, WrittenTyped
<1>2. IF c.output # <<>> THEN Become(c, <<>>, <<>>)
      ELSE Become(IF c.state = "Disconnecting" THEN shutdownInLoop(disableWrite(c))
                  ELSE disableWrite(c), <<>>, IF WriteCompleteSet THEN <<User>> ELSE <<>>)
  BY DEF Written
<1>3. front \in Seq(Nat) /\ rest \in Seq(Nat) /\ front \o rest = conn.output
  BY <1>0, Split
<1> HIDE DEF front, rest
<1>4. wire \o rest = conn.wire \o conn.output
  <2>1. (conn.wire \o front) \o rest = conn.wire \o (front \o rest)
    BY <1>0, <1>3, Assoc
  <2> QED
    BY <1>3, <2>1
<1> HIDE DEF wire
<1>5. /\ c.wire = wire /\ c.output = rest /\ c.accepted = conn.accepted /\ c.lost = conn.lost
      /\ c.wrShut = conn.wrShut
  BY <1>0 DEF Conn, ConnType
<1> HIDE DEF c
<1>6. Stream(c) = Stream(conn)
  BY <1>4, <1>5 DEF Stream
<1>7. CASE c.output # <<>>
  BY <1>2, <1>5, <1>6, <1>7 DEF Become
<1>8. CASE c.output = <<>>
  <2>1. Like(c, disableWrite(c)) /\ disableWrite(c).wrShut = c.wrShut /\ disableWrite(c) \in Conn
    BY <1>1, LikeMembers, InterestTyped DEF Conn
  <2>2. Like(disableWrite(c), shutdownInLoop(disableWrite(c)))
    BY <2>1, LikeMembers
  <2>3. conn' \in {disableWrite(c), shutdownInLoop(disableWrite(c))}
        /\ stack' = <<>> \o (IF WriteCompleteSet THEN <<User>> ELSE <<>>)
    BY <1>2, <1>8 DEF Become
  <2>4. Like(c, conn')
    BY <2>1, <2>2, <2>3 DEF Like
  <2> QED
    BY <1>5, <1>6, <1>8, <2>3, <2>4 DEF Like, Stream
<1> QED
  BY <1>7, <1>8

StreamInv ==
    /\ conn.listed =>
          /\ Lone(stack)
          /\ ~conn.lost => Stream(conn) \o Pending(stack) = Numbers(conn.accepted)
    /\ lpc = "accept" => conn.wire = <<>> /\ conn.accepted = 0

\* One step keeps the stream.
LEMMA StreamStep ==
  ASSUME Mild, CoreInv, StreamInv, Next
  PROVE  StreamInv'
<1>0. TypeInv' /\ Orderly /\ lpc' # "accept"
  BY StepOrderly, HandedOut
<1>1. SUFFICES ASSUME conn'.listed
               PROVE  /\ Lone(stack')
                      /\ ~conn'.lost => Stream(conn') \o Pending(stack') = Numbers(conn'.accepted)
  BY <1>0 DEF StreamInv, Stream, Pending, Numbers, Lone
<1> DEFINE Kept == /\ Lone(stack')
                   /\ ~conn'.lost => Stream(conn') \o Pending(stack') = Numbers(conn'.accepted)
<1>2. /\ TypeInv /\ conn \in Conn /\ stack \in Seq(Frame) /\ batch \in Seq(Tasks)
      /\ conn.listed \/ OnConnection
      /\ lpc = "accept" => Fresh
  BY <1>0, <1>1, TypeParts DEF CoreInv, Orderly
<1>3. conn.listed => /\ Fit(conn) /\ Lone(stack) /\ conn.state # "Disconnected"
                     /\ ~conn.lost => Stream(conn) \o Pending(stack) = Numbers(conn.accepted)
                     /\ "OUT" \in revents => isWriting(conn)
  BY DEF CoreInv, StreamInv, Fit, Open
<1>4. /\ <<>> \in Seq(Frame) /\ <<User>> \in Seq(Frame) /\ Lone(<<>>)
      /\ \A frames \in {<<>>, <<User>>} : Lone(<<>> \o frames) /\ Pending(<<>> \o frames) = <<>>
      /\ Pending(<<>>) = <<>>
  <2>1. <<>> \in Seq(Frame) /\ Lone(<<>>)
    BY EmptySeq DEF Lone
  <2>2. <<User>> \in Seq(Frame) /\ Following(<<User>>) /\ Following(<<>>)
    BY FramesTyped, EmptySeq DEF Following
  <2> QED
    BY <2>1, <2>2, StackSteps, PendingSteps
<1>5. ASSUME conn.listed, Like(conn, conn'), Lone(stack'), Pending(stack') = Pending(stack)
      PROVE  Kept
  <2>1. Stream(conn') = Stream(conn) /\ conn'.lost = conn.lost /\ conn'.accepted = conn.accepted
    BY <1>5 DEF Like, Stream
  <2> QED
    BY <1>3, <1>5, <2>1
<1>6. ASSUME conn.listed, UNCHANGED <<conn, stack>> PROVE Kept
  BY <1>3, <1>5, <1>6 DEF Like
<1>7. ~Close(conn).listed
  <2>1. CASE conn.listed
    BY <1>2, <1>3, <2>1, FitMembers
  <2>2. CASE ~conn.listed
    BY <1>2, <2>2, ListedMembers
  <2> QED
    BY <2>1, <2>2
\* A send on a stack that holds no waiting one.
<1>8. ASSUME conn.listed, stack = <<>> \/ stack[Len(stack)].kind = "user",
             NEW len \in Nat, NEW r \in sendInLoop(conn, len),
             conn' = r.conn, stack' = stack \o r.frames
      PROVE  Kept
  <2>0. Following(r.frames) /\ r.frames \in Seq(Frame)
    BY <1>2, <1>3, <1>8, FitSend, SendTyped DEF Results
  <2>1. Lone(stack')
    BY <1>2, <1>3, <1>8, <2>0, StackSteps
  <2>2. SUFFICES ASSUME ~conn'.lost
                 PROVE  Stream(conn') \o Pending(stack') = Numbers(conn'.accepted)
    BY <2>1
  <2>3. /\ ~conn.lost /\ conn'.accepted = conn.accepted + len
        /\ \/ /\ r.frames \in {<<>>, <<User>>}
              /\ Stream(conn') = Stream(conn) \o Data(conn, len)
           \/ \E left \in Seq(Nat) : /\ r.frames = <<Rest(left), High>>
                                     /\ Stream(conn') \o left = Stream(conn) \o Data(conn, len)
    BY <1>2, <1>3, <1>8, <2>2, StreamSend DEF Mild
  <2>4. Pending(stack) = <<>> /\ Stream(conn) \in Seq(Nat) /\ Stream(conn') \in Seq(Nat)
    <3>1. Pending(stack) = <<>>
      BY <1>2, <1>3, <1>8, PendingSteps
    <3>2. conn' \in Conn /\ <<>> \in Seq(Nat)
      BY <1>0, EmptySeq DEF TypeInv, TypeOK, Conn
    <3> QED
      BY <1>2, <3>1, <3>2, StreamKeep
  <2>5. Stream(conn) = Numbers(conn.accepted)
    <3>1. Stream(conn) \o <<>> = Numbers(conn.accepted)
      BY <1>3, <1>8, <2>3, <2>4
    <3> QED
      BY <2>4, <3>1, ConcatEmptySeq
  <2>6. Stream(conn) \o Data(conn, len) = Numbers(conn'.accepted)
    BY <1>2, <1>8, <2>3, <2>5, NextNumbers
  <2>7. CASE r.frames \in {<<>>, <<User>>} /\ Stream(conn') = Stream(conn) \o Data(conn, len)
    <3>1. Pending(stack') = <<>>
      BY <1>2, <1>3, <1>8, <2>7, PendingSteps
    <3> QED
      BY <2>4, <2>6, <2>7, <3>1, ConcatEmptySeq
  <2>8. ASSUME NEW left \in Seq(Nat), r.frames = <<Rest(left), High>>,
               Stream(conn') \o left = Stream(conn) \o Data(conn, len)
        PROVE  Stream(conn') \o Pending(stack') = Numbers(conn'.accepted)
    <3>1. left # <<>>
      <4>1. ASSUME NEW data \in Seq(Nat), data # <<>>, r.frames = <<Rest(data), High>>
            PROVE  left # <<>>
        <5>1. <<Rest(left), High>>[1].data = <<Rest(data), High>>[1].data
          BY <2>8, <4>1
        <5> QED
          BY <4>1, <5>1 DEF Rest
      <4>2. <<Rest(left), High>> # <<>> /\ <<Rest(left), High>> # <<User>>
        BY DEF Rest, User
      <4>3. r.frames # <<>> /\ r.frames # <<User>>
        BY <2>8, <4>2, Zenon
      <4> QED
        BY <2>0, <4>1, <4>3 DEF Following
    <3>2. Pending(stack') = left
      BY <1>2, <1>3, <1>8, <2>8, <3>1, PendingSteps
    <3> QED
      BY <2>6, <2>8, <3>2
  <2> QED
    BY <2>3, <2>7, <2>8
<1>9. CASE OnConnection
  <2> DEFINE c == [conn EXCEPT !.listed = TRUE, !.state = "Connected"]
  <2>1. Fresh /\ conn' = enableRead(c) /\ stack' = <<>> \o <<User>> /\ lpc = "accept"
    BY <1>2, <1>9 DEF OnConnection, Become, InLoop
  <2>2. conn.wire = <<>> /\ conn.accepted = 0 /\ conn.output = <<>>
    BY <2>1 DEF Fresh, StreamInv
  <2>3. c \in Conn /\ Like(conn, c)
    BY <1>2 DEF Conn, ConnType, Like
  <2> HIDE DEF c
  <2>4. Like(c, conn')
    BY <2>1, <2>3, LikeMembers
  <2>5. conn'.wire = <<>> /\ conn'.output = <<>> /\ conn'.accepted = 0
    BY <2>2, <2>3, <2>4 DEF Like
  <2>6. Lone(stack') /\ Pending(stack') = <<>>
    BY <1>4, <2>1
  <2>7. <<>> \o <<>> = <<>> /\ Numbers(0) = <<>>
    <3>1. Numbers(0) \in Seq(Nat) /\ Len(Numbers(0)) = 0
      BY IsASeq DEF Numbers
    <3> QED
      BY <3>1, EmptySeq, ConcatEmptySeq
  <2>8. Stream(conn') \o Pending(stack') = Numbers(conn'.accepted)
    BY <2>5, <2>6, <2>7 DEF Stream
  <2> QED
    BY <2>6, <2>8
<1>10. CASE conn.listed /\ (HandleClose \/ HandleRead)
  <2>1. stack = <<>>
    BY <1>10 DEF HandleClose, HandleRead, Take, InLoop
  <2>2. conn' = conn /\ (stack' = <<>> \o <<User>> \/ stack' = stack)
    <3>1. conn' # Close(conn)
      BY <1>1, <1>7
    <3> QED
      BY <1>3, <1>10, <3>1 DEF HandleClose, HandleRead, Become
  <2>3. Lone(stack') /\ Pending(stack') = Pending(stack) /\ Like(conn, conn')
    BY <1>4, <2>1, <2>2 DEF Like
  <2> QED
    BY <1>5, <1>10, <2>3
<1>11. CASE conn.listed /\ HandleWrite
  <2>1. stack = <<>> /\ "OUT" \in revents
    BY <1>11 DEF HandleWrite, Take, InLoop
  <2>2. conn.output # <<>> /\ isWriting(conn)
    BY <1>3, <1>11, <2>1 DEF Fit, isWriting
  <2>3. UNCHANGED <<conn, stack>> \/ \E n \in 0 .. Len(conn.output) : Written(n)
    BY <1>3, <1>11, <2>2 DEF HandleWrite
  <2>4. ASSUME NEW n \in 0 .. Len(conn.output), Written(n)
        PROVE  Kept
    <3>1. /\ Stream(conn') = Stream(conn) /\ conn'.accepted = conn.accepted
          /\ conn'.lost = conn.lost /\ \E frames \in {<<>>, <<User>>} : stack' = <<>> \o frames
      BY <1>2, <2>4, StreamWritten
    <3>2. Lone(stack') /\ Pending(stack') = <<>> /\ Pending(stack) = <<>>
      BY <1>4, <2>1, <3>1
    <3> QED
      BY <1>3, <1>11, <3>1, <3>2
  <2> QED
    BY <1>6, <1>11, <2>3, <2>4
<1>12. CASE conn.listed /\ RunTask
  <2>1. stack = <<>> /\ batch # <<>>
    BY <1>12 DEF RunTask, InLoop
  <2>2. Head(batch) \in Tasks
    BY <1>2, <2>1, HeadTailProperties, EmptySeq
  <2>3. Head(batch).len \in Nat
    BY <2>2, BoundAssumption DEF Tasks
  <2>4. ~conn.freed /\ conn' # Close(conn)
    BY <1>1, <1>3, <1>7, <1>12 DEF Fit
  <2>5. \/ /\ conn' \in {stopRead(conn), startRead(conn), shutdownInLoop(conn)}
           /\ stack' = <<>> \o <<>>
        \/ \E r \in sendInLoop(conn, Head(batch).len) : conn' = r.conn /\ stack' = <<>> \o r.frames
    BY <1>3, <1>12, <2>4 DEF RunTask, Become
  <2>6. CASE /\ conn' \in {stopRead(conn), startRead(conn), shutdownInLoop(conn)}
             /\ stack' = <<>> \o <<>>
    <3>1. Like(conn, conn')
      BY <1>2, <2>6, LikeMembers
    <3> QED
      BY <1>4, <1>5, <1>12, <2>1, <2>6, <3>1
  <2> QED
    BY <1>8, <1>12, <2>1, <2>3, <2>5, <2>6
<1>13. CASE conn.listed /\ Call
  <2>1. CASE CallSend
    <3>1. PICK len \in 1 .. MaxLen : \E r \in sendInLoop(conn, len) : Become(r.conn, stack, r.frames)
      BY <2>1 DEF CallSend
    <3>2. PICK r \in sendInLoop(conn, len) : Become(r.conn, stack, r.frames)
      BY <3>1
    <3>3. len \in Nat
      BY BoundAssumption
    <3>4. stack[Len(stack)].kind = "user"
      BY <2>1 DEF CallSend, InCallback, Mild, Top
    <3> QED
      BY <1>8, <1>13, <3>2, <3>3, <3>4 DEF Become
  <2>2. CASE CallShutdown \/ CallStopRead \/ CallStartRead
    <3>1. conn' \in {shutdown(conn), stopRead(conn), startRead(conn)} /\ stack' = stack \o <<>>
      BY <2>2 DEF CallShutdown, CallStopRead, CallStartRead, Become
    <3>2. Like(conn, conn') /\ stack' = stack
      BY <1>2, <3>1, LikeMembers, ConcatEmptySeq
    <3> QED
      BY <1>3, <1>5, <1>13, <3>2
  <2>3. CASE CallForceClose
    <3>1. UNCHANGED <<conn, stack>>
      BY <1>1, <1>7, <2>3 DEF CallForceClose, Become
    <3> QED
      BY <1>6, <1>13, <3>1
  <2> QED
    BY <1>13, <2>1, <2>2, <2>3 DEF Call
<1>14. CASE conn.listed /\ (CallbackReturns \/ ResumeSend)
  <2>1. stack # <<>> /\ stack' = Below \o <<>>
    BY <1>14 DEF CallbackReturns, ResumeSend, Become
  <2>2. stack' = SubSeq(stack, 1, Len(stack) - 1) /\ Top.data \in Seq(Nat)
    BY <1>2, <2>1, StackTyped, ConcatEmptySeq DEF Below
  <2>3. Lone(stack')
    BY <1>2, <1>3, <1>14, <2>1, <2>2, StackSteps
  <2>4. CASE CallbackReturns
    <3>1. conn' = conn /\ stack[Len(stack)].kind # "rest"
      BY <2>4 DEF CallbackReturns, Become, Top
    <3>2. Pending(stack') = Pending(stack)
      BY <1>2, <1>3, <1>14, <2>1, <2>2, <3>1, PendingSteps
    <3> QED
      BY <1>5, <1>14, <2>3, <3>1, <3>2 DEF Like
  <2>5. CASE ResumeSend
    <3>1. conn' = Keep(conn, Top.data) /\ stack[Len(stack)].kind = "rest"
      BY <2>5 DEF ResumeSend, Become, Top
    <3>2. Pending(stack') = <<>> /\ Pending(stack) = Top.data
      BY <1>2, <1>3, <1>14, <2>1, <2>2, <3>1, PendingSteps DEF Top
    <3>3. /\ Stream(conn') = Stream(conn) \o Top.data /\ conn'.accepted = conn.accepted
          /\ conn'.lost = conn.lost
      BY <1>2, <2>2, <3>1, StreamKeep
    <3>4. Stream(conn') \in Seq(Nat)
      <4>1. conn' \in Conn /\ <<>> \in Seq(Nat)
        BY <1>0, EmptySeq DEF TypeInv, TypeOK, Conn
      <4> QED
        BY <4>1, StreamKeep
    <3>5. Stream(conn') \o <<>> = Stream(conn')
      BY <3>4, ConcatEmptySeq
    <3> QED
      BY <1>3, <1>14, <2>3, <3>2, <3>3, <3>5
  <2> QED
    BY <1>14, <2>4, <2>5
<1>15. CASE conn.listed /\ (\/ Poll \/ HandleError \/ SwapTasks \/ TasksDone
                            \/ PeerCloses \/ PeerResets \/ Destroy)
  BY <1>6, <1>15 DEF Poll, HandleError, SwapTasks, TasksDone, PeerCloses, PeerResets, Destroy,
     Referenced, loopVars
<1>16. ASSUME conn.listed, NEW u \in Users,
              UserStep(u) \/ UserSend(u) \/ UserClose(u) \/ UserReading(u) \/ Drop(u)
       PROVE  Kept
  <2>1. stack' = stack
    BY <1>16 DEF UserStep, UserAssert, UserTest, UserSet, UserPush, UserSend, UserClose,
       UserReading, Drop, loopVars
  <2>2. conn' = conn \/ conn' = [conn EXCEPT !.state = "Disconnecting"]
    BY <1>3, <1>16 DEF UserStep, UserAssert, UserTest, UserSet, UserPush, UserSend, UserClose,
       UserReading, Drop
  <2>3. Like(conn, conn')
    BY <1>2, <2>2 DEF Like, Conn, ConnType
  <2> QED
    BY <1>3, <1>5, <1>16, <2>1, <2>3
<1> QED
  BY <1>2, <1>9, <1>10, <1>11, <1>12, <1>13, <1>14, <1>15, <1>16 DEF Next, LoopStep, Handle

\* The stream is whole in every state.
LEMMA StreamInvariant ==
  ASSUME Mild
  PROVE  Spec => []StreamInv
<1>1. Init => StreamInv
  BY DEF Init, StreamInv
<1>2. CoreInv /\ StreamInv /\ [Next]_vars => StreamInv'
  <2>1. ASSUME StreamInv, UNCHANGED vars PROVE StreamInv'
    BY <2>1 DEF vars, loopVars, StreamInv, Lone, Stream, Pending, Numbers
  <2> QED
    BY <2>1, StreamStep
<1> QED
  BY <1>1, <1>2, CoreInvariant, PTL DEF Spec

\* The stream of a connection in the server's set is every byte it was given, in
\* order, over short writes and the callbacks in between, for every number of
\* threads, their calls, and every end of the peer.
THEOREM ListedStream ==
  ASSUME Mild
  PROVE  Spec => []StreamKept
<1>1. StreamInv => StreamKept
  BY DEF StreamInv, StreamKept, Stream, Pending, Numbers, Interrupted
<1> QED
  BY <1>1, StreamInvariant, PTL

\* What the calls of other threads must leave true, whenever their tasks reach
\* the loop: the types, the asserts, the interest in EPOLLOUT and the stream.
THEOREM ConnSafe ==
  ASSUME Mild
  PROVE  Spec => []Safe
BY ConnTypeCorrect, ListedAsserts, ListedWriting, ListedStream, PTL DEF Safe

(***************************************************************************)
(* The flush before the FIN, when nobody sends behind the back of the one  *)
(* who shuts down: no send of another thread, and no shutdown in the middle *)
(* of a send.                                                              *)
(***************************************************************************)
Calm == Mild /\ "send" \notin UserMay /\ "shutdown" \notin HighMay

Except(op) == {t \in Tasks : t.op # op}

\* Nobody is on the way to calling op in the loop.
Never(op) ==
    /\ queue \in Seq(Except(op)) /\ batch \in Seq(Except(op))
    /\ \A u \in Users : upc[u].op # op

\* What a step does to the tasks and to the calls of other threads.
LEMMA TaskSteps ==
  ASSUME TypeInv, [Next]_vars
  PROVE  \/ UNCHANGED <<queue, batch, upc>> /\ ~RunTask
         \/ SwapTasks /\ batch' = queue /\ queue' = <<>> /\ upc' = upc
         \/ RunTask /\ batch # <<>> /\ batch' = Tail(batch) /\ UNCHANGED <<queue, upc>>
         \/ \E u \in Users : /\ UserStep(u) \/ UserSend(u) \/ UserClose(u) \/ UserReading(u)
                             /\ batch' = batch /\ ~RunTask
<1>1. CASE SwapTasks
  BY <1>1 DEF SwapTasks, userVars
<1>2. CASE RunTask
  BY <1>2 DEF RunTask, userVars
<1>3. ASSUME ~RunTask, NEW u \in Users,
             UserStep(u) \/ UserSend(u) \/ UserClose(u) \/ UserReading(u) \/ Drop(u)
      PROVE  \/ UNCHANGED <<queue, batch, upc>>
             \/ /\ UserStep(u) \/ UserSend(u) \/ UserClose(u) \/ UserReading(u)
                /\ batch' = batch
  BY <1>3 DEF UserStep, UserAssert, UserTest, UserSet, UserPush, UserSend, UserClose, UserReading,
     Drop, loopVars
<1>4. ASSUME \/ OnConnection \/ Poll \/ Handle \/ TasksDone \/ CallbackReturns \/ ResumeSend
             \/ Call \/ Destroy \/ PeerCloses \/ PeerResets \/ UNCHANGED vars
      PROVE  UNCHANGED <<queue, batch, upc>>
  BY <1>4 DEF OnConnection, Poll, Handle, HandleClose, HandleError, HandleRead, HandleWrite,
     Take, TasksDone, CallbackReturns, ResumeSend, Call, CallSend, CallShutdown,
     CallForceClose, CallStopRead, CallStartRead, Destroy, PeerCloses, PeerResets, loopVars,
     userVars, vars
<1> QED
  BY <1>1, <1>2, <1>3, <1>4 DEF Next, LoopStep

\* What no thread calls never waits for the loop.
LEMMA NeverStep ==
  ASSUME NEW op \in Calls, op \notin UserMay, TypeInv, Never(op), [Next]_vars
  PROVE  Never(op)'
<1>0. /\ TypeInv /\ queue \in Seq(Tasks) /\ batch \in Seq(Tasks) /\ <<>> \in Seq(Except(op))
      /\ upc \in [Users -> UserPcs]
  BY TypeParts, EmptySeq
<1>1. CASE UNCHANGED <<queue, batch, upc>>
  BY <1>1 DEF Never
<1>2. CASE batch' = queue /\ queue' = <<>> /\ upc' = upc
  BY <1>0, <1>2 DEF Never
<1>3. CASE batch # <<>> /\ batch' = Tail(batch) /\ UNCHANGED <<queue, upc>>
  <2>1. Tail(batch) \in Seq(Except(op))
    BY <1>3, HeadTailProperties DEF Never
  <2> QED
    BY <1>3, <2>1 DEF Never
<1>4. ASSUME NEW u \in Users, batch' = batch,
             UserStep(u) \/ UserSend(u) \/ UserClose(u) \/ UserReading(u)
      PROVE  Never(op)'
  <2>1. \/ queue' = queue
        \/ \E t \in Except(op) : queue' = Append(queue, t)
    <3>1. CASE UserPush(u)
      <4> DEFINE t == [op |-> upc[u].op, len |-> upc[u].len]
      <4>1. queue' = Append(queue, t)
        BY <3>1 DEF UserPush, Enqueue
      <4>2. upc[u].op \in Calls /\ upc[u].op # op
        <5>1. upc[u].at # "idle"
          BY <3>1 DEF UserPush
        <5> QED
          BY <1>0, <5>1 DEF TypeInv, Never
      <4>3. t \in Except(op)
        BY <1>0, <4>2 DEF Except, Tasks, UserPcs
      <4> QED
        BY <4>1, <4>3
    <3>2. CASE UserReading(u)
      <4>1. PICK o \in {"stopRead", "startRead"} : May(u, o) /\ Enqueue(o, 0)
        BY <3>2 DEF UserReading
      <4> DEFINE t == [op |-> o, len |-> 0]
      <4>2. queue' = Append(queue, t) /\ t \in Except(op)
        BY <4>1, BoundAssumption DEF May, Enqueue, Except, Tasks, Calls
      <4> QED
        BY <4>2
    <3>3. queue' = queue \/ UserPush(u) \/ UserReading(u)
      BY <1>4 DEF UserStep, UserAssert, UserTest, UserSet, UserSend, UserClose, loopVars
    <3> QED
      BY <3>1, <3>2, <3>3
  <2>2. queue' \in Seq(Except(op))
    <3>1. queue \in Seq(Except(op))
      BY DEF Never
    <3>2. \A t \in Except(op) : Append(queue, t) \in Seq(Except(op))
      BY <3>1, AppendProperties
    <3> QED
      BY <2>1, <3>1, <3>2
  <2>3. \A v \in Users : upc'[v].op # op
    <3>1. \/ upc' = upc
          \/ \E pc : upc' = [upc EXCEPT ![u] = pc] /\ pc.op # op
      <4>1. CASE UserAssert(u) \/ UserTest(u) \/ UserSet(u) \/ UserPush(u)
        <5>1. upc[u] \in UserPcs /\ upc[u].op # op
          BY <1>0 DEF Never
        <5>2. upc'[u].op \in {upc[u].op, "none"} /\ upc' = [upc EXCEPT ![u] = upc'[u]]
          BY <1>0, <4>1, <5>1 DEF UserAssert, UserTest, UserSet, UserPush, UserPcs, Idle
        <5> QED
          BY <5>1, <5>2 DEF Calls
      <4>2. CASE UserSend(u)
        <5>1. PICK len \in 1 .. MaxLen :
                upc' = [upc EXCEPT ![u] = [op |-> "send", at |-> "push", was |-> TRUE, len |-> len]]
          BY <4>2 DEF UserSend
        <5> DEFINE pc == [op |-> "send", at |-> "push", was |-> TRUE, len |-> len]
        <5>2. pc.op # op /\ upc' = [upc EXCEPT ![u] = pc]
          BY <4>2, <5>1 DEF UserSend, May
        <5> QED
          BY <5>2
      <4>3. CASE UserClose(u)
        <5>1. PICK o \in {"shutdown", "forceClose"} :
                /\ May(u, o)
                /\ upc' = [upc EXCEPT ![u] = [op |-> o, at |-> "assert", was |-> FALSE, len |-> 0]]
          BY <4>3 DEF UserClose
        <5> DEFINE pc == [op |-> o, at |-> "assert", was |-> FALSE, len |-> 0]
        <5>2. pc.op # op /\ upc' = [upc EXCEPT ![u] = pc]
          BY <5>1 DEF May
        <5> QED
          BY <5>2
      <4>4. CASE UserReading(u)
        BY <4>4 DEF UserReading, userVars
      <4> QED
        BY <1>4, <4>1, <4>2, <4>3, <4>4 DEF UserStep
    <3>2. \A v \in Users : upc[v].op # op
      BY DEF Never
    <3> QED
      BY <1>0, <3>1, <3>2
  <2> QED
    BY <1>4, <2>2, <2>3 DEF Never
<1> QED
  BY <1>0, <1>1, <1>2, <1>3, <1>4, TaskSteps

\* Then no send waits for the loop.
LEMMA SendsInvariant ==
  ASSUME Calm
  PROVE  Spec => []Never("send")
<1>1. Init => Never("send")
  BY EmptySeq DEF Init, Never, Idle
<1>2. TypeInv /\ Never("send") /\ [Next]_vars => Never("send")'
  BY NeverStep DEF Calm, Calls
<1> QED
  BY <1>1, <1>2, TypeInvariant, PTL DEF Spec

\* When the FIN of a connection in the server's set goes out there is nothing
\* left behind it: the buffer is empty, no send waits for its high-water-mark
\* callback, and none is queued.
THEOREM CalmFlush ==
  ASSUME Calm
  PROVE  Spec => FlushedBeforeFin
<1> DEFINE Flushed == /\ conn'.output = <<>> /\ Interrupted = <<>>
                      /\ \A i \in 1 .. Len(queue) : queue[i].op # "send"
                      /\ \A i \in 1 .. Len(batch) : batch[i].op # "send"
<1>1. ASSUME CoreInv, StreamInv, Never("send"), Next, conn.listed, ~conn.wrShut, conn'.wrShut
      PROVE  Flushed
  <2>0. /\ conn \in Conn /\ stack \in Seq(Frame) /\ batch \in Seq(Tasks) /\ Lone(stack) /\ TypeInv
        /\ Mild /\ Fit(conn) /\ conn.state # "Disconnected"
        /\ \A i \in 1 .. Len(queue) : queue[i].op # "send"
        /\ \A i \in 1 .. Len(batch) : batch[i].op # "send"
    <3>1. queue \in Seq(Except("send")) /\ batch \in Seq(Except("send"))
      BY <1>1 DEF Never
    <3>2. \A t \in Except("send") : t.op # "send"
      BY DEF Except
    <3>3. /\ \A i \in 1 .. Len(queue) : queue[i].op # "send"
          /\ \A i \in 1 .. Len(batch) : batch[i].op # "send"
      BY <3>1, <3>2, ElementOfSeq
    <3> QED
      BY <1>1, <3>3, TypeParts DEF CoreInv, StreamInv, Calm, Fit, Open
  <2>1. ASSUME stack = <<>> \/ stack[Len(stack)].kind = "user", conn'.output = <<>> PROVE Flushed
    <3>1. Pending(stack) = <<>>
      BY <2>0, <2>1, PendingSteps
    <3> QED
      BY <2>0, <2>1, <3>1 DEF Pending, Interrupted
  <2>2. CASE HandleWrite
    <3>1. stack = <<>>
      BY <2>2 DEF HandleWrite, Take, InLoop
    <3>2. conn' \in {conn, Fail(conn)} \/ \E n \in 0 .. Len(conn.output) : Written(n)
      BY <2>2 DEF HandleWrite, Become
    <3>3. Fail(conn).wrShut = conn.wrShut
      BY <2>0, LikeMembers
    <3>4. PICK n \in 0 .. Len(conn.output) : Written(n)
      BY <1>1, <3>2, <3>3
    <3>5. conn'.wrShut = conn.wrShut \/ conn'.output = <<>>
      BY <2>0, <3>4, StreamWritten
    <3> QED
      BY <1>1, <2>1, <3>1, <3>5
  <2>3. CASE CallShutdown
    <3>1. Top.kind = "user" /\ conn' = shutdown(conn)
      BY <2>3 DEF CallShutdown, InCallback, Become, Calm
    <3>2. Fit(conn)
      BY <2>0
    <3>3. conn'.output = conn.output /\ ~isWriting(conn)
      <4>1. conn'.output = conn.output
        BY <2>0, <3>1, <3>2, FitMembers
      <4> DEFINE d == [conn EXCEPT !.state = "Disconnecting"]
      <4>2. d.wrShut = conn.wrShut /\ isWriting(d) = isWriting(conn)
        BY <2>0 DEF Conn, ConnType, isWriting
      <4>3. shutdown(conn) = d \/ (shutdown(conn) = shutdownInLoop(d) /\ (isWriting(d) => shutdownInLoop(d) = d))
        BY DEF shutdown, shutdownInLoop
      <4> HIDE DEF d
      <4> QED
        BY <1>1, <3>1, <4>1, <4>2, <4>3
    <3>4. conn'.output = <<>>
      BY <3>2, <3>3 DEF Fit, isWriting
    <3> QED
      BY <2>1, <3>1, <3>4 DEF Top
  \* The task of another thread's shutdown.
  <2>4. CASE RunTask /\ conn' = shutdownInLoop(conn)
    <3>1. stack = <<>> /\ isWriting(conn) = FALSE
      BY <1>1, <2>4 DEF RunTask, InLoop, shutdownInLoop
    <3>2. Fit(conn)
      BY <2>0
    <3>3. conn'.output = conn.output /\ conn.output = <<>>
      BY <2>0, <2>4, <3>1, <3>2, FitMembers DEF Fit, isWriting
    <3> QED
      BY <2>1, <3>1, <3>3
  <2>5. conn'.wrShut = conn.wrShut \/ HandleWrite \/ CallShutdown
          \/ (RunTask /\ conn' = shutdownInLoop(conn))
    <3>1. \A d \in {stopRead(conn), startRead(conn), Close(conn), Fail(conn), conn} : d.wrShut = conn.wrShut
      BY <2>0, LikeMembers
    <3>2. ASSUME NEW len \in Nat, NEW r \in sendInLoop(conn, len), conn' = r.conn
          PROVE  conn'.wrShut = conn.wrShut
      BY <2>0, <3>2, StreamSend DEF Mild
    <3>3. CASE OnConnection
      <4> DEFINE c == [conn EXCEPT !.listed = TRUE, !.state = "Connected"]
      <4>1. conn' = enableRead(c)
        BY <3>3 DEF OnConnection, Become
      <4>2. c \in Conn /\ c.wrShut = conn.wrShut
        BY <2>0 DEF Conn, ConnType
      <4> HIDE DEF c
      <4> QED
        BY <4>1, <4>2, LikeMembers
    <3>4. CASE HandleClose \/ HandleRead
      BY <3>1, <3>4 DEF HandleClose, HandleRead, Become
    <3>5. CASE RunTask
      <4>1. batch # <<>>
        BY <3>5 DEF RunTask
      <4>2. Head(batch).op # "send"
        BY <1>1, <4>1, HeadTailProperties DEF Never, Except
      <4>3. conn' \in {[conn EXCEPT !.failed = "freed"], stopRead(conn), startRead(conn), Close(conn), conn,
                       shutdownInLoop(conn)}
        BY <3>5, <4>2 DEF RunTask, Become
      <4>4. [conn EXCEPT !.failed = "freed"].wrShut = conn.wrShut
        BY <2>0 DEF Conn, ConnType
      <4> QED
        BY <3>1, <3>5, <4>3, <4>4
    <3>6. CASE CallSend
      <4>1. PICK len \in 1 .. MaxLen : \E r \in sendInLoop(conn, len) : conn' = r.conn
        BY <3>6 DEF CallSend, Become
      <4>2. len \in Nat
        BY BoundAssumption
      <4> QED
        BY <3>2, <4>1, <4>2
    <3>7. CASE CallForceClose \/ CallStopRead \/ CallStartRead
      BY <3>1, <3>7 DEF CallForceClose, CallStopRead, CallStartRead, Become
    <3>8. CASE ResumeSend
      <4>1. conn' = Keep(conn, Top.data) /\ stack # <<>>
        BY <3>8 DEF ResumeSend, Become
      <4>2. Top.data \in Seq(Nat)
        BY <2>0, <4>1, StackTyped
      <4> QED
        BY <2>0, <4>1, <4>2, StreamKeep
    <3>9. CASE Destroy
      <4>1. conn' \in {[Fail(conn) EXCEPT !.freed = TRUE], [conn EXCEPT !.freed = TRUE]}
        BY <3>9 DEF Destroy
      <4>2. Fail(conn) \in Conn
        BY <2>0, MembersTyped
      <4>3. \A d \in Conn : [d EXCEPT !.freed = TRUE].wrShut = d.wrShut
        BY DEF Conn, ConnType
      <4> QED
        BY <2>0, <3>1, <4>1, <4>2, <4>3
    <3>10. CASE Poll \/ HandleError \/ SwapTasks \/ TasksDone \/ CallbackReturns \/ PeerCloses \/ PeerResets
      BY <3>10 DEF Poll, HandleError, SwapTasks, TasksDone, CallbackReturns, Become, PeerCloses, PeerResets
    <3>11. ASSUME NEW u \in Users,
                  UserStep(u) \/ UserSend(u) \/ UserClose(u) \/ UserReading(u) \/ Drop(u)
           PROVE  conn'.wrShut = conn.wrShut
      <4>1. conn' \in {conn, Fail(conn), [conn EXCEPT !.state = "Disconnecting"]}
        BY <3>11 DEF UserStep, UserAssert, UserTest, UserSet, UserPush, UserSend, UserClose,
           UserReading, Drop
      <4>2. [conn EXCEPT !.state = "Disconnecting"].wrShut = conn.wrShut
        BY <2>0 DEF Conn, ConnType
      <4> QED
        BY <3>1, <4>1, <4>2
    <3> QED
      BY <1>1, <3>3, <3>4, <3>5, <3>6, <3>7, <3>8, <3>9, <3>10, <3>11 DEF Next, LoopStep, Handle, Call
  <2> QED
    BY <1>1, <2>2, <2>3, <2>4, <2>5
<1>2. CoreInv /\ StreamInv /\ Never("send") /\ [Next]_vars =>
        [conn.listed /\ ~conn.wrShut /\ conn'.wrShut => Flushed]_vars
  BY <1>1
<1>3. Mild
  BY DEF Calm
<1> QED
  BY <1>2, <1>3, CoreInvariant, StreamInvariant, SendsInvariant, PTL DEF Spec, FlushedBeforeFin
=============================================================================
