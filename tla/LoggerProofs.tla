---------------------------- MODULE LoggerProofs ----------------------------
(***************************************************************************)
(* Logger for every number of threads, lines, seconds and parts of a stamp. *)
(***************************************************************************)
EXTENDS Logger, SequenceTheorems, TLAPS

(***************************************************************************)
(* Stamps                                                                  *)
(***************************************************************************)
\* A stamp of which no part has been printed.
LEMMA NothingPrinted == <<>> \in Printed /\ DOMAIN <<>> = {}
<1>1. <<>> = [p \in {} |-> 0]
  OBVIOUS
<1>2. [p \in {} |-> 0] \in [{} -> Time]
  OBVIOUS
<1>3. DOMAIN [p \in {} |-> 0] = {}
  OBVIOUS
<1> QED
  BY <1>1, <1>2, <1>3 DEF Printed

\* What printing one more part does to a stamp.
LEMMA PartPrinted ==
  ASSUME NEW f \in Printed, NEW p \in Parts, tm \in Time
  PROVE  /\ With(f, p) \in Printed
         /\ DOMAIN With(f, p) = DOMAIN f \cup {p}
         /\ \A q \in DOMAIN With(f, p) :
              With(f, p)[q] = tm \/ (q \in DOMAIN f /\ With(f, p)[q] = f[q])
<1>1. PICK P \in SUBSET Parts : f \in [P -> Time]
  BY DEF Printed
<1>2. With(f, p) = [q \in P \cup {p} |-> IF q = p THEN tm ELSE f[q]]
  BY <1>1 DEF With
<1>3. With(f, p) \in [P \cup {p} -> Time] /\ P \cup {p} \in SUBSET Parts
  BY <1>1, <1>2
<1>4. With(f, p) \in Printed
  BY <1>3 DEF Printed
<1> QED
  BY <1>1, <1>2, <1>4

\* A stamp all of whose parts are printed.
LEMMA AllPrinted ==
  ASSUME NEW f \in Printed, DOMAIN f = Parts
  PROVE  f \in Stamp
BY DEF Printed, Stamp

(***************************************************************************)
(* Type correctness                                                        *)
(***************************************************************************)
\* TypeOK is not inductive: the line that Enqueue makes needs a complete stamp
\* and a call that has been counted, and the writer's Dequeue a line to take.
Progress ==
    \A t \in Threads :
        /\ at[t] \in {"idle", "convert"} => DOMAIN stamp[t] = {}
        /\ at[t] = "enqueue" => DOMAIN stamp[t] = Parts
        /\ at[t] # "idle" => count[t] \in 1 .. MaxLines

WriterHasLine ==
    /\ wpc = "dequeue" => queue # <<>>
    /\ wpc = "write" => buffer \in Line

TypeInv == TypeOK /\ Progress /\ WriterHasLine

\* What a line that is enqueued is.
LEMMA LineMade ==
  ASSUME TypeInv, NEW t \in Threads, at[t] = "enqueue"
  PROVE  [by |-> t, no |-> count[t], stamp |-> stamp[t]] \in Line
<1>1. stamp[t] \in Stamp
  BY AllPrinted DEF TypeInv, TypeOK, Progress
<1> QED
  BY <1>1 DEF TypeInv, Progress, Line

\* Every action keeps the shape of the state, and the writer never writes what
\* it has not taken from the queue.
LEMMA TypeInvariant == Spec => []TypeInv
<1>1. Init => TypeInv
  <2> SUFFICES ASSUME Init PROVE TypeInv
    OBVIOUS
  <2>1. 0 \in Time /\ 0 \in 0 .. MaxLines
    BY BoundAssumption DEF Time
  <2>2. stamp \in [Threads -> Printed] /\ \A t \in Threads : DOMAIN stamp[t] = {}
    BY NothingPrinted DEF Init
  <2>3. queue \in Seq(Line) /\ submitted \in Seq(Line) /\ served \in Seq(Line)
    BY DEF Init
  <2> QED
    BY <2>1, <2>2, <2>3 DEF Init, TypeInv, TypeOK, Progress, WriterHasLine
<1>2. TypeInv /\ [Next]_vars => TypeInv'
  <2> SUFFICES ASSUME TypeInv, [Next]_vars PROVE TypeInv'
    OBVIOUS
  <2> USE DEF TypeInv
  <2>1. ASSUME NEW t \in Threads, ReadClock(t)
        PROVE  TypeInv'
    <3>1. count' \in [Threads -> 0 .. MaxLines] /\ count'[t] \in 1 .. MaxLines
      BY <2>1, BoundAssumption DEF ReadClock, TypeOK
    <3>2. oldest' \in [Threads -> Time]
      BY <2>1 DEF ReadClock, TypeOK
    <3>3. /\ read' \in [Threads -> Time]
          /\ at' = [at EXCEPT ![t] = "convert"] /\ at[t] = "idle"
          /\ \A u \in Threads : u # t => count'[u] = count[u]
      BY <2>1 DEF ReadClock, Advance, TypeOK
    <3>4. TypeOK'
      BY <2>1, <3>1, <3>2, <3>3 DEF ReadClock, TypeOK, logVars
    <3>5. Progress'
      BY <2>1, <3>1, <3>3 DEF ReadClock, TypeOK, Progress
    <3> QED
      BY <2>1, <3>4, <3>5 DEF ReadClock, WriterHasLine, logVars
  <2>2. ASSUME NEW t \in Threads, Convert(t)
        PROVE  TypeInv'
    <3>1. TypeOK' BY <2>2 DEF Convert, Advance, TypeOK, logVars
    <3>2. Progress' BY <2>2 DEF Convert, Advance, TypeOK, Progress
    <3> QED BY <2>2, <3>1, <3>2 DEF Convert, WriterHasLine, logVars
  <2>3. ASSUME NEW t \in Threads, FormatPart(t)
        PROVE  TypeInv'
    <3>1. PICK p \in Parts : stamp' = [stamp EXCEPT ![t] = With(stamp[t], p)]
      BY <2>3 DEF FormatPart, TypeOK
    <3>2. With(stamp[t], p) \in Printed
      BY PartPrinted DEF TypeOK
    <3>3. TypeOK' BY <2>3, <3>1, <3>2 DEF FormatPart, TypeOK, logVars
    <3>4. Progress' BY <2>3, <3>1, <3>2 DEF FormatPart, TypeOK, Progress
    <3> QED BY <2>3, <3>3, <3>4 DEF FormatPart, WriterHasLine, logVars
  <2>4. ASSUME NEW t \in Threads, Format(t)
        PROVE  TypeInv'
    <3>1. TypeOK' BY <2>4 DEF Format, Advance, TypeOK, logVars
    <3>2. Progress' BY <2>4 DEF Format, Advance, TypeOK, Progress
    <3> QED BY <2>4, <3>1, <3>2 DEF Format, WriterHasLine, logVars
  <2>5. ASSUME NEW t \in Threads, Enqueue(t)
        PROVE  TypeInv'
    <3> DEFINE new == [by |-> t, no |-> count[t], stamp |-> stamp[t]]
    <3>1. new \in Line
      BY <2>5, LineMade DEF Enqueue, Advance
    <3>2. queue' = Append(queue, new) /\ submitted' = Append(submitted, new)
      BY <2>5 DEF Enqueue
    <3> HIDE DEF new
    <3>3. queue' \in Seq(Line) /\ submitted' \in Seq(Line) /\ queue' # <<>>
      BY <3>1, <3>2, AppendProperties DEF TypeOK
    <3>4. /\ stamp' \in [Threads -> Printed] /\ DOMAIN stamp'[t] = {}
          /\ \A u \in Threads : u # t => stamp'[u] = stamp[u]
      BY <2>5, NothingPrinted DEF Enqueue, TypeOK
    <3>5. at' = [at EXCEPT ![t] = "idle"]
      BY <2>5 DEF Enqueue, Advance
    <3>6. UNCHANGED <<now, tm, read, count, oldest, wpc, buffer, served, exited>>
      BY <2>5 DEF Enqueue
    <3>7. TypeOK' BY <3>3, <3>4, <3>5, <3>6 DEF TypeOK
    <3>8. Progress' BY <3>4, <3>5, <3>6 DEF TypeOK, Progress
    <3> QED BY <3>3, <3>6, <3>7, <3>8 DEF WriterHasLine
  <2>6. CASE TestQueue
    BY <2>6 DEF TestQueue, TypeOK, Progress, WriterHasLine, callVars
  <2>7. CASE Dequeue
    <3>1. queue # <<>> /\ buffer' = Head(queue) /\ queue' = Tail(queue)
      BY <2>7 DEF Dequeue, WriterHasLine
    <3>2. buffer' \in Line /\ queue' \in Seq(Line)
      BY <3>1, HeadTailProperties DEF TypeOK
    <3> QED
      BY <2>7, <3>2 DEF Dequeue, TypeOK, Progress, WriterHasLine, callVars
  <2>8. CASE Write
    <3>1. served' \in Seq(Line)
      BY <2>8, AppendProperties DEF Write, TypeOK, WriterHasLine
    <3> QED
      BY <2>8, <3>1 DEF Write, TypeOK, Progress, WriterHasLine, callVars
  <2>9. CASE Second
    BY <2>9, BoundAssumption DEF Second, TypeOK, Time, Progress, WriterHasLine, callVars, logVars
  <2>10. CASE Exit
    BY <2>10 DEF Exit, TypeOK, Progress, WriterHasLine, callVars, logVars
  <2>11. CASE UNCHANGED vars
    BY <2>11 DEF vars, TypeOK, Progress, WriterHasLine, callVars, logVars
  <2> QED
    BY <2>1, <2>2, <2>3, <2>4, <2>5, <2>6, <2>7, <2>8, <2>9, <2>10, <2>11
       DEF Next, Log, Finish, WriterStep
<1> QED
  BY <1>1, <1>2, PTL DEF Spec

\* Every variable of the logger keeps its type.
THEOREM LoggerTypeCorrect == Spec => []TypeOK
BY TypeInvariant, PTL DEF TypeInv

(***************************************************************************)
(* Stamps                                                                  *)
(***************************************************************************)
\* A call under way has read a time no older than what any other such call
\* remembers as the oldest, and so has the struct since the call has filled it.
Overlaps ==
    \A t \in Threads :
        /\ at[t] # "idle" =>
              /\ oldest[t] <= now /\ read[t] <= now
              /\ \A u \in Threads : at[u] # "idle" => oldest[t] <= read[u]
        /\ at[t] = "format" => oldest[t] <= tm /\ tm <= now

StampInv == Overlaps /\ StampRecent

\* The strengthened invariant of the stamps.
LEMMA StampInvariant == Spec => []StampInv
<1>1. Init => StampInv
  BY NothingPrinted DEF Init, StampInv, Overlaps, StampRecent
<1>2. TypeInv /\ StampInv /\ [Next]_vars => StampInv'
  <2> SUFFICES ASSUME TypeInv, StampInv, [Next]_vars PROVE StampInv'
    OBVIOUS
  <2>0. /\ now \in Nat /\ tm \in Nat
        /\ at \in [Threads -> {"idle", "convert", "format", "enqueue"}]
        /\ read \in [Threads -> Nat] /\ oldest \in [Threads -> Nat]
        /\ stamp \in [Threads -> Printed]
        /\ \A t \in Threads : \A p \in DOMAIN stamp[t] : stamp[t][p] \in Nat
        /\ Overlaps /\ StampRecent /\ Progress
    BY BoundAssumption DEF TypeInv, TypeOK, Time, StampInv, Printed
  <2>1. ASSUME NEW t \in Threads, ReadClock(t)
        PROVE  StampInv'
    <3>1. /\ at[t] = "idle" /\ at' = [at EXCEPT ![t] = "convert"]
          /\ read' = [read EXCEPT ![t] = now]
          /\ UNCHANGED <<now, tm, stamp>>
      BY <2>1 DEF ReadClock, Advance
    <3> DEFINE times == {now} \cup {read[u] : u \in {v \in Threads : at[v] # "idle"}}
    <3>2. PICK first \in times : /\ \A time \in times : first <= time
                                 /\ oldest' = [oldest EXCEPT ![t] = first]
      BY <2>1 DEF ReadClock
    <3>3. first \in Nat /\ first <= now
      BY <2>0, <3>2
    <3>4. \A u \in Threads : at[u] # "idle" => first <= read[u]
      BY <3>2
    <3> HIDE DEF times
    <3>5. DOMAIN stamp[t] = {}
      BY <2>0, <3>1 DEF Progress
    <3>6. Overlaps'
      BY <2>0, <3>1, <3>2, <3>3, <3>4 DEF Overlaps
    <3>7. StampRecent'
      BY <2>0, <3>1, <3>2, <3>5 DEF StampRecent
    <3> QED
      BY <3>6, <3>7 DEF StampInv
  <2>2. ASSUME NEW t \in Threads, Convert(t)
        PROVE  StampInv'
    <3>1. /\ at[t] = "convert" /\ at' = [at EXCEPT ![t] = "format"]
          /\ tm' = read[t]
          /\ UNCHANGED <<now, read, stamp, oldest>>
      BY <2>2 DEF Convert, Advance
    <3> QED
      BY <2>0, <3>1 DEF StampInv, Overlaps, StampRecent
  <2>3. ASSUME NEW t \in Threads, FormatPart(t)
        PROVE  StampInv'
    <3>1. /\ at[t] = "format"
          /\ UNCHANGED <<now, tm, at, read, oldest>>
      BY <2>3 DEF FormatPart
    <3>2. PICK p \in Parts : stamp' = [stamp EXCEPT ![t] = With(stamp[t], p)]
      BY <2>0, <2>3 DEF FormatPart
    <3>3. \A q \in DOMAIN With(stamp[t], p) :
             \/ With(stamp[t], p)[q] = tm
             \/ q \in DOMAIN stamp[t] /\ With(stamp[t], p)[q] = stamp[t][q]
      BY <2>0, PartPrinted DEF TypeInv, TypeOK
    <3>4. \A q \in DOMAIN stamp'[t] : oldest[t] <= stamp'[t][q] /\ stamp'[t][q] <= now
      BY <2>0, <3>1, <3>2, <3>3 DEF Overlaps, StampRecent
    <3>5. \A u \in Threads : u # t => stamp'[u] = stamp[u]
      BY <2>0, <3>2
    <3>6. StampRecent'
      BY <2>0, <3>1, <3>4, <3>5 DEF StampRecent
    <3> QED
      BY <2>0, <3>1, <3>6 DEF StampInv, Overlaps
  <2>4. ASSUME NEW t \in Threads, Format(t)
        PROVE  StampInv'
    BY <2>0, <2>4 DEF Format, Advance, StampInv, Overlaps, StampRecent
  <2>5. ASSUME NEW t \in Threads, Enqueue(t)
        PROVE  StampInv'
    <3>1. /\ at' = [at EXCEPT ![t] = "idle"]
          /\ stamp' = [stamp EXCEPT ![t] = <<>>]
          /\ UNCHANGED <<now, tm, read, oldest>>
      BY <2>5 DEF Enqueue, Advance
    <3>2. DOMAIN stamp'[t] = {} /\ \A u \in Threads : u # t => stamp'[u] = stamp[u]
      BY <2>0, <3>1, NothingPrinted
    <3> QED
      BY <2>0, <3>1, <3>2 DEF StampInv, Overlaps, StampRecent
  <2>6. CASE WriterStep
    BY <2>0, <2>6 DEF WriterStep, TestQueue, Dequeue, Write, callVars,
                      StampInv, Overlaps, StampRecent
  <2>7. CASE Second
    <3>1. now' = now + 1 /\ UNCHANGED <<tm, at, read, stamp, oldest>>
      BY <2>7 DEF Second, callVars
    <3> QED
      BY <2>0, <3>1 DEF StampInv, Overlaps, StampRecent
  <2>8. CASE Exit
    BY <2>0, <2>8 DEF Exit, callVars, StampInv, Overlaps, StampRecent
  <2>9. CASE UNCHANGED vars
    BY <2>0, <2>9 DEF vars, callVars, StampInv, Overlaps, StampRecent
  <2> QED
    BY <2>1, <2>2, <2>3, <2>4, <2>5, <2>6, <2>7, <2>8, <2>9 DEF Next, Log, Finish
<1> QED
  BY <1>1, <1>2, TypeInvariant, PTL DEF Spec

\* The writer always holds a line when it writes, and no part of a stamp is
\* older than the oldest call that overlaps, or of the future, although all
\* threads share the struct it is printed from.
THEOREM LoggerSafe == Spec => []Safe
<1>1. NoLine \notin Line
  BY DEF NoLine, Line
<1>2. TypeInv /\ StampInv => Safe
  BY <1>1 DEF TypeInv, WriterHasLine, StampInv, Safe
<1> QED
  BY <1>2, TypeInvariant, StampInvariant, PTL

(***************************************************************************)
(* The queue                                                               *)
(***************************************************************************)
\* Between Dequeue and write(2) one line is in neither the queue nor the file.
Held == IF wpc = "write" THEN <<buffer>> ELSE <<>>

Unwritten == Held \o queue

LinesKept == submitted = served \o Unwritten

\* Taking the front of the queue only moves it into the writer's hands.
LEMMA DequeueMoves ==
  ASSUME TypeInv, Dequeue
  PROVE  Unwritten' = Unwritten
<1>1. queue \in Seq(Line) /\ queue # <<>>
  BY DEF TypeInv, TypeOK, WriterHasLine, Dequeue
<1>2. Unwritten' = <<Head(queue)>> \o Tail(queue)
  BY <1>1 DEF Dequeue, Unwritten, Held
<1>3. Unwritten = queue
  BY <1>1, ConcatEmptySeq DEF Dequeue, Unwritten, Held
<1>4. Len(queue) \in Nat \ {0}
  BY <1>1, EmptySeq
<1>5. SubSeq(queue, 1, Len(queue)) = <<queue[1]>> \o SubSeq(queue, 2, Len(queue))
  BY <1>1, <1>4, SubSeqRecursiveFirst
<1> QED
  BY <1>1, <1>2, <1>3, <1>5, SubSeqFull, TailIsSubSeq

\* What enqueueing a line does to the lines not yet written.
LEMMA EnqueueAppends ==
  ASSUME TypeInv, NEW t \in Threads, Enqueue(t)
  PROVE  \E line \in Line : /\ submitted' = Append(submitted, line)
                            /\ submitted' = submitted \o <<line>>
                            /\ Unwritten' = Unwritten \o <<line>>
<1> DEFINE line == [by |-> t, no |-> count[t], stamp |-> stamp[t]]
<1>1. line \in Line
  BY LineMade DEF Enqueue, Advance
<1>2. /\ queue' = Append(queue, line) /\ submitted' = Append(submitted, line)
      /\ Held' = Held
  BY DEF Enqueue, Held
<1> HIDE DEF line
<1>3. /\ queue \in Seq(Line) /\ submitted \in Seq(Line) /\ <<line>> \in Seq(Line)
      /\ Held \in Seq(Line)
  BY <1>1 DEF TypeInv, TypeOK, WriterHasLine, Held
<1>4. queue' = queue \o <<line>> /\ submitted' = submitted \o <<line>>
  BY <1>1, <1>2, <1>3, AppendIsConcat
<1>5. Held \o (queue \o <<line>>) = (Held \o queue) \o <<line>>
  BY <1>3, ConcatAssociative
<1> QED
  BY <1>1, <1>2, <1>4, <1>5 DEF Unwritten

\* The invariant of the queue: what was enqueued is what was written, then what
\* the writer holds, then what is queued.
LEMMA KeptInvariant == Spec => []LinesKept
<1>1. Init => LinesKept
  BY DEF Init, LinesKept, Unwritten, Held
<1>2. TypeInv /\ LinesKept /\ [Next]_vars => LinesKept'
  <2> SUFFICES ASSUME TypeInv, LinesKept, [Next]_vars PROVE LinesKept'
    OBVIOUS
  <2>0. /\ queue \in Seq(Line) /\ served \in Seq(Line) /\ Held \in Seq(Line)
        /\ Unwritten \in Seq(Line) /\ submitted = served \o Unwritten
    BY ConcatProperties DEF TypeInv, TypeOK, WriterHasLine, LinesKept, Held, Unwritten
  <2>1. ASSUME NEW t \in Threads, Enqueue(t)
        PROVE  LinesKept'
    <3>1. PICK line \in Line : /\ submitted' = submitted \o <<line>>
                               /\ Unwritten' = Unwritten \o <<line>>
      BY <2>1, EnqueueAppends
    <3>2. (served \o Unwritten) \o <<line>> = served \o (Unwritten \o <<line>>)
      BY <2>0, ConcatAssociative
    <3>3. served' = served
      BY <2>1 DEF Enqueue
    <3> QED
      BY <2>0, <3>1, <3>2, <3>3 DEF LinesKept
  <2>2. CASE Dequeue
    BY <2>0, <2>2, DequeueMoves DEF Dequeue, LinesKept
  <2>3. CASE Write
    <3>1. /\ Held = <<buffer>> /\ buffer \in Line
          /\ Held' = <<>> /\ served' = Append(served, buffer)
          /\ UNCHANGED <<queue, submitted>>
      BY <2>3 DEF Write, Held, TypeInv, WriterHasLine
    <3>2. served' = served \o <<buffer>>
      BY <2>0, <3>1, AppendIsConcat
    <3>3. (served \o <<buffer>>) \o queue = served \o (<<buffer>> \o queue)
      BY <2>0, <3>1, ConcatAssociative
    <3>4. Unwritten' = queue
      BY <2>0, <3>1, ConcatEmptySeq DEF Unwritten
    <3> QED
      BY <2>0, <3>1, <3>2, <3>3, <3>4 DEF LinesKept, Unwritten
  <2>4. ASSUME UNCHANGED <<queue, buffer, submitted, served>>,
               (wpc' = "write") = (wpc = "write")
        PROVE  LinesKept'
    BY <2>0, <2>4 DEF LinesKept, Unwritten, Held
  <2>5. ASSUME NEW t \in Threads, Log(t)
        PROVE  LinesKept'
    BY <2>1, <2>4, <2>5 DEF Log, Finish, ReadClock, Convert, FormatPart, Format, logVars
  <2>6. CASE TestQueue
    BY <2>4, <2>6 DEF TestQueue
  <2>7. CASE Second \/ Exit \/ UNCHANGED vars
    BY <2>4, <2>7 DEF Second, Exit, vars, logVars
  <2> QED
    BY <2>2, <2>3, <2>5, <2>6, <2>7 DEF Next, WriterStep
<1> QED
  BY <1>1, <1>2, TypeInvariant, PTL DEF Spec

(***************************************************************************)
(* The refinement                                                          *)
(***************************************************************************)
\* What the writer holds is the line that was enqueued first among those not
\* yet written.
LEMMA HeldIsNext ==
  ASSUME TypeInv, LinesKept, wpc = "write"
  PROVE  /\ Len(served) < Len(submitted)
         /\ submitted[Len(served) + 1] = buffer
<1>1. /\ queue \in Seq(Line) /\ served \in Seq(Line) /\ <<buffer>> \in Seq(Line)
      /\ Unwritten = <<buffer>> \o queue
  BY DEF TypeInv, TypeOK, WriterHasLine, Unwritten, Held
<1>2. /\ Unwritten \in Seq(Line)
      /\ Len(Unwritten) = 1 + Len(queue)
      /\ Unwritten[1] = buffer
      /\ Len(queue) \in Nat /\ Len(served) \in Nat
  BY <1>1, ConcatProperties, LenProperties
<1>3. /\ Len(served \o Unwritten) = Len(served) + Len(Unwritten)
      /\ \A i \in 1 .. Len(served) + Len(Unwritten) :
           (served \o Unwritten)[i] = IF i <= Len(served) THEN served[i]
                                      ELSE Unwritten[i - Len(served)]
  BY <1>1, <1>2, ConcatProperties
<1>4. Len(served) + 1 \in 1 .. Len(served) + Len(Unwritten)
  BY <1>2
<1> QED
  BY <1>2, <1>3, <1>4 DEF LinesKept

\* However the threads and the writer interleave, the log behaves like the
\* abstract FIFO: Enqueue submits a line, write(2) serves the oldest one, and
\* the unlocked test and the unchecked Dequeue before it show nothing.
THEOREM LoggerRefinement == Spec => ImplementsTaskFifo
<1>1. Init => FIFO!Init
  BY DEF Init, FIFO!Init
<1>2. TypeInv /\ LinesKept /\ [Next]_vars => [FIFO!Next]_(FIFO!vars)
  <2> SUFFICES ASSUME TypeInv, LinesKept, [Next]_vars PROVE [FIFO!Next]_(FIFO!vars)
    OBVIOUS
  <2>1. ASSUME NEW t \in Threads, Enqueue(t)
        PROVE  FIFO!Next
    <3>1. PICK line \in Line : submitted' = Append(submitted, line)
      BY <2>1, EnqueueAppends
    <3> QED
      BY <2>1, <3>1 DEF Enqueue, FIFO!Next, FIFO!Submit
  <2>2. CASE Write
    BY <2>2, HeldIsNext DEF Write, FIFO!Next, FIFO!Serve
  <2>3. ASSUME NEW t \in Threads, Log(t)
        PROVE  [FIFO!Next]_(FIFO!vars)
    BY <2>1, <2>3 DEF Log, Finish, ReadClock, Convert, FormatPart, Format, logVars, FIFO!vars
  <2>4. CASE TestQueue \/ Dequeue \/ Second \/ Exit \/ UNCHANGED vars
    BY <2>4 DEF TestQueue, Dequeue, Second, Exit, vars, logVars, FIFO!vars
  <2> QED
    BY <2>2, <2>3, <2>4 DEF Next, WriterStep
<1> QED
  BY <1>1, <1>2, TypeInvariant, KeptInvariant, PTL DEF Spec, ImplementsTaskFifo, FIFO!Spec
=============================================================================
