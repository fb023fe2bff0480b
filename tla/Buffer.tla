------------------------------- MODULE Buffer -------------------------------
(***************************************************************************)
(* net::Buffer: a vector of bytes with a read index and a write index.     *)
(* Room in front of the read index is reclaimed by moving the unread bytes *)
(* forward, and the vector grows by what does not fit after that.  The     *)
(* member functions are operators on a record, the vector's index i being  *)
(* bytes[i + 1]; a step is one call.                                       *)
(***************************************************************************)
EXTENDS Integers, Sequences

CONSTANTS
    Buffers,     \* the buffers of a program (a connection has two)
    Byte,        \* byte values; Zero is what a vector is filled with
    Zero,
    headSize,    \* Buffer::headSize (8)
    initSize,    \* Buffer::initSize (1024)
    ExtraSize,   \* sizeof extrabuf in readfd (65536)
    CopyOrders,  \* how memcpy may go through overlapping memory
    MaxLen,      \* bound: bytes in one Write, or one Read
    MaxBytes     \* bound: size of a vector

ASSUME ByteAssumption == Zero \in Byte

ASSUME SizeAssumption ==
    /\ headSize \in Nat
    /\ initSize \in Nat
    /\ ExtraSize \in Nat
    /\ MaxLen \in Nat
    /\ MaxBytes \in Nat
    /\ headSize + initSize <= MaxBytes

\* memcpy leaves it open how overlapping memory is copied.
ASSUME CopyAssumption == CopyOrders # {} /\ CopyOrders \subseteq {"upwards", "downwards"}

VARIABLES
    buffer,  \* per buffer: the vector and the two indices
    got      \* what the last Read copied out

vars == <<buffer, got>>

Record == [bytes : Seq(Byte), readIndex : Nat, writeIndex : Nat]

\* The indices never cross, the space in front stays reserved, and no index
\* leaves the vector.
Valid(b) ==
    /\ b \in Record
    /\ headSize <= b.readIndex
    /\ b.readIndex <= b.writeIndex
    /\ b.writeIndex <= Len(b.bytes)

TypeOK ==
    /\ \A b \in Buffers : Valid(buffer[b])
    /\ buffer \in [Buffers -> Record]
    /\ got \in Seq(Byte)

\* Buffer(size)
Empty == [bytes |-> [i \in 1 .. headSize + initSize |-> Zero],
          readIndex |-> headSize, writeIndex |-> headSize]

Init ==
    /\ buffer = [b \in Buffers |-> Empty]
    /\ got = <<>>

(***************************************************************************)
(* The member functions                                                    *)
(***************************************************************************)
ReadableBytes(b) == b.writeIndex - b.readIndex

WriteableBytes(b) == Len(b.bytes) - b.writeIndex

\* The unread bytes, from peek() on.
Contents(b) == SubSeq(b.bytes, b.readIndex + 1, b.writeIndex)

\* memcpy of data to index at of a vector that has room for it.
Overwrite(bytes, at, data) ==
    [i \in 1 .. Len(bytes) |->
        IF at < i /\ i <= at + Len(data) THEN data[i - at] ELSE bytes[i]]

\* What ends up at the lower address when `data` is moved down by `shift`.
\* Going upwards every byte is read before it is overwritten.  Going downwards
\* the bytes of the overlap have been replaced by those `shift` further on.
Moved(data, shift, order) ==
    [i \in 1 .. Len(data) |->
        data[IF order = "upwards" THEN i ELSE i + shift * ((Len(data) - i) \div shift)]]

\* Mutant of moveForward: the write index stays where it was.
moveForwardHalf(b, order) ==
    IF b.readIndex = headSize THEN b
    ELSE [b EXCEPT !.bytes = Overwrite(@, headSize,
                                       Moved(Contents(b), b.readIndex - headSize, order)),
                   !.readIndex = headSize]

moveForward(b, order) ==
    IF b.readIndex = headSize THEN b
    ELSE [bytes |-> Overwrite(b.bytes, headSize,
                              Moved(Contents(b), b.readIndex - headSize, order)),
          readIndex |-> headSize,
          writeIndex |-> headSize + ReadableBytes(b)]

\* memcpy of data to the write index of a vector that has room for it.
Store(b, bytes, data) ==
    [bytes |-> Overwrite(bytes, b.writeIndex, data),
     readIndex |-> b.readIndex,
     writeIndex |-> b.writeIndex + Len(data)]

\* Writes what fits and pushes the rest back.
Fill(b, data) ==
    LET room == WriteableBytes(b)
        grown == IF room < Len(data) THEN b.bytes \o SubSeq(data, room + 1, Len(data))
                 ELSE b.bytes
    IN Store(b, grown, data)

\* Mutant of Write: the free space in front is never reclaimed.
WriteBehind(b, data, order) == Fill(b, data)

\* Write(data, len), the end of every WriteX
Write(b, data, order) ==
    Fill(IF WriteableBytes(b) < Len(data) THEN moveForward(b, order) ELSE b, data)

\* Read(byte, len), the end of every ReadX
Read(b, n) == [b EXCEPT !.readIndex = @ + n]

InitAll(b) == [b EXCEPT !.readIndex = headSize, !.writeIndex = headSize]

\* Mutant of recycle: the request is not compared with what is readable.
recycleUnchecked(b, n) == Read(b, n)

recycle(b, n) == IF n < ReadableBytes(b) THEN Read(b, n) ELSE InitAll(b)

\* readfd(fd) when readv delivers `data`: the vector's tail is filled first,
\* and what went to extrabuf is appended with WriteString.
readfd(b, data, order) ==
    LET writable == WriteableBytes(b)
    IN IF Len(data) <= writable
       THEN Store(b, b.bytes, data)
       ELSE Write(Store(b, b.bytes, SubSeq(data, 1, writable)),
                  SubSeq(data, writable + 1, Len(data)), order)

\* How much one readv may deliver: extrabuf is offered only if it is larger
\* than the room in the vector.
Readv(b) ==
    WriteableBytes(b) + (IF WriteableBytes(b) < ExtraSize THEN ExtraSize ELSE 0)

(***************************************************************************)
(* One action per call                                                     *)
(***************************************************************************)
Data == UNION {[1 .. n -> Byte] : n \in 0 .. MaxLen}

WriteData(b) ==
    \E data \in Data, order \in CopyOrders :
        /\ buffer' = [buffer EXCEPT ![b] = Write(@, data, order)]
        /\ Len(buffer'[b].bytes) <= MaxBytes
        /\ UNCHANGED got

\* ReadX asserts that the bytes are there: the caller's obligation.
ReadData(b) ==
    \E n \in 0 .. MaxLen :
        /\ n <= ReadableBytes(buffer[b])
        /\ got' = SubSeq(Contents(buffer[b]), 1, n)
        /\ buffer' = [buffer EXCEPT ![b] = Read(@, n)]

Recycle(b) ==
    \E n \in 0 .. MaxLen :
        /\ buffer' = [buffer EXCEPT ![b] = recycle(@, n)]
        /\ UNCHANGED got

Reset(b) ==
    /\ buffer' = [buffer EXCEPT ![b] = InitAll(@)]
    /\ UNCHANGED got

\* A failing readv (n < 0) leaves the buffer alone, as n = 0 does.
ReadFd(b) ==
    \E data \in Data, order \in CopyOrders :
        /\ Len(data) <= Readv(buffer[b])
        /\ buffer' = [buffer EXCEPT ![b] = readfd(@, data, order)]
        /\ Len(buffer'[b].bytes) <= MaxBytes
        /\ UNCHANGED got

\* Mutant of swap: only the vectors change hands.
swapBytes(b, c) ==
    /\ buffer' = [buffer EXCEPT ![b].bytes = buffer[c].bytes,
                                ![c].bytes = buffer[b].bytes]
    /\ UNCHANGED got

swap(b, c) ==
    /\ buffer' = [buffer EXCEPT ![b] = buffer[c], ![c] = buffer[b]]
    /\ UNCHANGED got

Next ==
    \E b \in Buffers :
        \/ WriteData(b) \/ ReadData(b) \/ Recycle(b) \/ Reset(b) \/ ReadFd(b)
        \/ \E c \in Buffers : swap(b, c)

Spec == Init /\ [][Next]_vars

(***************************************************************************)
(* Properties                                                              *)
(***************************************************************************)
\* The buffers implement queues of bytes: compaction (moveForward), growth,
\* the scattered read through extrabuf and the reset of the indices are
\* invisible to whoever writes and reads.
Streams == INSTANCE ByteStreams
             WITH contents <- [b \in Buffers |-> Contents(buffer[b])],
                  Chunk <- Data, Count <- 0 .. MaxLen
ImplementsByteStreams == Streams!Spec

\* The vector grows only when the unread bytes do not fit without it: after a
\* growth they fill everything behind the reserved head.
GrowsOnlyWhenFull ==
    [][\A b \in Buffers :
          Len(buffer'[b].bytes) > Len(buffer[b].bytes) =>
            \/ \E c \in Buffers : buffer'[b] = buffer[c]
            \/ ReadableBytes(buffer'[b]) = Len(buffer'[b].bytes) - headSize]_vars
=============================================================================
