---------------------------- MODULE ByteStreams -----------------------------
(***************************************************************************)
(* What net::Buffer promises: a queue of bytes per buffer.  Bytes leave in *)
(* the order in which they came in, and none is lost, repeated or invented *)
(* by the compaction or the growth of the storage.                         *)
(***************************************************************************)
EXTENDS Naturals, Sequences

CONSTANTS
    Buffers,
    Chunk,    \* the sequences of bytes that may be written in one call
    Count     \* the numbers of bytes that may be consumed in one call

VARIABLES
    contents,  \* per buffer: the bytes written and not consumed yet
    got        \* what the last Read returned

vars == <<contents, got>>

Init ==
    /\ contents = [b \in Buffers |-> <<>>]
    /\ got = <<>>

Put(b, data) ==
    /\ contents' = [contents EXCEPT ![b] = @ \o data]
    /\ UNCHANGED got

Get(b, n) ==
    /\ n <= Len(contents[b])
    /\ got' = SubSeq(contents[b], 1, n)
    /\ contents' = [contents EXCEPT ![b] = SubSeq(@, n + 1, Len(@))]

\* Giving back more than there is empties the buffer.
Drop(b, n) ==
    /\ contents' = [contents EXCEPT ![b] = SubSeq(@, n + 1, Len(@))]
    /\ UNCHANGED got

Clear(b) ==
    /\ contents' = [contents EXCEPT ![b] = <<>>]
    /\ UNCHANGED got

Exchange(b, c) ==
    /\ contents' = [contents EXCEPT ![b] = contents[c], ![c] = contents[b]]
    /\ UNCHANGED got

Next ==
    \E b \in Buffers :
        \/ \E data \in Chunk : Put(b, data)
        \/ \E n \in Count : Get(b, n) \/ Drop(b, n)
        \/ Clear(b)
        \/ \E c \in Buffers : Exchange(b, c)

Spec == Init /\ [][Next]_vars
=============================================================================
