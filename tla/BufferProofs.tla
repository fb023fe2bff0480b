---------------------------- MODULE BufferProofs ----------------------------
(***************************************************************************)
(* Buffer for every size of the head, the vector and the scratch space.    *)
(***************************************************************************)
EXTENDS Buffer, SequenceTheorems, TLAPS

(***************************************************************************)
(* Lemmas about the member functions                                       *)
(***************************************************************************)
\* The unread bytes of a valid buffer.
LEMMA ContentsProperties ==
  ASSUME NEW b, Valid(b)
  PROVE  /\ Contents(b) \in Seq(Byte)
         /\ Len(Contents(b)) = ReadableBytes(b)
         /\ ReadableBytes(b) \in Nat
         /\ \A i \in 1 .. ReadableBytes(b) : Contents(b)[i] = b.bytes[b.readIndex + i]
<1>1. /\ b.bytes \in Seq(Byte) /\ b.readIndex \in Nat /\ b.writeIndex \in Nat
      /\ Len(b.bytes) \in Nat
      /\ b.readIndex <= b.writeIndex /\ b.writeIndex <= Len(b.bytes)
  BY DEF Valid, Record
<1> DEFINE m == b.readIndex + 1
           n == b.writeIndex
<1>2. m \in Int /\ n \in Int /\ \A i \in m .. n : b.bytes[i] \in Byte
  BY <1>1, ElementOfSeq
<1> HIDE DEF m, n
<1>3. /\ SubSeq(b.bytes, m, n) \in Seq(Byte)
      /\ Len(SubSeq(b.bytes, m, n)) = IF m <= n THEN n - m + 1 ELSE 0
      /\ \A i \in 1 .. n - m + 1 : SubSeq(b.bytes, m, n)[i] = b.bytes[m + i - 1]
  BY <1>2, SubSeqProperties
<1> USE DEF m, n
<1>4. n - m + 1 = b.writeIndex - b.readIndex /\ (m <= n <=> b.readIndex < b.writeIndex)
  BY <1>1
<1>5. \A i \in 1 .. b.writeIndex - b.readIndex : m + i - 1 = b.readIndex + i
  BY <1>1
<1> QED
  BY <1>1, <1>3, <1>4, <1>5 DEF Contents, ReadableBytes

\* memcpy into a vector that has room changes only the bytes it is given.
LEMMA OverwriteProperties ==
  ASSUME NEW bytes \in Seq(Byte), NEW data \in Seq(Byte), NEW at \in Nat,
         at + Len(data) <= Len(bytes)
  PROVE  /\ Overwrite(bytes, at, data) \in Seq(Byte)
         /\ Len(Overwrite(bytes, at, data)) = Len(bytes)
         /\ \A i \in 1 .. Len(bytes) :
              Overwrite(bytes, at, data)[i] =
                IF at < i /\ i <= at + Len(data) THEN data[i - at] ELSE bytes[i]
<1>1. Len(bytes) \in Nat /\ Len(data) \in Nat
  BY LenProperties
<1>2. \A i \in 1 .. Len(bytes) :
        (IF at < i /\ i <= at + Len(data) THEN data[i - at] ELSE bytes[i]) \in Byte
  BY <1>1, ElementOfSeq
<1> QED
  BY <1>1, <1>2 DEF Overwrite

\* Copied upwards, a block arrives as it left.
LEMMA MovedUpwards ==
  ASSUME NEW data \in Seq(Byte), NEW shift
  PROVE  Moved(data, shift, "upwards") = data
<1>1. Moved(data, shift, "upwards") = [i \in 1 .. Len(data) |-> data[i]]
  BY DEF Moved
<1> QED
  BY <1>1, LenProperties

\* In either direction what arrives is made of bytes of the block.
LEMMA MovedType ==
  ASSUME NEW data \in Seq(Byte), NEW shift \in Nat \ {0}, NEW order
  PROVE  /\ Moved(data, shift, order) \in Seq(Byte)
         /\ Len(Moved(data, shift, order)) = Len(data)
<1>1. Len(data) \in Nat
  BY LenProperties
<1>2. ASSUME NEW i \in 1 .. Len(data)
      PROVE  i + shift * ((Len(data) - i) \div shift) \in 1 .. Len(data)
  <2>1. Len(data) - i \in Nat
    BY <1>1
  <2>2. \A a \in Nat : shift * (a \div shift) \in 0 .. a
    OBVIOUS
  <2> QED
    BY <1>1, <2>1, <2>2
<1>3. \A i \in 1 .. Len(data) :
        data[IF order = "upwards" THEN i
             ELSE i + shift * ((Len(data) - i) \div shift)] \in Byte
  BY <1>2, ElementOfSeq
<1> QED
  BY <1>1, <1>3 DEF Moved

\* Compaction keeps the unread bytes when memcpy goes upwards, and in any case
\* reclaims all the room in front of them without touching the vector's size.
LEMMA moveForwardProperties ==
  ASSUME SizeAssumption, NEW b, Valid(b), NEW order
  PROVE  LET m == moveForward(b, order) IN
         /\ Valid(m)
         /\ Len(m.bytes) = Len(b.bytes)
         /\ m.readIndex = headSize
         /\ ReadableBytes(m) = ReadableBytes(b)
         /\ order = "upwards" => Contents(m) = Contents(b)
<1> DEFINE m == moveForward(b, order)
           shift == b.readIndex - headSize
           block == Moved(Contents(b), shift, order)
<1> USE SizeAssumption
<1>0. /\ b \in Record /\ b.bytes \in Seq(Byte) /\ b.readIndex \in Nat /\ b.writeIndex \in Nat
      /\ Len(b.bytes) \in Nat /\ headSize <= b.readIndex
      /\ b.readIndex <= b.writeIndex /\ b.writeIndex <= Len(b.bytes)
  BY DEF Valid, Record
<1>1. CASE b.readIndex = headSize
  BY <1>0, <1>1 DEF moveForward, Valid
<1>2. CASE b.readIndex # headSize
  <2>1. shift \in Nat \ {0} /\ ReadableBytes(b) \in Nat /\ Contents(b) \in Seq(Byte)
        /\ Len(Contents(b)) = ReadableBytes(b)
    BY <1>0, <1>2, ContentsProperties
  <2>2. block \in Seq(Byte) /\ Len(block) = ReadableBytes(b)
    BY <2>1, MovedType
  <2> HIDE DEF block, shift
  <2>3. m = [bytes |-> Overwrite(b.bytes, headSize, block),
             readIndex |-> headSize, writeIndex |-> headSize + ReadableBytes(b)]
    BY <1>2 DEF moveForward, block, shift
  <2>4. headSize + Len(block) <= Len(b.bytes)
    BY <1>0, <2>2 DEF ReadableBytes
  <2>5. /\ m.bytes \in Seq(Byte) /\ Len(m.bytes) = Len(b.bytes)
        /\ \A i \in 1 .. Len(b.bytes) :
              m.bytes[i] = IF headSize < i /\ i <= headSize + Len(block)
                           THEN block[i - headSize] ELSE b.bytes[i]
    BY <1>0, <2>2, <2>3, <2>4, OverwriteProperties
  <2>6. m.readIndex = headSize /\ m.writeIndex = headSize + ReadableBytes(b)
    BY <2>3
  <2> HIDE DEF m
  <2>7. Valid(m) /\ ReadableBytes(m) = ReadableBytes(b)
    <3>1. m \in Record
      BY <2>1, <2>3, <2>5 DEF Record
    <3> QED
      BY <3>1, <2>1, <2>2, <2>4, <2>5, <2>6 DEF Valid, ReadableBytes
  <2>8. Contents(m) = block
    <3>1. /\ Contents(m) \in Seq(Byte) /\ Len(Contents(m)) = Len(block)
          /\ \A i \in 1 .. Len(block) : Contents(m)[i] = m.bytes[headSize + i]
      BY <2>2, <2>6, <2>7, ContentsProperties
    <3>2. \A i \in 1 .. Len(block) :
            /\ headSize + i \in 1 .. Len(b.bytes)
            /\ headSize < headSize + i /\ headSize + i <= headSize + Len(block)
            /\ (headSize + i) - headSize = i
      BY <1>0, <2>1, <2>2, <2>4
    <3>3. \A i \in 1 .. Len(block) : Contents(m)[i] = block[i]
      BY <2>5, <3>1, <3>2
    <3> QED
      BY <2>2, <3>1, <3>3, SeqEqual
  <2>9. order = "upwards" => block = Contents(b)
    BY <2>1, MovedUpwards DEF block
  <2> QED
    BY <2>5, <2>6, <2>7, <2>8, <2>9 DEF m
<1> QED
  BY <1>1, <1>2

\* Data placed behind the write index are appended to the contents; this is
\* what Fill does with its grown vector and readfd with the vector's tail.
LEMMA StoreProperties ==
  ASSUME SizeAssumption, NEW b, Valid(b), NEW bytes \in Seq(Byte), NEW data \in Seq(Byte),
         b.writeIndex + Len(data) <= Len(bytes), Len(b.bytes) <= Len(bytes),
         \A i \in 1 .. Len(b.bytes) : bytes[i] = b.bytes[i]
  PROVE  /\ Valid(Store(b, bytes, data))
         /\ Len(Store(b, bytes, data).bytes) = Len(bytes)
         /\ Contents(Store(b, bytes, data)) = Contents(b) \o data
<1> DEFINE a == Store(b, bytes, data)
<1> USE SizeAssumption
<1>0. /\ b \in Record /\ b.bytes \in Seq(Byte) /\ b.readIndex \in Nat /\ b.writeIndex \in Nat
      /\ Len(b.bytes) \in Nat /\ Len(bytes) \in Nat /\ Len(data) \in Nat
      /\ headSize <= b.readIndex
      /\ b.readIndex <= b.writeIndex /\ b.writeIndex <= Len(b.bytes)
  BY DEF Valid, Record
<1>1. /\ Overwrite(bytes, b.writeIndex, data) \in Seq(Byte)
      /\ Len(Overwrite(bytes, b.writeIndex, data)) = Len(bytes)
      /\ \A i \in 1 .. Len(bytes) :
            Overwrite(bytes, b.writeIndex, data)[i] =
              IF b.writeIndex < i /\ i <= b.writeIndex + Len(data)
              THEN data[i - b.writeIndex] ELSE bytes[i]
  BY <1>0, OverwriteProperties
<1>2. /\ a \in Record
      /\ a.bytes = Overwrite(bytes, b.writeIndex, data)
      /\ a.readIndex = b.readIndex
      /\ a.writeIndex = b.writeIndex + Len(data)
  BY <1>0, <1>1 DEF Record, Store
<1> HIDE DEF a
<1>3. Valid(a) /\ Len(a.bytes) = Len(bytes)
  BY <1>0, <1>1, <1>2 DEF Valid
<1>4. Contents(a) = Contents(b) \o data
  <2>1. /\ Contents(a) \in Seq(Byte) /\ Len(Contents(a)) = ReadableBytes(a)
        /\ \A i \in 1 .. ReadableBytes(a) : Contents(a)[i] = a.bytes[a.readIndex + i]
    BY <1>3, ContentsProperties
  <2>2. /\ Contents(b) \in Seq(Byte) /\ Len(Contents(b)) = ReadableBytes(b)
        /\ ReadableBytes(b) \in Nat
        /\ \A i \in 1 .. ReadableBytes(b) : Contents(b)[i] = b.bytes[b.readIndex + i]
    BY ContentsProperties
  <2>3. ReadableBytes(a) = ReadableBytes(b) + Len(data)
        /\ b.readIndex + ReadableBytes(b) = b.writeIndex
    BY <1>0, <1>2 DEF ReadableBytes
  <2>4. /\ Contents(b) \o data \in Seq(Byte)
        /\ Len(Contents(b) \o data) = ReadableBytes(b) + Len(data)
        /\ \A i \in 1 .. ReadableBytes(b) + Len(data) : (Contents(b) \o data)[i] =
              IF i <= ReadableBytes(b) THEN Contents(b)[i] ELSE data[i - ReadableBytes(b)]
    <3>1. /\ Contents(b) \o data \in Seq(Byte)
          /\ Len(Contents(b) \o data) = Len(Contents(b)) + Len(data)
          /\ \A i \in 1 .. Len(Contents(b)) + Len(data) : (Contents(b) \o data)[i] =
                IF i <= Len(Contents(b)) THEN Contents(b)[i] ELSE data[i - Len(Contents(b))]
      <4>1. Contents(b) \in Seq(Byte)
        BY <2>2
      <4> QED
        BY <4>1, ConcatProperties
    <3> QED
      BY <2>2, <3>1
  <2>5. ASSUME NEW i \in 1 .. ReadableBytes(b) + Len(data)
        PROVE  Contents(a)[i] = (Contents(b) \o data)[i]
    <3>1. b.readIndex + i \in 1 .. Len(bytes) /\ Contents(a)[i] = a.bytes[b.readIndex + i]
      <4>1. i \in 1 .. ReadableBytes(a) /\ ReadableBytes(b) \in Nat
        BY <1>0, <2>2, <2>3
      <4>2. b.readIndex + i \in 1 .. Len(bytes)
        BY <1>0, <2>2, <2>3
      <4> QED
        BY <1>2, <2>1, <4>1, <4>2
    <3>2. CASE i <= ReadableBytes(b)
      <4>1. ~(b.writeIndex < b.readIndex + i) /\ b.readIndex + i \in 1 .. Len(b.bytes)
        BY <1>0, <2>2, <2>3, <3>2
      <4>2. a.bytes[b.readIndex + i] = b.bytes[b.readIndex + i]
        BY <1>1, <1>2, <3>1, <4>1
      <4> QED
        BY <2>2, <2>4, <3>1, <3>2, <4>2
    <3>3. CASE ~(i <= ReadableBytes(b))
      <4>1. /\ b.writeIndex < b.readIndex + i /\ b.readIndex + i <= b.writeIndex + Len(data)
            /\ (b.readIndex + i) - b.writeIndex = i - ReadableBytes(b)
        BY <1>0, <2>2, <2>3, <3>3
      <4>2. a.bytes[b.readIndex + i] = data[i - ReadableBytes(b)]
        BY <1>1, <1>2, <3>1, <4>1
      <4> QED
        BY <2>4, <3>1, <3>3, <4>2
    <3> QED
      BY <3>2, <3>3
  <2> QED
    BY <2>1, <2>3, <2>4, <2>5, SeqEqual
<1> QED
  BY <1>3, <1>4 DEF a

\* Fill appends, and the vector grows by exactly what did not fit.
LEMMA FillProperties ==
  ASSUME SizeAssumption, NEW b, Valid(b), NEW data \in Seq(Byte)
  PROVE  /\ Valid(Fill(b, data))
         /\ Contents(Fill(b, data)) = Contents(b) \o data
<1> DEFINE room == WriteableBytes(b)
           rest == SubSeq(data, room + 1, Len(data))
           grown == IF room < Len(data) THEN b.bytes \o rest ELSE b.bytes
<1>0. /\ b.bytes \in Seq(Byte) /\ b.writeIndex \in Nat /\ b.writeIndex <= Len(b.bytes)
      /\ Len(b.bytes) \in Nat /\ Len(data) \in Nat
      /\ room \in Nat /\ room = Len(b.bytes) - b.writeIndex
  BY DEF Valid, Record, WriteableBytes
<1> HIDE DEF room
<1>1. /\ grown \in Seq(Byte) /\ Len(b.bytes) <= Len(grown)
      /\ b.writeIndex + Len(data) <= Len(grown)
      /\ \A i \in 1 .. Len(b.bytes) : grown[i] = b.bytes[i]
  <2>1. CASE room < Len(data)
    <3>1. room + 1 \in Int /\ Len(data) \in Int
          /\ \A i \in room + 1 .. Len(data) : data[i] \in Byte
      BY <1>0, ElementOfSeq
    <3>2. rest \in Seq(Byte) /\ Len(rest) = Len(data) - room
      BY <1>0, <2>1, <3>1, SubSeqProperties
    <3> HIDE DEF rest
    <3>3. /\ b.bytes \o rest \in Seq(Byte)
          /\ Len(b.bytes \o rest) = Len(b.bytes) + Len(rest)
          /\ \A i \in 1 .. Len(b.bytes) + Len(rest) : (b.bytes \o rest)[i] =
                IF i <= Len(b.bytes) THEN b.bytes[i] ELSE rest[i - Len(b.bytes)]
      BY <1>0, <3>2, ConcatProperties
    <3>4. grown = b.bytes \o rest
      BY <2>1
    <3> HIDE DEF grown
    <3> QED
      BY <1>0, <2>1, <3>2, <3>3, <3>4
  <2>2. CASE ~(room < Len(data))
    BY <1>0, <2>2
  <2> QED
    BY <2>1, <2>2
<1>2. Fill(b, data) = Store(b, grown, data)
  BY DEF Fill, room
<1> HIDE DEF grown
<1> QED
  BY <1>1, <1>2, StoreProperties

\* Write appends; which way memcpy went matters only if the unread bytes had
\* to be moved.
LEMMA WriteProperties ==
  ASSUME SizeAssumption, NEW b, Valid(b), NEW data \in Seq(Byte), NEW order
  PROVE  /\ Valid(Write(b, data, order))
         /\ order = "upwards" => Contents(Write(b, data, order)) = Contents(b) \o data
<1> DEFINE m == IF WriteableBytes(b) < Len(data) THEN moveForward(b, order) ELSE b
<1>1. Valid(m) /\ (order = "upwards" => Contents(m) = Contents(b))
  BY moveForwardProperties
<1>2. Write(b, data, order) = Fill(m, data)
  BY DEF Write
<1> HIDE DEF m
<1> QED
  BY <1>1, <1>2, FillProperties

\* The two halves of a sequence.
LEMMA SplitProperties ==
  ASSUME NEW data \in Seq(Byte), NEW n \in 0 .. Len(data)
  PROVE  /\ SubSeq(data, 1, n) \in Seq(Byte) /\ Len(SubSeq(data, 1, n)) = n
         /\ SubSeq(data, n + 1, Len(data)) \in Seq(Byte)
         /\ SubSeq(data, 1, n) \o SubSeq(data, n + 1, Len(data)) = data
<1>1. Len(data) \in Nat /\ n \in Nat /\ n <= Len(data)
  BY LenProperties
<1>2. 1 \in Int /\ n \in Int /\ \A i \in 1 .. n : data[i] \in Byte
  BY <1>1, ElementOfSeq
<1>3. SubSeq(data, 1, n) \in Seq(Byte) /\ Len(SubSeq(data, 1, n)) = n
  BY <1>1, <1>2, SubSeqProperties
<1>4. n + 1 \in Int /\ Len(data) \in Int /\ \A i \in n + 1 .. Len(data) : data[i] \in Byte
  BY <1>1, ElementOfSeq
<1>5. SubSeq(data, n + 1, Len(data)) \in Seq(Byte)
  BY <1>4, SubSeqProperties
<1> DEFINE one == 1
           l == Len(data)
<1>6. one \in 1 .. Len(data) + 1 /\ n \in one - 1 .. Len(data) /\ l \in n .. Len(data)
  BY <1>1
<1> HIDE DEF one, l
<1>7. SubSeq(data, one, n) \o SubSeq(data, n + 1, l) = SubSeq(data, one, l)
  BY <1>6, ConcatAdjacentSubSeq
<1> USE DEF one, l
<1> QED
  BY <1>3, <1>5, <1>7, SubSeqFull

\* The scattered read appends too, whether or not extrabuf was needed.
LEMMA readfdProperties ==
  ASSUME SizeAssumption, NEW b, Valid(b), NEW data \in Seq(Byte), NEW order
  PROVE  /\ Valid(readfd(b, data, order))
         /\ order = "upwards" => Contents(readfd(b, data, order)) = Contents(b) \o data
<1> DEFINE writable == WriteableBytes(b)
<1>0. /\ b.bytes \in Seq(Byte) /\ b.writeIndex \in Nat /\ Len(b.bytes) \in Nat
      /\ Len(data) \in Nat /\ writable \in Nat /\ b.writeIndex + writable = Len(b.bytes)
  BY DEF Valid, Record, WriteableBytes
<1> HIDE DEF writable
<1>1. CASE Len(data) <= writable
  <2>1. b.writeIndex + Len(data) <= Len(b.bytes) /\ Len(b.bytes) <= Len(b.bytes)
    BY <1>0, <1>1
  <2>2. readfd(b, data, order) = Store(b, b.bytes, data)
    BY <1>1 DEF readfd, writable
  <2>3. b.bytes \in Seq(Byte)
    BY <1>0
  <2> QED
    BY <2>1, <2>2, <2>3, StoreProperties
<1>2. CASE ~(Len(data) <= writable)
  <2> DEFINE front == SubSeq(data, 1, writable)
             rest == SubSeq(data, writable + 1, Len(data))
             first == Store(b, b.bytes, front)
  <2>1. writable \in 0 .. Len(data)
    BY <1>0, <1>2
  <2>2. /\ front \in Seq(Byte) /\ Len(front) = writable
        /\ rest \in Seq(Byte) /\ front \o rest = data
    BY <2>1, SplitProperties
  <2>3. readfd(b, data, order) = Write(Store(b, b.bytes, front), rest, order)
    BY <1>2 DEF readfd, writable
  <2> HIDE DEF front, rest
  <2>4. Valid(first) /\ Contents(first) = Contents(b) \o front
    <3>1. b.writeIndex + Len(front) <= Len(b.bytes) /\ Len(b.bytes) <= Len(b.bytes)
      BY <1>0, <2>2
    <3>2. b.bytes \in Seq(Byte) /\ front \in Seq(Byte)
      BY <1>0, <2>2
    <3> QED
      BY <3>1, <3>2, StoreProperties
  <2>5. /\ Valid(readfd(b, data, order))
        /\ order = "upwards" =>
             Contents(readfd(b, data, order)) = (Contents(b) \o front) \o rest
    <3> HIDE DEF first
    <3>1. rest \in Seq(Byte)
      BY <2>2
    <3>2. /\ Valid(Write(first, rest, order))
          /\ order = "upwards" => Contents(Write(first, rest, order)) = Contents(first) \o rest
      BY <3>1, <2>4, WriteProperties
    <3>3. readfd(b, data, order) = Write(first, rest, order)
      BY <2>3 DEF first
    <3> QED
      BY <2>4, <3>2, <3>3
  <2>6. Contents(b) \in Seq(Byte) /\ front \in Seq(Byte) /\ rest \in Seq(Byte)
    BY <2>2, ContentsProperties
  <2>7. (Contents(b) \o front) \o rest = Contents(b) \o (front \o rest)
    BY <2>6, ConcatAssociative
  <2> QED
    BY <2>2, <2>5, <2>7
<1> QED
  BY <1>1, <1>2

\* Consuming n readable bytes removes the first n.
LEMMA ReadProperties ==
  ASSUME NEW b, Valid(b), NEW n \in Nat, n <= ReadableBytes(b)
  PROVE  /\ Valid(Read(b, n))
         /\ Contents(Read(b, n)) = SubSeq(Contents(b), n + 1, Len(Contents(b)))
<1>0. /\ b \in Record /\ b.bytes \in Seq(Byte) /\ b.readIndex \in Nat /\ b.writeIndex \in Nat
      /\ Len(b.bytes) \in Nat /\ headSize <= b.readIndex
      /\ b.readIndex <= b.writeIndex /\ b.writeIndex <= Len(b.bytes)
  BY DEF Valid, Record
<1> DEFINE r == Read(b, n)
<1>1. /\ r \in Record /\ r.bytes = b.bytes
      /\ r.readIndex = b.readIndex + n /\ r.writeIndex = b.writeIndex
  BY <1>0 DEF Read, Record
<1> HIDE DEF r
<1>2. Valid(r) /\ ReadableBytes(r) = ReadableBytes(b) - n
  <2>1. b.readIndex + n <= b.writeIndex
    BY <1>0 DEF ReadableBytes
  <2>2. headSize <= b.readIndex + n
    BY <1>0, SizeAssumption
  <2> QED
    BY <1>0, <1>1, <2>1, <2>2 DEF Valid, ReadableBytes
<1>3. /\ Contents(b) \in Seq(Byte) /\ Len(Contents(b)) = ReadableBytes(b)
      /\ ReadableBytes(b) \in Nat
      /\ \A i \in 1 .. ReadableBytes(b) : Contents(b)[i] = b.bytes[b.readIndex + i]
  BY ContentsProperties
<1>4. /\ Contents(r) \in Seq(Byte) /\ Len(Contents(r)) = ReadableBytes(r)
      /\ \A i \in 1 .. ReadableBytes(r) : Contents(r)[i] = r.bytes[r.readIndex + i]
  BY <1>2, ContentsProperties
<1> DEFINE c == Contents(b)
           m == n + 1
           l == Len(Contents(b))
           s == SubSeq(c, m, l)
<1>5. /\ s \in Seq(Byte) /\ Len(s) = ReadableBytes(b) - n
      /\ \A i \in 1 .. ReadableBytes(b) - n : s[i] = c[n + i]
  <2>1. m \in Int /\ l \in Int /\ (\A i \in m .. l : c[i] \in Byte)
    BY <1>3, ElementOfSeq
  <2>2. l = ReadableBytes(b) /\ m = n + 1
    BY <1>3
  <2> HIDE DEF c, m, l
  <2>3. /\ s \in Seq(Byte) /\ Len(s) = IF m <= l THEN l - m + 1 ELSE 0
        /\ \A i \in 1 .. l - m + 1 : s[i] = c[m + i - 1]
    BY <2>1, SubSeqProperties
  <2> HIDE DEF s
  <2>4. \A i \in 1 .. ReadableBytes(b) - n : m + i - 1 = n + i
    BY <2>2
  <2> QED
    BY <1>3, <2>2, <2>3, <2>4
<1> HIDE DEF s
<1>6. \A i \in 1 .. ReadableBytes(b) - n : Contents(r)[i] = s[i]
  <2> TAKE i \in 1 .. ReadableBytes(b) - n
  <2>1. n + i \in 1 .. ReadableBytes(b) /\ (b.readIndex + n) + i = b.readIndex + (n + i)
    BY <1>0, <1>3
  <2> QED
    BY <1>1, <1>2, <1>3, <1>4, <1>5, <2>1
<1>7. Contents(r) = s
  BY <1>2, <1>4, <1>5, <1>6, SeqEqual
<1> QED
  BY <1>2, <1>7 DEF r, s

\* Starting over empties the buffer.
LEMMA InitAllProperties ==
  ASSUME SizeAssumption, NEW b, Valid(b)
  PROVE  Valid(InitAll(b)) /\ Contents(InitAll(b)) = <<>>
<1> DEFINE a == InitAll(b)
<1>1. /\ b \in Record /\ b.bytes \in Seq(Byte) /\ Len(b.bytes) \in Nat
      /\ headSize <= b.readIndex /\ b.readIndex <= b.writeIndex
      /\ b.writeIndex <= Len(b.bytes) /\ b.readIndex \in Nat /\ b.writeIndex \in Nat
  BY DEF Valid, Record
<1>2. /\ a \in Record /\ a.bytes = b.bytes
      /\ a.readIndex = headSize /\ a.writeIndex = headSize
  BY <1>1, SizeAssumption DEF InitAll, Record
<1> HIDE DEF a
<1>3. Valid(a)
  BY <1>1, <1>2, SizeAssumption DEF Valid
<1>4. headSize + 1 \in Int /\ headSize \in Int /\ headSize < headSize + 1
  BY SizeAssumption
<1>5. SubSeq(a.bytes, headSize + 1, headSize) = <<>>
  BY <1>4, SubSeqEmpty
<1> QED
  BY <1>2, <1>3, <1>5 DEF Contents, a

\* Recycling drops the first n bytes, or all of them.
LEMMA recycleProperties ==
  ASSUME SizeAssumption, NEW b, Valid(b), NEW n \in Nat
  PROVE  /\ Valid(recycle(b, n))
         /\ Contents(recycle(b, n)) = SubSeq(Contents(b), n + 1, Len(Contents(b)))
<1>1. ReadableBytes(b) \in Nat /\ Len(Contents(b)) = ReadableBytes(b)
  BY ContentsProperties
<1>2. CASE n < ReadableBytes(b)
  BY <1>1, <1>2, ReadProperties DEF recycle
<1>3. CASE ~(n < ReadableBytes(b))
  <2>1. SubSeq(Contents(b), n + 1, Len(Contents(b))) = <<>>
    <3>1. n + 1 \in Int /\ Len(Contents(b)) \in Int /\ Len(Contents(b)) < n + 1
      BY <1>1, <1>3
    <3> QED
      BY <3>1, SubSeqEmpty
  <2> QED
    BY <1>3, <2>1, InitAllProperties DEF recycle
<1> QED
  BY <1>2, <1>3

(***************************************************************************)
(* Theorems about every sequence of calls                                  *)
(***************************************************************************)
\* What a call is given.
LEMMA DataType == \A data \in Data : data \in Seq(Byte)
BY SizeAssumption DEF Data

\* What Read copies out are bytes.
LEMMA GotType ==
  ASSUME NEW b, Valid(b), NEW n \in Nat, n <= ReadableBytes(b)
  PROVE  SubSeq(Contents(b), 1, n) \in Seq(Byte)
<1>1. /\ Contents(b) \in Seq(Byte) /\ Len(Contents(b)) = ReadableBytes(b)
      /\ ReadableBytes(b) \in Nat
  BY ContentsProperties
<1>2. n \in 0 .. Len(Contents(b))
  BY <1>1
<1> QED
  BY <1>1, <1>2, SplitProperties

\* Replacing one valid buffer by another keeps the type.
LEMMA UpdateType ==
  ASSUME TypeOK, NEW b \in Buffers, NEW r, Valid(r),
         buffer' = [buffer EXCEPT ![b] = r], got' \in Seq(Byte)
  PROVE  TypeOK'
BY DEF TypeOK, Valid

\* No sequence of calls makes the indices cross, eats into the reserved head
\* or moves an index out of the vector, in whatever order memcpy copies.
THEOREM BufferTypeCorrect == Spec => []TypeOK
<1> USE SizeAssumption
<1>1. Init => TypeOK
  <2>1. Empty.bytes \in Seq(Byte) /\ Len(Empty.bytes) = headSize + initSize
    BY ByteAssumption DEF Empty
  <2>2. Valid(Empty)
    BY <2>1 DEF Empty, Valid, Record
  <2> QED
    BY <2>2 DEF Init, TypeOK, Valid
<1>2. TypeOK /\ [Next]_vars => TypeOK'
  <2> SUFFICES ASSUME TypeOK, [Next]_vars PROVE TypeOK'
    OBVIOUS
  <2>0. got \in Seq(Byte) /\ \A b \in Buffers : Valid(buffer[b])
    BY DEF TypeOK
  <2>1. ASSUME NEW b \in Buffers, WriteData(b) PROVE TypeOK'
    <3>1. PICK data \in Data, order \in CopyOrders :
            buffer' = [buffer EXCEPT ![b] = Write(buffer[b], data, order)]
      BY <2>1 DEF WriteData
    <3>2. Valid(Write(buffer[b], data, order))
      BY <2>0, DataType, WriteProperties
    <3> QED
      BY <2>0, <2>1, <3>1, <3>2, UpdateType DEF WriteData
  <2>2. ASSUME NEW b \in Buffers, ReadData(b) PROVE TypeOK'
    <3>1. PICK n \in 0 .. MaxLen :
            /\ n <= ReadableBytes(buffer[b])
            /\ got' = SubSeq(Contents(buffer[b]), 1, n)
            /\ buffer' = [buffer EXCEPT ![b] = Read(buffer[b], n)]
      BY <2>2 DEF ReadData
    <3>2. Valid(Read(buffer[b], n)) /\ got' \in Seq(Byte)
      BY <2>0, <3>1, ReadProperties, GotType
    <3> QED
      BY <3>1, <3>2, UpdateType
  <2>3. ASSUME NEW b \in Buffers, Recycle(b) PROVE TypeOK'
    <3>1. PICK n \in 0 .. MaxLen : buffer' = [buffer EXCEPT ![b] = recycle(buffer[b], n)]
      BY <2>3 DEF Recycle
    <3>2. Valid(recycle(buffer[b], n))
      BY <2>0, recycleProperties
    <3> QED
      BY <2>0, <2>3, <3>1, <3>2, UpdateType DEF Recycle
  <2>4. ASSUME NEW b \in Buffers, Reset(b) PROVE TypeOK'
    <3>1. Valid(InitAll(buffer[b]))
      BY <2>0, InitAllProperties
    <3> QED
      BY <2>0, <2>4, <3>1, UpdateType DEF Reset
  <2>5. ASSUME NEW b \in Buffers, ReadFd(b) PROVE TypeOK'
    <3>1. PICK data \in Data, order \in CopyOrders :
            buffer' = [buffer EXCEPT ![b] = readfd(buffer[b], data, order)]
      BY <2>5 DEF ReadFd
    <3>2. Valid(readfd(buffer[b], data, order))
      BY <2>0, DataType, readfdProperties
    <3> QED
      BY <2>0, <2>5, <3>1, <3>2, UpdateType DEF ReadFd
  <2>6. ASSUME NEW b \in Buffers, NEW c \in Buffers, swap(b, c) PROVE TypeOK'
    BY <2>0, <2>6 DEF swap, TypeOK, Valid
  <2>7. CASE UNCHANGED vars
    BY <2>7 DEF vars, TypeOK, Valid
  <2> QED
    BY <2>1, <2>2, <2>3, <2>4, <2>5, <2>6, <2>7 DEF Next
<1> QED
  BY <1>1, <1>2, PTL DEF Spec

\* What the streams show of one buffer's update.
LEMMA UpdateContents ==
  ASSUME TypeOK, NEW b \in Buffers, NEW r, buffer' = [buffer EXCEPT ![b] = r]
  PROVE  [x \in Buffers |-> Contents(buffer'[x])] =
           [[x \in Buffers |-> Contents(buffer[x])] EXCEPT ![b] = Contents(r)]
BY DEF TypeOK

\* If memcpy copies upwards the buffers are queues of bytes: compaction, growth
\* and the scattered read are invisible, for every size of the head, the vector
\* and the scratch space.
THEOREM BufferRefinement ==
  ASSUME CopyOrders = {"upwards"}
  PROVE  Spec => ImplementsByteStreams
<1> USE SizeAssumption
<1> DEFINE contents == [x \in Buffers |-> Contents(buffer[x])]
<1>1. Init => Streams!Init
  <2> SUFFICES ASSUME Init PROVE Streams!Init
    OBVIOUS
  <2>1. Contents(Empty) = <<>>
    <3>1. headSize + 1 \in Int /\ headSize \in Int /\ headSize < headSize + 1
      OBVIOUS
    <3>2. SubSeq(Empty.bytes, headSize + 1, headSize) = <<>>
      BY <3>1, SubSeqEmpty
    <3> QED
      BY <3>2 DEF Contents, Empty
  <2> QED
    BY <2>1 DEF Init, Streams!Init
<1>2. TypeOK /\ [Next]_vars => [Streams!Next]_(Streams!vars)
  <2> SUFFICES ASSUME TypeOK, [Next]_vars PROVE [Streams!Next]_(Streams!vars)
    OBVIOUS
  <2>0. \A b \in Buffers : Valid(buffer[b]) /\ contents[b] = Contents(buffer[b])
    BY DEF TypeOK
  <2>1. ASSUME NEW b \in Buffers, NEW data \in Data, NEW r, UNCHANGED got,
               buffer' = [buffer EXCEPT ![b] = r],
               Contents(r) = Contents(buffer[b]) \o data
        PROVE  Streams!Next
    <3>1. contents' = [contents EXCEPT ![b] = contents[b] \o data]
      BY <2>0, <2>1, UpdateContents
    <3> QED
      BY <2>1, <3>1 DEF Streams!Next, Streams!Put
  <2>2. ASSUME NEW b \in Buffers, WriteData(b) PROVE Streams!Next
    <3>1. PICK data \in Data, order \in CopyOrders :
            buffer' = [buffer EXCEPT ![b] = Write(buffer[b], data, order)]
      BY <2>2 DEF WriteData
    <3>2. Contents(Write(buffer[b], data, order)) = Contents(buffer[b]) \o data
      BY <2>0, DataType, WriteProperties
    <3> QED
      BY <2>1, <2>2, <3>1, <3>2 DEF WriteData
  <2>3. ASSUME NEW b \in Buffers, ReadFd(b) PROVE Streams!Next
    <3>1. PICK data \in Data, order \in CopyOrders :
            buffer' = [buffer EXCEPT ![b] = readfd(buffer[b], data, order)]
      BY <2>3 DEF ReadFd
    <3>2. Contents(readfd(buffer[b], data, order)) = Contents(buffer[b]) \o data
      BY <2>0, DataType, readfdProperties
    <3> QED
      BY <2>1, <2>3, <3>1, <3>2 DEF ReadFd
  <2>a. ASSUME NEW b \in Buffers, NEW n, NEW r, buffer' = [buffer EXCEPT ![b] = r],
               Contents(r) = SubSeq(Contents(buffer[b]), n + 1, Len(Contents(buffer[b])))
        PROVE  contents' = [contents EXCEPT ![b] =
                              SubSeq(contents[b], n + 1, Len(contents[b]))]
    <3>1. contents' = [contents EXCEPT ![b] = Contents(r)]
      BY <2>a, UpdateContents
    <3>2. contents[b] = Contents(buffer[b])
      BY <2>0
    <3> QED
      BY <2>a, <3>1, <3>2
  <2>4. ASSUME NEW b \in Buffers, ReadData(b) PROVE Streams!Next
    <3>1. PICK n \in 0 .. MaxLen :
            /\ n <= ReadableBytes(buffer[b])
            /\ got' = SubSeq(Contents(buffer[b]), 1, n)
            /\ buffer' = [buffer EXCEPT ![b] = Read(buffer[b], n)]
      BY <2>4 DEF ReadData
    <3>2. Contents(Read(buffer[b], n)) =
            SubSeq(Contents(buffer[b]), n + 1, Len(Contents(buffer[b])))
      BY <2>0, <3>1, ReadProperties
    <3>3. contents' = [contents EXCEPT ![b] = SubSeq(contents[b], n + 1, Len(contents[b]))]
      BY <2>a, <3>1, <3>2
    <3>4. n <= Len(contents[b])
      BY <2>0, <3>1, ContentsProperties
    <3> QED
      BY <2>0, <3>1, <3>3, <3>4 DEF Streams!Next, Streams!Get
  <2>5. ASSUME NEW b \in Buffers, Recycle(b) PROVE Streams!Next
    <3>1. PICK n \in 0 .. MaxLen : buffer' = [buffer EXCEPT ![b] = recycle(buffer[b], n)]
      BY <2>5 DEF Recycle
    <3>2. Contents(recycle(buffer[b], n)) =
            SubSeq(Contents(buffer[b]), n + 1, Len(Contents(buffer[b])))
      <4>1. Valid(buffer[b]) /\ n \in Nat
        BY <2>0
      <4> QED
        BY <4>1, recycleProperties
    <3>3. contents' = [contents EXCEPT ![b] = SubSeq(contents[b], n + 1, Len(contents[b]))]
      BY <2>a, <3>1, <3>2
    <3> QED
      BY <2>5, <3>3 DEF Recycle, Streams!Next, Streams!Drop
  <2>6. ASSUME NEW b \in Buffers, Reset(b) PROVE Streams!Next
    <3>1. Contents(InitAll(buffer[b])) = <<>>
      BY <2>0, InitAllProperties
    <3>2. contents' = [contents EXCEPT ![b] = <<>>]
      BY <2>6, <3>1, UpdateContents DEF Reset
    <3> QED
      BY <2>6, <3>2 DEF Reset, Streams!Next, Streams!Clear
  <2>7. ASSUME NEW b \in Buffers, NEW c \in Buffers, swap(b, c) PROVE Streams!Next
    <3>1. contents' = [contents EXCEPT ![b] = contents[c], ![c] = contents[b]]
      BY <2>0, <2>7 DEF swap, TypeOK
    <3> QED
      BY <2>7, <3>1 DEF swap, Streams!Next, Streams!Exchange
  <2>8. CASE UNCHANGED vars
    BY <2>8 DEF vars, Streams!vars
  <2> QED
    BY <2>2, <2>3, <2>4, <2>5, <2>6, <2>7, <2>8 DEF Next
<1> QED
  BY <1>1, <1>2, BufferTypeCorrect, PTL DEF Spec, ImplementsByteStreams, Streams!Spec

(***************************************************************************)
(* Growth                                                                  *)
(***************************************************************************)
\* From b to r the vector did not grow, or it is full behind the reserved head.
GrownFull(b, r) ==
    Len(r.bytes) = Len(b.bytes) \/ ReadableBytes(r) = Len(r.bytes) - headSize

\* Fill leaves the vector's size alone, or grows it up to the write index; the
\* read index stays where it is.
LEMMA FillGrows ==
  ASSUME SizeAssumption, NEW b, Valid(b), NEW data \in Seq(Byte)
  PROVE  /\ Fill(b, data).readIndex = b.readIndex
         /\ \/ Len(Fill(b, data).bytes) = Len(b.bytes)
            \/ Fill(b, data).writeIndex = Len(Fill(b, data).bytes)
<1> DEFINE room == WriteableBytes(b)
           rest == SubSeq(data, room + 1, Len(data))
<1>0. /\ b.bytes \in Seq(Byte) /\ b.writeIndex \in Nat /\ b.writeIndex <= Len(b.bytes)
      /\ Len(b.bytes) \in Nat /\ Len(data) \in Nat
      /\ room \in Nat /\ room = Len(b.bytes) - b.writeIndex
  BY DEF Valid, Record, WriteableBytes
<1>1. CASE room < Len(data)
  <2> HIDE DEF room
  <2>1. room + 1 \in Int /\ Len(data) \in Int
        /\ \A i \in room + 1 .. Len(data) : data[i] \in Byte
    BY <1>0, ElementOfSeq
  <2>2. rest \in Seq(Byte) /\ Len(rest) = Len(data) - room
    BY <1>0, <1>1, <2>1, SubSeqProperties
  <2> DEFINE grown == b.bytes \o rest
  <2>3. Fill(b, data) = Store(b, grown, data)
    BY <1>1 DEF Fill, room
  <2> HIDE DEF rest
  <2>4. Len(grown) = b.writeIndex + Len(data)
    <3>1. b.bytes \in Seq(Byte) /\ rest \in Seq(Byte)
      BY <1>0, <2>2
    <3>2. Len(b.bytes \o rest) = Len(b.bytes) + Len(rest)
      BY <3>1, ConcatProperties
    <3>3. Len(grown) = Len(b.bytes) + Len(rest)
      BY <3>2
    <3> HIDE DEF grown
    <3>4. room = Len(b.bytes) - b.writeIndex /\ Len(rest) = Len(data) - room
      BY <1>0, <2>2
    <3>5. b.writeIndex \in Nat /\ Len(b.bytes) \in Nat /\ Len(data) \in Nat
      BY <1>0
    <3> QED
      BY <3>3, <3>4, <3>5
  <2> HIDE DEF grown
  <2>5. /\ Store(b, grown, data).readIndex = b.readIndex
        /\ Store(b, grown, data).writeIndex = b.writeIndex + Len(data)
        /\ Store(b, grown, data).bytes = Overwrite(grown, b.writeIndex, data)
    BY DEF Store
  <2>6. Len(Overwrite(grown, b.writeIndex, data)) = Len(grown)
    BY <1>0, <2>4 DEF Overwrite
  <2> QED
    BY <2>3, <2>4, <2>5, <2>6
<1>2. CASE ~(room < Len(data))
  <2>1. Fill(b, data) = Store(b, b.bytes, data)
    BY <1>2 DEF Fill
  <2>2. /\ Store(b, b.bytes, data).readIndex = b.readIndex
        /\ Store(b, b.bytes, data).bytes = Overwrite(b.bytes, b.writeIndex, data)
    BY DEF Store
  <2>3. Len(Overwrite(b.bytes, b.writeIndex, data)) = Len(b.bytes)
    BY <1>0 DEF Overwrite
  <2> QED
    BY <2>1, <2>2, <2>3
<1> QED
  BY <1>1, <1>2

\* Write grows the vector only after the room in front of the unread bytes was
\* reclaimed, so that they then fill it.
LEMMA WriteGrows ==
  ASSUME SizeAssumption, NEW b, Valid(b), NEW data \in Seq(Byte), NEW order
  PROVE  GrownFull(b, Write(b, data, order))
<1> DEFINE w == Write(b, data, order)
<1>1. CASE WriteableBytes(b) < Len(data)
  <2> DEFINE m == moveForward(b, order)
  <2>1. Valid(m) /\ Len(m.bytes) = Len(b.bytes) /\ m.readIndex = headSize
    BY moveForwardProperties
  <2>2. w = Fill(m, data)
    BY <1>1 DEF Write
  <2> HIDE DEF m
  <2>3. /\ Fill(m, data).readIndex = m.readIndex
        /\ \/ Len(Fill(m, data).bytes) = Len(m.bytes)
           \/ Fill(m, data).writeIndex = Len(Fill(m, data).bytes)
    BY <2>1, FillGrows
  <2> QED
    BY <2>1, <2>2, <2>3 DEF GrownFull, ReadableBytes
<1>2. CASE ~(WriteableBytes(b) < Len(data))
  <2>1. w = Fill(b, data)
    BY <1>2 DEF Write
  <2>2. Fill(b, data) = Store(b, b.bytes, data)
    BY <1>2 DEF Fill
  <2>3. Len(Store(b, b.bytes, data).bytes) = Len(b.bytes)
    BY DEF Store, Overwrite, Valid, Record
  <2> QED
    BY <2>1, <2>2, <2>3 DEF GrownFull
<1> QED
  BY <1>1, <1>2

\* The scattered read fills the vector before what is left over is written.
LEMMA readfdGrows ==
  ASSUME SizeAssumption, NEW b, Valid(b), NEW data \in Seq(Byte), NEW order
  PROVE  GrownFull(b, readfd(b, data, order))
<1> DEFINE writable == WriteableBytes(b)
<1>0. /\ b.bytes \in Seq(Byte) /\ b.writeIndex \in Nat /\ Len(b.bytes) \in Nat
      /\ Len(data) \in Nat /\ writable \in Nat /\ b.writeIndex + writable = Len(b.bytes)
  BY DEF Valid, Record, WriteableBytes
<1>1. \A d : Len(Store(b, b.bytes, d).bytes) = Len(b.bytes)
  BY <1>0 DEF Store, Overwrite
<1>2. CASE Len(data) <= writable
  <2>1. readfd(b, data, order) = Store(b, b.bytes, data)
    BY <1>2 DEF readfd
  <2> QED
    BY <1>1, <2>1 DEF GrownFull
<1>3. CASE ~(Len(data) <= writable)
  <2> DEFINE front == SubSeq(data, 1, writable)
             rest == SubSeq(data, writable + 1, Len(data))
             first == Store(b, b.bytes, front)
  <2>1. readfd(b, data, order) = Write(first, rest, order)
    BY <1>3 DEF readfd
  <2> HIDE DEF writable
  <2>2. writable \in 0 .. Len(data)
    BY <1>0, <1>3
  <2>3. front \in Seq(Byte) /\ Len(front) = writable /\ rest \in Seq(Byte)
    BY <2>2, SplitProperties
  <2> HIDE DEF front, rest
  <2>4. Valid(first)
    <3>1. b.writeIndex + Len(front) <= Len(b.bytes) /\ Len(b.bytes) <= Len(b.bytes)
      BY <1>0, <2>3
    <3>2. b.bytes \in Seq(Byte) /\ front \in Seq(Byte)
      BY <1>0, <2>3
    <3> QED
      BY <3>1, <3>2, StoreProperties
  <2>5. Len(first.bytes) = Len(b.bytes)
    BY <1>1
  <2> HIDE DEF first
  <2>6. GrownFull(first, Write(first, rest, order))
    BY <2>3, <2>4, WriteGrows
  <2> QED
    BY <2>1, <2>5, <2>6 DEF GrownFull
<1> QED
  BY <1>2, <1>3

\* A call that replaces one buffer by a grown and full one changes no other.
LEMMA UpdateGrows ==
  ASSUME TypeOK, NEW b \in Buffers, NEW r, GrownFull(buffer[b], r),
         buffer' = [buffer EXCEPT ![b] = r]
  PROVE  \A x \in Buffers : GrownFull(buffer[x], buffer'[x])
BY DEF TypeOK, GrownFull

\* The vector grows only when the unread bytes and what is written do not fit
\* into it: no pattern of reads and writes makes it creep up while there is
\* free room in front of them.
THEOREM BufferGrowth == Spec => GrowsOnlyWhenFull
<1> USE SizeAssumption
<1> DEFINE Grow == \A x \in Buffers :
                      Len(buffer'[x].bytes) > Len(buffer[x].bytes) =>
                        \/ \E c \in Buffers : buffer'[x] = buffer[c]
                        \/ ReadableBytes(buffer'[x]) = Len(buffer'[x].bytes) - headSize
<1>1. TypeOK /\ TypeOK' /\ [Next]_vars => Grow
  <2> SUFFICES ASSUME TypeOK, TypeOK', [Next]_vars PROVE Grow
    OBVIOUS
  <2>0. \A x \in Buffers : Valid(buffer[x])
    BY DEF TypeOK
  <2>a. ASSUME \A x \in Buffers : GrownFull(buffer[x], buffer'[x]) PROVE Grow
    <3>1. \A x \in Buffers : Len(buffer[x].bytes) \in Nat /\ Len(buffer'[x].bytes) \in Nat
      BY DEF TypeOK, Valid, Record
    <3> QED
      BY <2>a, <3>1 DEF GrownFull
  <2>b. ASSUME NEW b \in Buffers, NEW r, r.bytes = buffer[b].bytes,
               buffer' = [buffer EXCEPT ![b] = r]
        PROVE  Grow
    BY <2>a, <2>b, UpdateGrows DEF GrownFull
  <2>1. ASSUME NEW b \in Buffers, WriteData(b) PROVE Grow
    <3>1. PICK data \in Data, order \in CopyOrders :
            buffer' = [buffer EXCEPT ![b] = Write(buffer[b], data, order)]
      BY <2>1 DEF WriteData
    <3>2. GrownFull(buffer[b], Write(buffer[b], data, order))
      BY <2>0, DataType, WriteGrows
    <3> QED
      BY <2>a, <3>1, <3>2, UpdateGrows
  <2>2. ASSUME NEW b \in Buffers, ReadData(b) PROVE Grow
    <3>1. PICK n \in 0 .. MaxLen : buffer' = [buffer EXCEPT ![b] = Read(buffer[b], n)]
      BY <2>2 DEF ReadData
    <3>2. Read(buffer[b], n).bytes = buffer[b].bytes
      BY <2>0 DEF Read, Valid, Record
    <3> QED
      BY <2>b, <3>1, <3>2
  <2>c. ASSUME NEW b \in Buffers PROVE InitAll(buffer[b]).bytes = buffer[b].bytes
    BY <2>0 DEF InitAll, Valid, Record
  <2>3. ASSUME NEW b \in Buffers, Recycle(b) PROVE Grow
    <3>1. PICK n \in 0 .. MaxLen : buffer' = [buffer EXCEPT ![b] = recycle(buffer[b], n)]
      BY <2>3 DEF Recycle
    <3>2. Read(buffer[b], n).bytes = buffer[b].bytes
      BY <2>0 DEF Read, Valid, Record
    <3>3. recycle(buffer[b], n).bytes = buffer[b].bytes
      BY <2>c, <3>2 DEF recycle
    <3> QED
      BY <2>b, <3>1, <3>3
  <2>4. ASSUME NEW b \in Buffers, Reset(b) PROVE Grow
    BY <2>b, <2>c, <2>4 DEF Reset
  <2>5. ASSUME NEW b \in Buffers, ReadFd(b) PROVE Grow
    <3>1. PICK data \in Data, order \in CopyOrders :
            buffer' = [buffer EXCEPT ![b] = readfd(buffer[b], data, order)]
      BY <2>5 DEF ReadFd
    <3>2. GrownFull(buffer[b], readfd(buffer[b], data, order))
      BY <2>0, DataType, readfdGrows
    <3> QED
      BY <2>a, <3>1, <3>2, UpdateGrows
  <2>6. ASSUME NEW b \in Buffers, NEW c \in Buffers, swap(b, c) PROVE Grow
    BY <2>6 DEF swap, TypeOK
  <2>7. CASE UNCHANGED vars
    <3>1. buffer' = buffer
      BY <2>7 DEF vars
    <3> QED
      BY <2>a, <3>1 DEF GrownFull
  <2> QED
    BY <2>1, <2>2, <2>3, <2>4, <2>5, <2>6, <2>7 DEF Next
<1>2. TypeOK /\ TypeOK' /\ [Next]_vars =>
        [\A b \in Buffers :
          Len(buffer'[b].bytes) > Len(buffer[b].bytes) =>
            \/ \E c \in Buffers : buffer'[b] = buffer[c]
            \/ ReadableBytes(buffer'[b]) = Len(buffer'[b].bytes) - headSize]_vars
  BY <1>1
<1> QED
  BY <1>2, BufferTypeCorrect, PTL DEF Spec, GrowsOnlyWhenFull
=============================================================================
