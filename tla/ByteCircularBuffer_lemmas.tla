---------------------- MODULE ByteCircularBuffer_lemmas ----------------------
(***************************************************************************)
(* What the operators of the ring do, for every Byte and BufferSize: one   *)
(* or two memcpy calls and the % of the indices reduced to one case        *)
(* distinction, and from it that a write appends to the contents and a     *)
(* read takes from their beginning.                                        *)
(***************************************************************************)
EXTENDS ByteCircularBuffer, TLAPS

-----------------------------------------------------------------------------
(* Index arithmetic.                                                       *)

\* The size of the storage is a positive number.
LEMMA BufferSizeNat == BufferSize \in Nat /\ BufferSize > 0
  BY BufferSizeAssumption

\* An index moved forward by at most the size of the storage wraps once.
LEMMA Wrap ==
  ASSUME NEW x \in 0 .. 2 * BufferSize - 1
  PROVE  x % BufferSize = IF x < BufferSize THEN x ELSE x - BufferSize
<1>1. BufferSize \in Nat /\ BufferSize > 0
  BY BufferSizeNat
<1>2. CASE x < BufferSize
  BY <1>1, <1>2
<1>3. CASE x >= BufferSize
  BY <1>1, <1>3
<1> QED BY <1>2, <1>3, <1>1

\* Whatever is added to an index, % BufferSize is an index again.
LEMMA WrapInIndex ==
  ASSUME NEW x \in Int
  PROVE  x % BufferSize \in Index
<1>1. BufferSize \in Nat /\ BufferSize > 0
  BY BufferSizeNat
<1>2. x % BufferSize \in 0 .. BufferSize - 1
  BY <1>1, SMTT(30)
<1> QED BY <1>2 DEF Index

\* Wrapping before or after a further move makes no difference.
LEMMA WrapThenMove ==
  ASSUME NEW x \in 0 .. 2 * BufferSize - 1, NEW d \in Nat,
         x + d \in 0 .. 2 * BufferSize - 1
  PROVE  ((x % BufferSize) + d) % BufferSize = (x + d) % BufferSize
<1>1. PICK y \in Index : y = x % BufferSize
  BY WrapInIndex
<1>2. PICK z \in 0 .. 2 * BufferSize - 1 : z = x + d
  OBVIOUS
<1>3. y = x \/ y = x - BufferSize
  BY <1>1, Wrap
<1>4. PICK w \in 0 .. 2 * BufferSize - 1 : w = y + d
  <2>1. BufferSize \in Nat /\ x \in Nat /\ y \in Nat
    BY BufferSizeNat DEF Index
  <2>2. y <= x
    BY <1>3, <2>1
  <2>3. y + d \in Nat /\ y + d <= z
    BY <1>2, <2>1, <2>2
  <2>4. y + d \in 0 .. 2 * BufferSize - 1
    BY <2>1, <2>3
  <2> QED BY <2>4
<1>5. w = z \/ w = z - BufferSize
  BY <1>2, <1>3, <1>4, BufferSizeNat DEF Index
<1>6. /\ z % BufferSize = IF z < BufferSize THEN z ELSE z - BufferSize
      /\ w % BufferSize = IF w < BufferSize THEN w ELSE w - BufferSize
  BY Wrap
<1>7. w % BufferSize = z % BufferSize
  BY <1>5, <1>6, BufferSizeNat
<1> QED BY <1>1, <1>2, <1>4, <1>7

\* The fields of a ring, as numbers.
LEMMA RingFields ==
  ASSUME NEW bcb0 \in Ring
  PROVE  /\ BufferSize \in Nat /\ BufferSize > 0
         /\ bcb0.buffer \in [Index -> Byte]
         /\ bcb0.front \in Nat /\ bcb0.front < BufferSize
         /\ bcb0.rear \in Nat /\ bcb0.rear < BufferSize
         /\ bcb0.current_size \in Nat /\ bcb0.current_size <= BufferSize
  BY BufferSizeNat DEF Ring, Index

\* The slot of the k-th byte from rear, for a caller that does not want %.
LEMMA SlotOfByte ==
  ASSUME NEW bcb0 \in Ring, NEW k \in 1 .. BufferSize
  PROVE  \E i \in Index : /\ i = (bcb0.rear + k - 1) % BufferSize
                          /\ \/ i = bcb0.rear + k - 1
                             \/ i = bcb0.rear + k - 1 - BufferSize
<1>1. PICK x \in 0 .. 2 * BufferSize - 1 : x = bcb0.rear + k - 1
  BY RingFields
<1> DEFINE i == x % BufferSize
<1>2. i \in Index
  BY WrapInIndex
<1>3. i = (bcb0.rear + k - 1) % BufferSize
  BY <1>1
<1>4. i = x \/ i = x - BufferSize
  BY Wrap
<1> HIDE DEF i
<1>5. i = bcb0.rear + k - 1 \/ i = bcb0.rear + k - 1 - BufferSize
  BY <1>1, <1>4, RingFields
<1> QED BY <1>2, <1>3, <1>5

-----------------------------------------------------------------------------
(* The storage after a write.                                              *)

\* One memcpy or two: the bytes of data lie from front on, around the end
\* of the storage, and every other byte is as before.
LEMMA StoredAt ==
  ASSUME NEW bcb0 \in Ring, NEW data \in Seq(Byte), Len(data) <= BufferSize
  PROVE  Stored(bcb0, data) =
           [i \in Index |->
              LET k == IF bcb0.front <= i THEN i - bcb0.front + 1
                       ELSE i + BufferSize - bcb0.front + 1
              IN  IF k <= Len(data) THEN data[k] ELSE bcb0.buffer[i]]
<1> DEFINE f == bcb0.front
           till == BufferSize - f
           hd == SubSeq(data, 1, till)
           tl == SubSeq(data, till + 1, Len(data))
<1>1. /\ BufferSize \in Nat /\ BufferSize > 0
      /\ f \in Nat /\ f < BufferSize
      /\ Len(data) \in Nat
  BY BufferSizeNat DEF Ring, Index
<1>2. CASE Len(data) <= till
  BY <1>1, <1>2 DEF Stored, memcpy, Index
<1>3. CASE ~(Len(data) <= till)
  <2>1. /\ Len(hd) = till
        /\ \A k \in 1 .. till : hd[k] = data[k]
    BY <1>1, <1>3
  <2>2. /\ Len(tl) = Len(data) - till
        /\ \A k \in 1 .. Len(data) - till : tl[k] = data[till + k]
    <3>1. PICK n \in Nat : n = till /\ n < Len(data)
      BY <1>1, <1>3
    <3>2. /\ Len(SubSeq(data, n + 1, Len(data))) = Len(data) - n
          /\ \A k \in 1 .. Len(data) - n :
                SubSeq(data, n + 1, Len(data))[k] = data[n + k]
      BY <3>1
    <3> QED BY <3>1, <3>2
  <2>3. Stored(bcb0, data) = memcpy(memcpy(bcb0.buffer, f, hd), 0, tl)
    BY <1>3 DEF Stored
  <2> HIDE DEF hd, tl
  <2>4. ASSUME NEW i \in Index
        PROVE  memcpy(memcpy(bcb0.buffer, f, hd), 0, tl)[i] =
                 LET k == IF f <= i THEN i - f + 1 ELSE i + till + 1
                 IN  IF k <= Len(data) THEN data[k] ELSE bcb0.buffer[i]
    <3>1. CASE i < Len(data) - till
      <4>1. i + 1 \in 1 .. Len(data) - till /\ till + (i + 1) = i + till + 1
        BY <3>1, <1>1 DEF Index
      <4>2. tl[i + 1] = data[i + till + 1]
        BY ONLY <2>2, <4>1
      <4>3. memcpy(memcpy(bcb0.buffer, f, hd), 0, tl)[i] = tl[i + 1]
        BY <3>1, <2>2, <1>1 DEF memcpy, Index
      <4> QED BY <4>2, <4>3, <3>1, <1>1 DEF Index
    <3>2. CASE Len(data) - till <= i /\ i < f
      BY <3>2, <2>1, <2>2, <1>1 DEF memcpy, Index
    <3>3. CASE f <= i
      <4>1. hd[i - f + 1] = data[i - f + 1]
        BY <2>1, <3>3, <1>1 DEF Index
      <4>2. memcpy(memcpy(bcb0.buffer, f, hd), 0, tl)[i] = hd[i - f + 1]
        BY <3>3, <2>1, <2>2, <1>1, <1>3 DEF memcpy, Index
      <4> QED BY <4>1, <4>2, <3>3, <1>1, <1>3 DEF Index
    <3> QED BY <3>1, <3>2, <3>3, <1>1 DEF Index
  <2> QED BY <2>3, <2>4, <1>1 DEF memcpy, Index
<1> QED BY <1>2, <1>3

\* A write keeps every field of the ring in its range.
LEMMA WriteType ==
  ASSUME NEW bcb0 \in Ring, NEW data \in Seq(Byte)
  PROVE  BCBWrite(bcb0, data) \in Ring
<1>1. CASE ~Fits(bcb0, data)
  BY <1>1 DEF BCBWrite
<1>2. CASE Fits(bcb0, data)
  <2>1. Len(data) <= BufferSize /\ bcb0.current_size + Len(data) \in 0 .. BufferSize
    BY <1>2, RingFields DEF Fits, BCBAvailableSize
  <2>2. Stored(bcb0, data) \in [Index -> Byte]
    <3> DEFINE k(i) == IF bcb0.front <= i THEN i - bcb0.front + 1
                       ELSE i + BufferSize - bcb0.front + 1
    <3>1. \A i \in Index : k(i) <= Len(data) => k(i) \in 1 .. Len(data)
      BY RingFields DEF Index
    <3>2. Stored(bcb0, data) =
            [i \in Index |-> IF k(i) <= Len(data) THEN data[k(i)]
                             ELSE bcb0.buffer[i]]
      BY <2>1, StoredAt
    <3> HIDE DEF k
    <3> QED BY <3>1, <3>2, RingFields
  <2>3. (bcb0.front + Len(data)) % BufferSize \in Index
    BY WrapInIndex, RingFields
  <2> QED BY <1>2, <2>1, <2>2, <2>3 DEF BCBWrite, Ring
<1> QED BY <1>1, <1>2

\* A read keeps every field of the ring in its range.
LEMMA ReadType ==
  ASSUME NEW bcb0 \in Ring, NEW n \in Nat, NEW remove \in BOOLEAN
  PROVE  BCBRead(bcb0, n, remove) \in Ring
<1>1. CASE ~Holds(bcb0, n)
  BY <1>1 DEF BCBRead, Ring
<1>2. CASE Holds(bcb0, n)
  <2>1. bcb0.current_size - n \in 0 .. BufferSize
    BY <1>2, RingFields DEF Holds
  <2>2. (bcb0.rear + n) % BufferSize \in Index
    BY WrapInIndex, RingFields
  <2> QED BY <1>2, <2>1, <2>2 DEF BCBRead, Ring
<1> QED BY <1>1, <1>2

-----------------------------------------------------------------------------
(* The bytes the ring stands for.                                          *)

\* Contents is a sequence of current_size bytes.
LEMMA ContentsType ==
  ASSUME NEW bcb0 \in Ring
  PROVE  /\ Contents(bcb0) \in Seq(Byte)
         /\ Len(Contents(bcb0)) = bcb0.current_size
<1> DEFINE at(k) == (bcb0.rear + k - 1) % BufferSize
<1>1. \A k \in Nat : at(k) \in Index
  BY WrapInIndex, RingFields
<1>2. Contents(bcb0) = [k \in 1 .. bcb0.current_size |-> bcb0.buffer[at(k)]]
  BY DEF Contents
<1> HIDE DEF at
<1>3. \A k \in 1 .. bcb0.current_size : bcb0.buffer[at(k)] \in Byte
  BY <1>1, RingFields
<1> QED BY <1>2, <1>3, RingFields

\* What a read copies out, with its one or two memcpy calls, is the oldest
\* n bytes of the ring in order.
LEMMA FetchedIsPrefix ==
  ASSUME NEW bcb0 \in Ring, NEW n \in Nat, Holds(bcb0, n)
  PROVE  /\ Fetched(bcb0, n) = SubSeq(Contents(bcb0), 1, n)
         /\ Fetched(bcb0, n) \in Seq(Byte)
<1>1. n <= bcb0.current_size
  BY DEF Holds
<1>2. ASSUME NEW k \in 1 .. n
      PROVE  Fetched(bcb0, n)[k] = Contents(bcb0)[k]
  <2> DEFINE x == bcb0.rear + k - 1
  <2>1. x \in 0 .. 2 * BufferSize - 1
    BY <1>1, RingFields
  <2>2. Contents(bcb0)[k] = bcb0.buffer[x % BufferSize]
    BY <1>1, RingFields DEF Contents
  <2>3. Fetched(bcb0, n)[k] = bcb0.buffer[IF x < BufferSize THEN x ELSE x - BufferSize]
    BY <1>1, RingFields DEF Fetched
  <2> HIDE DEF x
  <2>4. x % BufferSize = IF x < BufferSize THEN x ELSE x - BufferSize
    BY <2>1, Wrap
  <2> QED BY <2>2, <2>3, <2>4
<1>3. /\ Contents(bcb0) \in Seq(Byte)
      /\ Len(Contents(bcb0)) = bcb0.current_size
  BY ContentsType
<1>4. /\ Len(SubSeq(Contents(bcb0), 1, n)) = n
      /\ SubSeq(Contents(bcb0), 1, n) \in Seq(Byte)
      /\ \A k \in 1 .. n : SubSeq(Contents(bcb0), 1, n)[k] = Contents(bcb0)[k]
  BY <1>1, <1>3
<1>5. Fetched(bcb0, n) = [k \in 1 .. n |-> Fetched(bcb0, n)[k]]
  BY DEF Fetched
<1>6. SubSeq(Contents(bcb0), 1, n) = [k \in 1 .. n |-> Contents(bcb0)[k]]
  BY <1>4
<1> QED BY <1>2, <1>4, <1>5, <1>6

\* A read that removes n bytes leaves the others, in order.
LEMMA ReadLeavesRest ==
  ASSUME NEW bcb0 \in Ring, NEW n \in Nat, Holds(bcb0, n)
  PROVE  Contents(BCBRead(bcb0, n, TRUE)) =
           SubSeq(Contents(bcb0), n + 1, Len(Contents(bcb0)))
<1> DEFINE c == Contents(bcb0)
           bcb1 == BCBRead(bcb0, n, TRUE)
           m == bcb0.current_size - n
<1>1. n <= bcb0.current_size /\ m \in Nat
  BY RingFields DEF Holds
<1>2. /\ bcb1.buffer = bcb0.buffer
      /\ bcb1.rear = (bcb0.rear + n) % BufferSize
      /\ bcb1.current_size = m
  BY DEF BCBRead, Ring
<1>3. c \in Seq(Byte) /\ Len(c) = bcb0.current_size
  BY ContentsType
<1>4. SubSeq(c, n + 1, Len(c)) = [k \in 1 .. m |-> c[n + k]]
  BY <1>1, <1>3, RingFields
<1>5. Contents(bcb1) = [k \in 1 .. m |-> Contents(bcb1)[k]]
  BY <1>2 DEF Contents
<1>6. ASSUME NEW k \in 1 .. m
      PROVE  Contents(bcb1)[k] = c[n + k]
  <2> DEFINE x == bcb0.rear + n
             y == (x % BufferSize) + k - 1
             z == bcb0.rear + (n + k) - 1
  <2>1. Contents(bcb1)[k] = bcb0.buffer[y % BufferSize]
    BY <1>2 DEF Contents
  <2>2. c[n + k] = bcb0.buffer[z % BufferSize]
    BY <1>1, RingFields DEF Contents
  <2>3. x \in 0 .. 2 * BufferSize - 1
    BY <1>1, RingFields
  <2>4. z = x + k - 1
    BY <1>1, RingFields
  <2> HIDE DEF x, z
  <2>5. x % BufferSize = IF x < BufferSize THEN x ELSE x - BufferSize
    BY <2>3, Wrap
  <2>6. z \in 0 .. 2 * BufferSize - 1 /\ y \in 0 .. 2 * BufferSize - 1
    BY <1>1, <2>4, <2>5, RingFields DEF x
  <2>7. y = z \/ y = z - BufferSize
    BY <1>1, <2>3, <2>4, <2>5, RingFields
  <2> HIDE DEF y
  <2>8. /\ z % BufferSize = IF z < BufferSize THEN z ELSE z - BufferSize
        /\ y % BufferSize = IF y < BufferSize THEN y ELSE y - BufferSize
    BY <2>6, Wrap
  <2>9. y % BufferSize = z % BufferSize
    BY <2>6, <2>7, <2>8, RingFields
  <2> QED BY <2>1, <2>2, <2>9
<1> HIDE DEF bcb1, c, m
<1> QED BY <1>4, <1>5, <1>6 DEF bcb1, c

\* A write that fits appends its data, wherever the indices are.
LEMMA WriteAppends ==
  ASSUME NEW bcb0 \in Ring, IndicesAgree(bcb0),
         NEW data \in Seq(Byte), Fits(bcb0, data)
  PROVE  Contents(BCBWrite(bcb0, data)) = Contents(bcb0) \o data
<1> DEFINE c == Contents(bcb0)
           bcb1 == BCBWrite(bcb0, data)
           s == bcb0.current_size
           d == Len(data)
           f == bcb0.front
           r == bcb0.rear
<1>1. d \in Nat /\ s + d <= BufferSize
  BY RingFields DEF Fits, BCBAvailableSize
<1>2. /\ bcb1.buffer = Stored(bcb0, data)
      /\ bcb1.rear = r
      /\ bcb1.current_size = s + d
  BY DEF BCBWrite, Ring
<1>3. c \in Seq(Byte) /\ Len(c) = s
  BY ContentsType
<1>4. c \o data = [k \in 1 .. s + d |-> IF k <= s THEN c[k] ELSE data[k - s]]
  <2> HIDE DEF c
  <2>1. c \o data \in Seq(Byte) /\ Len(c \o data) = s + d
    BY <1>1, <1>3
  <2>2. \A k \in 1 .. s + d :
           (c \o data)[k] = IF k <= s THEN c[k] ELSE data[k - s]
    BY <1>1, <1>3, RingFields
  <2>3. PICK q \in Seq(Byte) : q = c \o data
    BY <2>1
  <2>4. q = [k \in 1 .. Len(q) |-> q[k]]
    OBVIOUS
  <2> QED BY <2>1, <2>2, <2>3, <2>4
<1>5. Contents(bcb1) = [k \in 1 .. s + d |-> Contents(bcb1)[k]]
  BY <1>2 DEF Contents
<1>6. /\ f = r + s \/ f = r + s - BufferSize
      /\ 0 <= f /\ f < BufferSize
  <2> DEFINE x == r + s
  <2>1. x \in 0 .. 2 * BufferSize - 1
    BY RingFields
  <2>2. f = x % BufferSize
    BY DEF IndicesAgree
  <2> HIDE DEF x
  <2>3. x % BufferSize = x \/ x % BufferSize = x - BufferSize
    BY <2>1, Wrap
  <2>4. f = x \/ f = x - BufferSize
    BY <2>2, <2>3
  <2> QED BY <2>4, RingFields DEF x
<1>7. ASSUME NEW k \in 1 .. s + d
      PROVE  Contents(bcb1)[k] = IF k <= s THEN c[k] ELSE data[k - s]
  <2>1. PICK i \in Index : /\ i = (r + k - 1) % BufferSize
                           /\ i = r + k - 1 \/ i = r + k - 1 - BufferSize
    BY <1>1, SlotOfByte, RingFields
  <2> DEFINE j == IF f <= i THEN i - f + 1 ELSE i + BufferSize - f + 1
  <2>2. Contents(bcb1)[k] = Stored(bcb0, data)[i]
    BY <1>2, <2>1 DEF Contents
  <2>3. k <= s => c[k] = bcb0.buffer[i]
    BY <2>1, RingFields DEF Contents
  <2>4. Stored(bcb0, data)[i] = IF j <= d THEN data[j] ELSE bcb0.buffer[i]
    BY <1>1, StoredAt, RingFields
  <2>5. (k <= s => j > d) /\ (k > s => j = k - s /\ j <= d) /\ j \in Int
    <3>1. /\ i \in Nat /\ i < BufferSize /\ j \in Int
          /\ f <= i => j = i - f + 1
          /\ i < f => j = i + BufferSize - f + 1
      BY RingFields DEF Index
    <3>2. r \in Nat /\ s \in Nat /\ f \in Nat /\ k \in Nat /\ 1 <= k /\ k <= s + d
      BY <1>1, RingFields
    <3>3. i = r + k - 1 \/ i = r + k - 1 - BufferSize
      BY <2>1
    <3>4. BufferSize \in Nat /\ s <= BufferSize /\ f < BufferSize /\ r < BufferSize
      BY RingFields
    <3> HIDE DEF j, s, d, f, r
    <3> QED BY ONLY <1>1, <1>6, <3>1, <3>2, <3>3, <3>4
  <2> HIDE DEF j
  <2> QED BY <1>1, <2>2, <2>3, <2>4, <2>5, RingFields
<1> HIDE DEF bcb1, c, s, d
<1> QED BY <1>4, <1>5, <1>7 DEF bcb1, c

\* A write, refused or not, keeps front current_size bytes past rear.
LEMMA WriteIndices ==
  ASSUME NEW bcb0 \in Ring, IndicesAgree(bcb0), NEW data \in Seq(Byte)
  PROVE  IndicesAgree(BCBWrite(bcb0, data))
<1>1. CASE ~Fits(bcb0, data)
  BY <1>1 DEF BCBWrite
<1>2. CASE Fits(bcb0, data)
  <2> DEFINE bcb1 == BCBWrite(bcb0, data)
  <2>1. PICK d \in Nat : d = Len(data)
    OBVIOUS
  <2>2. PICK x \in 0 .. 2 * BufferSize - 1 : x = bcb0.rear + bcb0.current_size
    BY RingFields
  <2>3. x + d \in 0 .. 2 * BufferSize - 1
    BY <1>2, <2>1, <2>2, RingFields DEF Fits, BCBAvailableSize
  <2>4. /\ bcb1.front = (bcb0.front + d) % BufferSize
        /\ bcb1.rear = bcb0.rear
        /\ bcb1.current_size = bcb0.current_size + d
    BY <1>2, <2>1 DEF BCBWrite, Ring
  <2>5. bcb1.front = (x + d) % BufferSize
    BY <2>2, <2>3, <2>4, WrapThenMove DEF IndicesAgree
  <2>6. bcb1.rear + bcb1.current_size = x + d
    BY <2>2, <2>4, RingFields
  <2> QED BY <2>5, <2>6 DEF IndicesAgree
<1> QED BY <1>1, <1>2

\* A read, refused or not, keeps front current_size bytes past rear.
LEMMA ReadIndices ==
  ASSUME NEW bcb0 \in Ring, IndicesAgree(bcb0), NEW n \in Nat,
         NEW remove \in BOOLEAN
  PROVE  IndicesAgree(BCBRead(bcb0, n, remove))
<1> DEFINE bcb1 == BCBRead(bcb0, n, remove)
<1>1. CASE ~Holds(bcb0, n)
  <2>1. bcb1 = [bcb0 EXCEPT !.locked = TRUE]
    BY <1>1 DEF BCBRead
  <2>2. /\ bcb1.front = bcb0.front
        /\ bcb1.rear = bcb0.rear
        /\ bcb1.current_size = bcb0.current_size
    BY <2>1 DEF Ring
  <2> QED BY <2>2 DEF IndicesAgree
<1>2. CASE Holds(bcb0, n) /\ ~remove
  BY <1>2 DEF BCBRead
<1>3. CASE Holds(bcb0, n) /\ remove
  <2>1. PICK x \in 0 .. 2 * BufferSize - 1 : x = bcb0.rear + n
    BY <1>3, RingFields DEF Holds
  <2>2. PICK d \in Nat : d = bcb0.current_size - n
    BY <1>3, RingFields DEF Holds
  <2>3. x + d = bcb0.rear + bcb0.current_size /\ x + d \in 0 .. 2 * BufferSize - 1
    BY <2>1, <2>2, RingFields
  <2>4. /\ bcb1.front = bcb0.front
        /\ bcb1.rear = (bcb0.rear + n) % BufferSize
        /\ bcb1.current_size = bcb0.current_size - n
    BY <1>3 DEF BCBRead, Ring
  <2>5. bcb1.rear + bcb1.current_size = (x % BufferSize) + d
    BY <2>1, <2>2, <2>4
  <2>6. bcb1.front = (x + d) % BufferSize
    BY <2>3, <2>4 DEF IndicesAgree
  <2> QED BY <2>3, <2>5, <2>6, WrapThenMove DEF IndicesAgree
<1> QED BY <1>1, <1>2, <1>3

\* A new ring is empty and consistent.
LEMMA NewRing ==
  BCBCreateNew \in Ring /\ IndicesAgree(BCBCreateNew) /\ Contents(BCBCreateNew) = <<>>
<1>1. BCBCreateNew \in Ring
  BY BufferSizeNat, ZeroByteAssumption DEF BCBCreateNew, Ring, Index
<1>2. IndicesAgree(BCBCreateNew)
  <2>1. 0 % BufferSize = 0
    BY Wrap, BufferSizeNat
  <2> QED BY <2>1 DEF IndicesAgree, BCBCreateNew
<1>3. Contents(BCBCreateNew) = <<>>
  <2>1. /\ Contents(BCBCreateNew) \in Seq(Byte)
        /\ Len(Contents(BCBCreateNew)) = BCBCreateNew.current_size
    BY <1>1, ContentsType
  <2>2. BCBCreateNew.current_size = 0
    BY DEF BCBCreateNew
  <2> QED BY <2>1, <2>2
<1> QED BY <1>1, <1>2, <1>3

\* So is a ring after BCBReset.
LEMMA ResetRing ==
  ASSUME NEW bcb0 \in Ring
  PROVE  /\ BCBReset(bcb0) \in Ring
         /\ IndicesAgree(BCBReset(bcb0))
         /\ Contents(BCBReset(bcb0)) = <<>>
<1>1. BCBReset(bcb0) \in Ring
  <2>1. 0 \in Index /\ 0 \in 0 .. BufferSize
    BY BufferSizeNat DEF Index
  <2> QED BY <2>1 DEF BCBReset, Ring
<1>2. /\ BCBReset(bcb0).front = 0
      /\ BCBReset(bcb0).rear = 0
      /\ BCBReset(bcb0).current_size = 0
  BY DEF BCBReset, Ring
<1>3. IndicesAgree(BCBReset(bcb0))
  <2>1. 0 % BufferSize = 0
    BY Wrap, BufferSizeNat
  <2> QED BY <1>2, <2>1 DEF IndicesAgree
<1>4. /\ Contents(BCBReset(bcb0)) \in Seq(Byte)
      /\ Len(Contents(BCBReset(bcb0))) = 0
  BY <1>1, <1>2, ContentsType
<1> QED BY <1>1, <1>3, <1>4
=============================================================================
