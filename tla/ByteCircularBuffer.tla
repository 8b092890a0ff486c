------------------------- MODULE ByteCircularBuffer -------------------------
(***************************************************************************)
(* The byte ring of ByteCircularBuffer.cpp, as operators on the record     *)
(* that stands for a ByteCircularBuffer_t.  The ring belongs to the        *)
(* message demarcar of one connection and is only touched by the service   *)
(* thread, so a call is one step; what a call leaves behind, its mutex     *)
(* included, is in the record.                                             *)
(*                                                                         *)
(* buffer_size never changes after BCBCreateNew, so it is the constant     *)
(* BufferSize.  Every index and size stays below 2^16, the width of the    *)
(* uint16_t fields, because BufferSize does; front + data_size and         *)
(* rear + data_size are computed in int before the % and cannot wrap.      *)
(***************************************************************************)
EXTENDS Integers, Sequences

CONSTANTS
    Byte,           \* the values of an unsigned char that occur
    BufferSize      \* buffer_size; DEFAULT_CBC_SIZE is 256

ASSUME BufferSizeAssumption == BufferSize \in Nat /\ 0 < BufferSize /\ BufferSize <= 65535

\* calloc'ed storage reads as zero bytes.
ASSUME ZeroByteAssumption == 0 \in Byte

Index == 0 .. BufferSize - 1

Ring == [buffer       : [Index -> Byte],
         front        : Index,                \* write index
         rear         : Index,                \* read index
         current_size : 0 .. BufferSize,
         locked       : BOOLEAN]              \* the pthread mutex is held

BCBCreateNew == [buffer       |-> [i \in Index |-> 0],
                 front        |-> 0,
                 rear         |-> 0,
                 current_size |-> 0,
                 locked       |-> FALSE]

BCBAvailableSize(bcb) == BufferSize - bcb.current_size

-----------------------------------------------------------------------------
(* Writing.                                                                *)

\* memcpy of the bytes of data to dst, from index at on.
memcpy(dst, at, data) ==
    [i \in Index |-> IF at <= i /\ i < at + Len(data)
                     THEN data[i - at + 1]
                     ELSE dst[i]]

\* Mutant: the second memcpy starts again at the first byte of the data.
StoredFromStart(bcb, data) ==
    LET space_till_end == BufferSize - bcb.front
    IN  IF Len(data) <= space_till_end
        THEN memcpy(bcb.buffer, bcb.front, data)
        ELSE memcpy(memcpy(bcb.buffer, bcb.front,
                           SubSeq(data, 1, space_till_end)),
                    0, SubSeq(data, 1, Len(data) - space_till_end))

\* The storage after a write: one memcpy, or two when the data wraps.
Stored(bcb, data) ==
    LET space_till_end == BufferSize - bcb.front
    IN  IF Len(data) <= space_till_end
        THEN memcpy(bcb.buffer, bcb.front, data)
        ELSE memcpy(memcpy(bcb.buffer, bcb.front,
                           SubSeq(data, 1, space_till_end)),
                    0, SubSeq(data, space_till_end + 1, Len(data)))

\* BCBWrite copies all of the data or, when it does not fit, nothing.
Fits(bcb, data) == Len(data) <= BCBAvailableSize(bcb)

\* A write that fits takes the mutex and releases it; one that does not
\* returns before pthread_mutex_lock.
WriteBlocks(bcb, data) == Fits(bcb, data) /\ bcb.locked

\* Mutant: the write index runs past the storage.
WriteWithoutWrap(bcb, data) ==
    IF Fits(bcb, data)
    THEN [bcb EXCEPT !.buffer = Stored(bcb, data),
                     !.front = @ + Len(data),
                     !.current_size = @ + Len(data)]
    ELSE bcb

BCBWrite(bcb, data) ==
    IF Fits(bcb, data)
    THEN [bcb EXCEPT !.buffer = Stored(bcb, data),
                     !.front = (@ + Len(data)) % BufferSize,
                     !.current_size = @ + Len(data)]
    ELSE bcb

-----------------------------------------------------------------------------
(* Reading.                                                                *)

\* What a read of n bytes copies out: one memcpy, or two when it wraps.
Fetched(bcb, n) ==
    LET data_till_end == BufferSize - bcb.rear
    IN  [k \in 1 .. n |-> IF k <= data_till_end
                          THEN bcb.buffer[bcb.rear + k - 1]
                          ELSE bcb.buffer[k - data_till_end - 1]]

Holds(bcb, n) == n <= bcb.current_size

\* Every read starts with pthread_mutex_lock.
ReadBlocks(bcb) == bcb.locked

\* Mutant: a read moves rear and leaves current_size.
ReadKeepsSize(bcb, n, remove_read_bytes) ==
    IF ~Holds(bcb, n)
    THEN [bcb EXCEPT !.locked = TRUE]
    ELSE IF remove_read_bytes
         THEN [bcb EXCEPT !.rear = (@ + n) % BufferSize]
         ELSE bcb

\* A read of more than the ring holds returns 0 without the unlock.
BCBRead(bcb, n, remove_read_bytes) ==
    IF ~Holds(bcb, n)
    THEN [bcb EXCEPT !.locked = TRUE]
    ELSE IF remove_read_bytes
         THEN [bcb EXCEPT !.rear = (@ + n) % BufferSize,
                          !.current_size = @ - n]
         ELSE bcb

\* BCBReset forgets the bytes; storage and mutex stay as they are.
BCBReset(bcb) == [bcb EXCEPT !.front = 0, !.rear = 0, !.current_size = 0]

-----------------------------------------------------------------------------
(* What the ring stands for: the queue of bytes from rear on.              *)

Contents(bcb) == [k \in 1 .. bcb.current_size |->
                      bcb.buffer[(bcb.rear + k - 1) % BufferSize]]

\* front is redundant: it is always current_size bytes past rear.
IndicesAgree(bcb) == bcb.front = (bcb.rear + bcb.current_size) % BufferSize

=============================================================================
