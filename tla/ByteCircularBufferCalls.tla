----------------------- MODULE ByteCircularBufferCalls -----------------------
(***************************************************************************)
(* A ring under every sequence of calls of its interface.  The caller      *)
(* passes data of at most MaxCall bytes and asks for at most MaxCall       *)
(* bytes; given is the data of the last call, out the caller's             *)
(* destination buffer and returned what the last call returned.            *)
(***************************************************************************)
EXTENDS ByteCircularBuffer

CONSTANT MaxCall        \* bound on the length of one call's data

ASSUME MaxCallAssumption == MaxCall \in Nat

VARIABLES bcb, given, returned, out

vars == <<bcb, given, returned, out>>

Data == UNION {[1 .. n -> Byte] : n \in 0 .. MaxCall}

Init == bcb = BCBCreateNew /\ given = <<>> /\ returned = 0 /\ out = <<>>

Write(data) ==
    /\ ~WriteBlocks(bcb, data)
    /\ bcb' = BCBWrite(bcb, data)
    /\ given' = data
    /\ returned' = IF Fits(bcb, data) THEN Len(data) ELSE 0
    /\ UNCHANGED out

Read(n, remove_read_bytes) ==
    /\ ~ReadBlocks(bcb)
    /\ bcb' = BCBRead(bcb, n, remove_read_bytes)
    /\ given' = <<>>
    /\ IF Holds(bcb, n)
       THEN out' = Fetched(bcb, n) /\ returned' = n
       ELSE returned' = 0 /\ UNCHANGED out

Reset ==
    /\ bcb' = BCBReset(bcb)
    /\ given' = <<>>
    /\ UNCHANGED <<returned, out>>

Next ==
    \/ \E data \in Data : Write(data)
    \/ \E n \in 0 .. MaxCall, remove_read_bytes \in BOOLEAN :
          Read(n, remove_read_bytes)
    \/ Reset

Spec == Init /\ [][Next]_vars

-----------------------------------------------------------------------------
\* Every field of the ring keeps its range, so no memcpy of BCBWrite or
\* BCBRead leaves the storage.
TypeOK ==
    /\ bcb \in Ring
    /\ given \in Data
    /\ returned \in 0 .. MaxCall
    /\ out \in Seq(Byte)

\* front, rear and current_size are updated by different calls and are
\* redundant: the write index is always current_size bytes past the read
\* index, full and empty rings (front = rear) included.
IndexInv == IndicesAgree(bcb)

\* The ring is a bounded queue: whatever was written comes out once, in
\* order and unchanged, wherever the indices wrapped, and a refused call
\* changes nothing a reader can see.
Queue == INSTANCE ByteQueue WITH queue <- Contents(bcb), Capacity <- BufferSize

IsByteQueue == Queue!Spec
==============================================================================
