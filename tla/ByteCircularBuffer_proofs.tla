---------------------- MODULE ByteCircularBuffer_proofs ----------------------
(***************************************************************************)
(* Theorems about the ring, for every Byte, BufferSize and MaxCall: type   *)
(* correctness, the index invariant, and that the ring implements a        *)
(* bounded queue of bytes.                                                 *)
(***************************************************************************)
EXTENDS ByteCircularBufferCalls, ByteCircularBuffer_lemmas

-----------------------------------------------------------------------------
(* The ring under every sequence of calls.                                 *)

\* The inductive invariant: without IndexInv a write may overwrite unread
\* bytes, so neither the index invariant nor the refinement is inductive
\* from the types alone.
IInv == TypeOK /\ IndexInv

\* The data a caller may pass is a sequence of at most MaxCall bytes.
LEMMA DataIsSeq == Data \subseteq Seq(Byte) /\ \A d \in Data : Len(d) \in 0 .. MaxCall
  BY MaxCallAssumption DEF Data

\* A call that passes no data passes the empty sequence.
LEMMA NoData == <<>> \in Data
  BY MaxCallAssumption, 0 \in 0 .. MaxCall, <<>> \in [1 .. 0 -> Byte] DEF Data

\* A ring from BCBCreateNew satisfies the inductive invariant.
LEMMA InitIInv == Init => IInv
  BY NewRing, NoData, MaxCallAssumption DEF Init, IInv, TypeOK, IndexInv

\* Every call of the ring's interface keeps the inductive invariant.
LEMMA NextIInv == IInv /\ [Next]_vars => IInv'
<1> SUFFICES ASSUME IInv, [Next]_vars
             PROVE  IInv'
  OBVIOUS
<1>1. ASSUME NEW data \in Data, Write(data)
      PROVE  IInv'
  <2>1. data \in Seq(Byte) /\ Len(data) \in 0 .. MaxCall
    BY DataIsSeq
  <2>2. bcb' \in Ring /\ IndicesAgree(bcb')
    BY <1>1, <2>1, WriteType, WriteIndices DEF Write, IInv, TypeOK, IndexInv
  <2>3. given' \in Data /\ returned' \in 0 .. MaxCall /\ out' \in Seq(Byte)
    BY <1>1, <2>1, MaxCallAssumption DEF Write, IInv, TypeOK
  <2> QED BY <2>2, <2>3 DEF IInv, TypeOK, IndexInv
<1>2. ASSUME NEW n \in 0 .. MaxCall, NEW remove_read_bytes \in BOOLEAN,
             Read(n, remove_read_bytes)
      PROVE  IInv'
  <2>1. n \in Nat
    BY MaxCallAssumption
  <2>2. bcb' \in Ring /\ IndicesAgree(bcb')
    BY <1>2, <2>1, ReadType, ReadIndices DEF Read, IInv, TypeOK, IndexInv
  <2>3. given' \in Data /\ returned' \in 0 .. MaxCall /\ out' \in Seq(Byte)
    BY <1>2, <2>1, NoData, FetchedIsPrefix, MaxCallAssumption
    DEF Read, IInv, TypeOK
  <2> QED BY <2>2, <2>3 DEF IInv, TypeOK, IndexInv
<1>3. CASE Reset
  BY <1>3, NoData, ResetRing DEF Reset, IInv, TypeOK, IndexInv
<1>4. CASE UNCHANGED vars
  BY <1>4 DEF vars, IInv, TypeOK, IndexInv
<1> QED BY <1>1, <1>2, <1>3, <1>4 DEF Next

\* Every field of the ring keeps its range under every sequence of calls of
\* BCBWrite, BCBRead and BCBReset, for every buffer_size a uint16_t can hold.
THEOREM RingTypeOK == Spec => []TypeOK
  BY InitIInv, NextIInv, PTL DEF Spec, IInv

\* front stays current_size bytes past rear.
THEOREM RingIndexInv == Spec => []IndexInv
  BY InitIInv, NextIInv, PTL DEF Spec, IInv

-----------------------------------------------------------------------------
(* The ring implements a bounded queue of bytes.                           *)

\* A ring from BCBCreateNew stands for the empty queue.
LEMMA InitQueue == Init => Queue!Init
  BY NewRing DEF Init, Queue!Init

\* Every call of the ring's interface is a step of the queue or a stutter.
LEMMA NextQueue == IInv /\ [Next]_vars => [Queue!Next]_(Queue!vars)
<1> SUFFICES ASSUME IInv, [Next]_vars
             PROVE  [Queue!Next]_(Queue!vars)
  OBVIOUS
<1> DEFINE q == Contents(bcb)
<1>1. /\ bcb \in Ring /\ IndicesAgree(bcb)
      /\ q \in Seq(Byte) /\ Len(q) = bcb.current_size
      /\ BufferSize \in Nat /\ bcb.current_size \in Nat
  BY ContentsType, RingFields DEF IInv, TypeOK, IndexInv
<1>2. ASSUME NEW data \in Data, Write(data)
      PROVE  Queue!Write(data)
  <2>1. data \in Seq(Byte)
    BY DataIsSeq
  <2>2. Fits(bcb, data) <=> Len(q) + Len(data) <= BufferSize
    BY <1>1, <2>1 DEF Fits, BCBAvailableSize
  <2>3. CASE Fits(bcb, data)
    <3>1. Contents(bcb') = q \o data
      BY <1>1, <1>2, <2>1, <2>3, WriteAppends DEF Write
    <3> QED BY <1>2, <2>2, <2>3, <3>1 DEF Write, Queue!Write
  <2>4. CASE ~Fits(bcb, data)
    <3>1. Contents(bcb') = q
      BY <1>2, <2>4 DEF Write, BCBWrite
    <3> QED BY <1>2, <2>2, <2>4, <3>1 DEF Write, Queue!Write
  <2> QED BY <2>3, <2>4
<1>3. ASSUME NEW n \in 0 .. MaxCall, NEW remove_read_bytes \in BOOLEAN,
             Read(n, remove_read_bytes)
      PROVE  Queue!Read(n, remove_read_bytes)
  <2>1. n \in Nat
    BY MaxCallAssumption
  <2>2. Holds(bcb, n) <=> n <= Len(q)
    BY <1>1 DEF Holds
  <2>3. CASE ~Holds(bcb, n)
    <3>1. bcb' = [bcb EXCEPT !.locked = TRUE]
      BY <1>3, <2>3 DEF Read, BCBRead
    <3>2. /\ bcb'.buffer = bcb.buffer
          /\ bcb'.rear = bcb.rear
          /\ bcb'.current_size = bcb.current_size
      BY <1>1, <3>1 DEF Ring
    <3>3. Contents(bcb') = q
      BY <3>2 DEF Contents
    <3> QED BY <1>3, <2>2, <2>3, <3>3 DEF Read, Queue!Read
  <2>4. CASE Holds(bcb, n)
    <3>1. out' = SubSeq(q, 1, n) /\ returned' = n
      BY <1>1, <1>3, <2>1, <2>4, FetchedIsPrefix DEF Read
    <3>2. Contents(bcb') = IF remove_read_bytes
                           THEN SubSeq(q, n + 1, Len(q)) ELSE q
      <4>1. CASE remove_read_bytes
        BY <1>1, <1>3, <2>1, <2>4, <4>1, ReadLeavesRest DEF Read
      <4>2. CASE ~remove_read_bytes
        BY <1>3, <2>4, <4>2 DEF Read, BCBRead
      <4> QED BY <4>1, <4>2
    <3> QED BY <1>3, <2>2, <2>4, <3>1, <3>2 DEF Read, Queue!Read
  <2> QED BY <2>3, <2>4
<1>4. ASSUME Reset
      PROVE  Queue!Reset
  BY <1>1, <1>4, ResetRing DEF Reset, Queue!Reset
<1>5. CASE UNCHANGED vars
  BY <1>5 DEF vars, Queue!vars
<1>6. CASE Next
  BY <1>2, <1>3, <1>4, <1>6 DEF Next, Queue!Next, Data
<1> QED BY <1>5, <1>6

\* Whatever the sizes of the calls and of the storage, a caller cannot tell
\* the ring from a queue of at most buffer_size bytes.
THEOREM RingIsByteQueue == Spec => IsByteQueue
<1>1. Spec => []IInv
  BY InitIInv, NextIInv, PTL DEF Spec
<1> QED BY <1>1, InitQueue, NextQueue, PTL DEF Spec, IsByteQueue, Queue!Spec
=============================================================================
