------------------------ MODULE TcpConnection_proofs ------------------------
(***************************************************************************)
(* Theorems about one connection with either demarcar, for every ring of   *)
(* at least a header, every set of payloads that a header can announce,    *)
(* every number of messages and every way recv cuts the stream.            *)
(***************************************************************************)
EXTENDS TcpConnection, ByteCircularBuffer_lemmas, SequenceLemmas

-----------------------------------------------------------------------------
(* Messages on the wire.                                                   *)

\* The two bytes of a header are bytes, and ntohs gives back the length.
LEMMA HeaderRoundTrip ==
  ASSUME NEW n \in Nat, n < Base * Base
  PROVE  /\ <<n \div Base, n % Base>> \in Seq(Byte)
         /\ ntohs(<<n \div Base, n % Base>>) = n
<1>1. Base \in Nat /\ Base > 0
  BY BaseAssumption
<1>2. /\ n % Base \in 0 .. Base - 1
      /\ n \div Base \in Nat
      /\ n = Base * (n \div Base) + (n % Base)
  BY <1>1
<1>3. n \div Base < Base
  BY <1>1, <1>2
<1> QED BY <1>1, <1>2, <1>3, BaseAssumption DEF ntohs

\* What the peer puts on the wire for a message is bytes.
LEMMA WireType ==
  ASSUME NEW m \in Payloads
  PROVE  m \in Seq(Byte) /\ Frame(m) \in Seq(Byte) /\ Wire(m) \in Seq(Byte)
<1>1. m \in Seq(Byte) /\ Len(m) \in Nat /\ Len(m) < Base * Base
  BY PayloadAssumption
<1>2. <<Len(m) \div Base, Len(m) % Base>> \in Seq(Byte)
  BY <1>1, HeaderRoundTrip
<1>3. Frame(m) \in Seq(Byte)
  BY <1>1, <1>2 DEF Frame
<1> QED BY <1>1, <1>3 DEF Wire

\* The sequences that OnWire concatenates.
Wires(msgs) == [k \in DOMAIN msgs |-> Wire(msgs[k])]

\* They are sequences of bytes, one for each message.
LEMMA WiresType ==
  ASSUME NEW msgs \in Seq(Payloads)
  PROVE  Wires(msgs) \in Seq(Seq(Byte)) /\ Len(Wires(msgs)) = Len(msgs)
<1>1. \A k \in 1 .. Len(msgs) : Wire(msgs[k]) \in Seq(Byte)
  BY WireType
<1>2. Wires(msgs) = [k \in 1 .. Len(msgs) |-> Wire(msgs[k])]
  BY DEF Wires
<1> DEFINE T == Seq(Byte)
<1>3. \A k \in 1 .. Len(msgs) : Wire(msgs[k]) \in T
  BY <1>1
<1> HIDE DEF T
<1>4. Wires(msgs) \in Seq(T) /\ Len(Wires(msgs)) = Len(msgs)
  BY <1>2, <1>3
<1> QED BY <1>4 DEF T

\* The bytes of a sequence of messages.
LEMMA OnWireType ==
  ASSUME NEW msgs \in Seq(Payloads)
  PROVE  OnWire(msgs) \in Seq(Byte)
<1>1. OnWire(msgs) = FlattenSeq(Wires(msgs))
  BY DEF OnWire, Wires
<1> QED BY <1>1, WiresType, FlattenSeqType

\* No messages are no bytes.
LEMMA OnWireEmpty == OnWire(<<>>) = <<>>
  BY DEF OnWire, FlattenSeq

\* One message more.
LEMMA OnWireAppend ==
  ASSUME NEW msgs \in Seq(Payloads), NEW m \in Payloads
  PROVE  OnWire(Append(msgs, m)) = Cat(OnWire(msgs), Wire(m))
<1>1. Wires(Append(msgs, m)) = Append(Wires(msgs), Wire(m))
  BY WiresType DEF Wires
<1>2. FlattenSeq(Append(Wires(msgs), Wire(m))) = FlattenSeq(Wires(msgs)) \o Wire(m)
  BY WiresType, WireType, FlattenAppend
<1> QED BY <1>1, <1>2 DEF OnWire, Wires, Cat

\* The bytes of two sequences of messages, one after the other.
LEMMA OnWireConcat ==
  ASSUME NEW msgs \in Seq(Payloads), NEW more \in Seq(Payloads)
  PROVE  OnWire(msgs \o more) = Cat(OnWire(msgs), OnWire(more))
<1>1. Wires(msgs \o more) = Wires(msgs) \o Wires(more)
  <2> DEFINE T == Seq(Byte)
             all == msgs \o more
  <2>1. /\ all \in Seq(Payloads) /\ Len(all) = Len(msgs) + Len(more)
        /\ \A k \in 1 .. Len(all) :
              all[k] = IF k <= Len(msgs) THEN msgs[k] ELSE more[k - Len(msgs)]
    OBVIOUS
  <2> HIDE DEF T, all
  <2>2. PICK x \in Seq(T) : x = Wires(msgs) /\ Len(x) = Len(msgs)
    BY WiresType, Zenon DEF T
  <2>3. PICK y \in Seq(T) : y = Wires(more) /\ Len(y) = Len(more)
    BY WiresType, Zenon DEF T
  <2>4. PICK w \in Seq(T) : w = Wires(all) /\ Len(w) = Len(all)
    BY <2>1, WiresType, Zenon DEF T
  <2>5. /\ \A k \in 1 .. Len(msgs) : x[k] = Wire(msgs[k])
        /\ \A k \in 1 .. Len(more) : y[k] = Wire(more[k])
        /\ \A k \in 1 .. Len(all) : w[k] = Wire(all[k])
    BY <2>1, <2>2, <2>3, <2>4 DEF Wires
  <2>6. ASSUME NEW k \in 1 .. Len(w)
        PROVE  w[k] = IF k <= Len(x) THEN x[k] ELSE y[k - Len(x)]
    <3>1. w[k] = Wire(all[k])
      BY <2>4, <2>5
    <3>2. CASE k <= Len(msgs)
      <4>1. all[k] = msgs[k] /\ x[k] = Wire(msgs[k])
        BY <2>1, <2>4, <2>5, <3>2
      <4> QED BY <2>2, <3>1, <3>2, <4>1
    <3>3. CASE ~(k <= Len(msgs))
      <4>1. PICK j \in 1 .. Len(more) : j = k - Len(msgs)
        BY <2>1, <2>4, <3>3
      <4>2. all[k] = more[j] /\ y[j] = Wire(more[j])
        BY <2>1, <2>4, <2>5, <3>3, <4>1
      <4> QED BY <2>2, <3>1, <3>3, <4>1, <4>2
    <3> QED BY <3>2, <3>3
  <2>7. Len(w) = Len(x) + Len(y)
    BY <2>1, <2>2, <2>3, <2>4
  <2>8. w = x \o y
    BY ONLY <2>6, <2>7, IsConcat
  <2> QED BY <2>2, <2>3, <2>4, <2>8 DEF all
<1>2. FlattenSeq(Wires(msgs) \o Wires(more)) =
        FlattenSeq(Wires(msgs)) \o FlattenSeq(Wires(more))
  BY WiresType, FlattenConcat
<1> QED BY <1>1, <1>2 DEF OnWire, Wires, Cat

\* The messages after the first n begin with message n + 1.
LEMMA OnWireNext ==
  ASSUME NEW msgs \in Seq(Payloads), NEW n \in Nat, n < Len(msgs)
  PROVE  \E z \in Seq(Byte) :
           OnWire(msgs) = Cat(OnWire(SubSeq(msgs, 1, n)), Cat(Wire(msgs[n + 1]), z))
<1>1. PICK k \in Nat : k = n + 1 /\ k <= Len(msgs)
  OBVIOUS
<1> DEFINE first == SubSeq(msgs, 1, n)
           m == msgs[k]
           rest == SubSeq(msgs, k + 1, Len(msgs))
<1>2. first \in Seq(Payloads) /\ m \in Payloads /\ rest \in Seq(Payloads)
  BY <1>1
<1>3. Append(first, m) \o rest = msgs
  <2>1. SubSeq(msgs, 1, k) \o rest = msgs
    BY <1>1, CutInTwo
  <2>2. SubSeq(msgs, 1, k) = Append(first, m)
    BY <1>1
  <2> QED BY <2>1, <2>2
<1> HIDE DEF first, m, rest
<1>4. Append(first, m) \in Seq(Payloads)
  BY <1>2
<1>5. OnWire(msgs) = Cat(OnWire(Append(first, m)), OnWire(rest))
  BY <1>2, <1>3, <1>4, OnWireConcat
<1>6. OnWire(Append(first, m)) = Cat(OnWire(first), Wire(m))
  BY <1>2, OnWireAppend
<1>7. /\ OnWire(first) \in Seq(Byte) /\ Wire(m) \in Seq(Byte) /\ OnWire(rest) \in Seq(Byte)
      /\ Cat(Cat(OnWire(first), Wire(m)), OnWire(rest)) =
           Cat(OnWire(first), Cat(Wire(m), OnWire(rest)))
  BY <1>2, OnWireType, WireType, CatAssociative
<1>8. OnWire(msgs) = Cat(OnWire(first), Cat(Wire(m), OnWire(rest)))
  BY <1>5, <1>6, <1>7
<1> QED BY <1>1, <1>7, <1>8 DEF first, m

-----------------------------------------------------------------------------
(* Taking a message out of the ring.                                       *)

\* A read of a ring whose contents begin with x returns x and leaves the
\* rest; nothing else of the ring changes.
LEMMA TakeBytes ==
  ASSUME NEW b \in Ring, IndicesAgree(b), NEW n \in Nat, Holds(b, n),
         NEW u \in Seq(Byte), NEW x \in Seq(Byte), NEW z \in Seq(Byte),
         Len(x) = n, Same(Contents(b), u, x, z)
  PROVE  /\ Fetched(b, n) = x
         /\ BCBRead(b, n, TRUE) \in Ring
         /\ IndicesAgree(BCBRead(b, n, TRUE))
         /\ Joins(z, Contents(BCBRead(b, n, TRUE)), u)
         /\ BCBRead(b, n, TRUE).current_size = b.current_size - n
         /\ BCBRead(b, n, TRUE).locked = b.locked
<1>1. BCBRead(b, n, TRUE) \in Ring /\ IndicesAgree(BCBRead(b, n, TRUE))
  BY ReadType, ReadIndices
<1>2. /\ BCBRead(b, n, TRUE).current_size = b.current_size - n
      /\ BCBRead(b, n, TRUE).locked = b.locked
  BY DEF BCBRead, Ring
<1>3. PICK c \in Seq(Byte) : c = Contents(b) /\ Len(c) = b.current_size
  BY ContentsType
<1>4. Len(x) <= Len(c) /\ Same(c, u, x, z)
  BY <1>3 DEF Holds
<1>5. /\ SubSeq(c, 1, Len(x)) = x
      /\ Joins(z, SubSeq(c, Len(x) + 1, Len(c)), u)
  BY ONLY <1>4, PrefixTaken, c \in Seq(Byte), u \in Seq(Byte), x \in Seq(Byte),
          z \in Seq(Byte)
<1>6. Fetched(b, n) = SubSeq(c, 1, Len(x))
  BY <1>3, FetchedIsPrefix
<1>7. Contents(BCBRead(b, n, TRUE)) = SubSeq(c, Len(x) + 1, Len(c))
  BY <1>3, ReadLeavesRest
<1> QED BY <1>1, <1>2, <1>5, <1>6, <1>7

\* What the connection owes the application: delivered is the beginning of
\* sent, and the bytes of the rest are, in this order, in the ring, in the
\* receive buffer, in the socket, or lost by a reset.
DeliveredPrefix ==
    /\ Len(delivered) <= Len(sent)
    /\ delivered = SubSeq(sent, 1, Len(delivered))

Travels(lost) ==
    /\ InTransit(OnWire(sent), OnWire(delivered), Contents(bcb),
                 client_recv_buffer, rx, lost)
    /\ peer # "reset" => lost = <<>>

Accounted == \E lost \in Seq(Byte) : Travels(lost)

\* The step delivers m and leaves b as the ring.
Delivers(m, b, lost) ==
    /\ m \in Payloads
    /\ Len(delivered) < Len(sent) /\ m = sent[Len(delivered) + 1]
    /\ b \in Ring /\ IndicesAgree(b) /\ b.locked = bcb.locked
    /\ InTransit(OnWire(sent), OnWire(Append(delivered, m)), Contents(b),
                 client_recv_buffer, rx, lost)

\* A ring that is not empty begins with a part of the next message.
LEMMA NextMessage ==
  ASSUME TypeOK, DeliveredPrefix, NEW lost \in Seq(Byte), Travels(lost),
         bcb.current_size > 0
  PROVE  LET u == Cat(client_recv_buffer, Cat(rx, lost))
             m == sent[Len(delivered) + 1]
         IN  /\ Len(delivered) < Len(sent)
             /\ m \in Payloads
             /\ u \in Seq(Byte)
             /\ \E z \in Seq(Byte) :
                  /\ OnWire(sent) = Cat(OnWire(delivered), Cat(Wire(m), z))
                  /\ Same(Contents(bcb), u, Wire(m), z)
<1> DEFINE a == OnWire(sent)
           d == OnWire(delivered)
           c == Contents(bcb)
           m == sent[Len(delivered) + 1]
<1>1. /\ sent \in Seq(Payloads) /\ delivered \in Seq(Payloads)
      /\ client_recv_buffer \in Seq(Byte) /\ rx \in Seq(Byte) /\ bcb \in Ring
  BY DEF TypeOK, DemarcarTypeOK
<1>2. c \in Seq(Byte) /\ Len(c) > 0
  BY <1>1, ContentsType
<1>3. d \in Seq(Byte)
  BY <1>1, OnWireType
<1>4. InTransit(a, d, c, client_recv_buffer, rx, lost)
  BY DEF Travels
<1> HIDE DEF a, d, c
<1>5. a # d
  BY <1>1, <1>2, <1>3, <1>4, TransitPending, Zenon
<1>6. sent # delivered
  BY <1>5 DEF a, d
<1>7. Len(delivered) < Len(sent)
  BY <1>1, <1>6 DEF DeliveredPrefix
<1>8. m \in Payloads
  BY <1>1, <1>7
<1>9. PICK z \in Seq(Byte) : a = Cat(d, Cat(Wire(m), z))
  <2>1. PICK n \in Nat : n = Len(delivered)
    BY <1>1
  <2> QED BY <1>1, <1>7, <2>1, OnWireNext DEF a, d, DeliveredPrefix
<1>10. Wire(m) \in Seq(Byte)
  BY <1>8, WireType
<1> HIDE DEF m
<1>11. /\ Cat(client_recv_buffer, Cat(rx, lost)) \in Seq(Byte)
       /\ Same(c, Cat(client_recv_buffer, Cat(rx, lost)), Wire(m), z)
  BY <1>1, <1>2, <1>3, <1>4, <1>9, <1>10, TransitNext, Zenon
<1> QED BY <1>7, <1>8, <1>9, <1>11 DEF a, d, c, m

\* IsBufferReadyToFlush of the length-prefixed demarcar: the header and the
\* payload taken are those of the next message.
LEMMA FlushTakes ==
  ASSUME TypeOK, DeliveredPrefix, NEW lost \in Seq(Byte), Travels(lost),
         IndicesAgree(bcb), FIX_SIZE_DEMAR = 0, VariabSizeReady(bcb)
  PROVE  LET msg_len == ntohs(Fetched(bcb, HDR_MSG_SIZE))
             payload == BCBRead(bcb, HDR_MSG_SIZE, TRUE)
         IN  Delivers(Fetched(payload, msg_len), BCBRead(payload, msg_len, TRUE), lost)
<1> DEFINE u == Cat(client_recv_buffer, Cat(rx, lost))
           m == sent[Len(delivered) + 1]
           n == Len(m)
           hdr == <<n \div Base, n % Base>>
           payload == BCBRead(bcb, HDR_MSG_SIZE, TRUE)
           left == BCBRead(payload, n, TRUE)
<1>1. /\ sent \in Seq(Payloads) /\ delivered \in Seq(Payloads)
      /\ client_recv_buffer \in Seq(Byte) /\ rx \in Seq(Byte) /\ bcb \in Ring
  BY DEF TypeOK, DemarcarTypeOK
<1>2. bcb.current_size > 0 /\ HDR_MSG_SIZE \in Nat /\ Holds(bcb, HDR_MSG_SIZE)
  BY <1>1, RingFields DEF VariabSizeReady, Holds, HDR_MSG_SIZE
<1>3. /\ Len(delivered) < Len(sent) /\ m \in Payloads /\ u \in Seq(Byte)
      /\ \E z \in Seq(Byte) :
           /\ OnWire(sent) = Cat(OnWire(delivered), Cat(Wire(m), z))
           /\ Same(Contents(bcb), u, Wire(m), z)
  BY <1>2, NextMessage
<1> HIDE DEF u, m
<1>4. PICK z \in Seq(Byte) : /\ OnWire(sent) = Cat(OnWire(delivered), Cat(Wire(m), z))
                             /\ Same(Contents(bcb), u, Wire(m), z)
  BY <1>3
<1>5. m \in Seq(Byte) /\ n \in Nat /\ n < Base * Base
  BY <1>3, PayloadAssumption
<1> HIDE DEF n
<1>6. hdr \in Seq(Byte) /\ Len(hdr) = HDR_MSG_SIZE /\ ntohs(hdr) = n
  BY <1>5, HeaderRoundTrip DEF HDR_MSG_SIZE
<1>7. Wire(m) = Cat(hdr, m)
  BY DEF Wire, Frame, Cat, n
<1> HIDE DEF hdr
<1>8. Cat(m, z) \in Seq(Byte) /\ Cat(Cat(hdr, m), z) = Cat(hdr, Cat(m, z))
  BY <1>5, <1>6, CatType, CatAssociative
<1>9. Same(Contents(bcb), u, hdr, Cat(m, z))
  BY <1>4, <1>7, <1>8 DEF Same, Cat
<1>10. /\ Fetched(bcb, HDR_MSG_SIZE) = hdr
       /\ payload \in Ring /\ IndicesAgree(payload)
       /\ Joins(Cat(m, z), Contents(payload), u)
       /\ payload.current_size = bcb.current_size - HDR_MSG_SIZE
       /\ payload.locked = bcb.locked
  BY <1>1, <1>2, <1>3, <1>6, <1>8, <1>9, TakeBytes
<1> HIDE DEF payload
<1>11. Holds(payload, n)
  <2>1. bcb.current_size >= HDR_MSG_SIZE + n
    BY <1>6, <1>10 DEF VariabSizeReady
  <2>2. bcb.current_size \in Nat
    BY <1>1, RingFields
  <2> QED BY ONLY <1>2, <1>5, <1>10, <2>1, <2>2 DEF Holds
<1>12. Same(Contents(payload), u, m, z)
  BY <1>10 DEF Joins, Same, Cat
<1>13. /\ Fetched(payload, n) = m
       /\ left \in Ring /\ IndicesAgree(left)
       /\ Joins(z, Contents(left), u)
       /\ left.locked = payload.locked
  BY <1>3, <1>5, <1>10, <1>11, <1>12, TakeBytes DEF n
<1> HIDE DEF left
<1>14. InTransit(OnWire(sent), OnWire(Append(delivered, m)), Contents(left),
                 client_recv_buffer, rx, lost)
  <2>1. OnWire(Append(delivered, m)) = Cat(OnWire(delivered), Wire(m))
    BY <1>1, <1>3, OnWireAppend
  <2>2. OnWire(delivered) \in Seq(Byte) /\ Wire(m) \in Seq(Byte)
    BY <1>1, <1>3, OnWireType, WireType
  <2> QED BY <1>4, <1>13, <2>1, <2>2, TransitTake, Zenon DEF u
<1> QED BY <1>3, <1>6, <1>10, <1>13, <1>14 DEF Delivers, left, payload, m

\* The fixed-size demarcar: the bytes taken are those of the next message.
LEMMA DrainTakes ==
  ASSUME TypeOK, DeliveredPrefix, NEW lost \in Seq(Byte), Travels(lost),
         IndicesAgree(bcb), FIX_SIZE_DEMAR = 1, Holds(bcb, msg_fixed_size),
         \A k \in 1 .. Len(sent) : Len(sent[k]) = msg_fixed_size
  PROVE  Delivers(Fetched(bcb, msg_fixed_size), BCBRead(bcb, msg_fixed_size, TRUE), lost)
<1> DEFINE u == Cat(client_recv_buffer, Cat(rx, lost))
           m == sent[Len(delivered) + 1]
           left == BCBRead(bcb, msg_fixed_size, TRUE)
<1>1. /\ sent \in Seq(Payloads) /\ delivered \in Seq(Payloads)
      /\ client_recv_buffer \in Seq(Byte) /\ rx \in Seq(Byte) /\ bcb \in Ring
  BY DEF TypeOK, DemarcarTypeOK
<1>2. msg_fixed_size \in Nat /\ msg_fixed_size > 0 /\ bcb.current_size > 0
  BY <1>1, FixedSizeAssumption, RingFields DEF Holds
<1>3. /\ Len(delivered) < Len(sent) /\ m \in Payloads /\ u \in Seq(Byte)
      /\ \E z \in Seq(Byte) :
           /\ OnWire(sent) = Cat(OnWire(delivered), Cat(Wire(m), z))
           /\ Same(Contents(bcb), u, Wire(m), z)
  BY <1>2, NextMessage
<1>4. Len(m) = msg_fixed_size
  BY <1>1, <1>3
<1> HIDE DEF u, m
<1>5. Wire(m) = m /\ m \in Seq(Byte)
  BY <1>3, PayloadAssumption DEF Wire
<1>6. PICK z \in Seq(Byte) : /\ OnWire(sent) = Cat(OnWire(delivered), Cat(m, z))
                             /\ Same(Contents(bcb), u, m, z)
  BY <1>3, <1>5
<1>7. /\ Fetched(bcb, msg_fixed_size) = m
      /\ left \in Ring /\ IndicesAgree(left)
      /\ Joins(z, Contents(left), u)
      /\ left.locked = bcb.locked
  BY <1>1, <1>2, <1>3, <1>4, <1>5, <1>6, TakeBytes
<1> HIDE DEF left
<1>8. InTransit(OnWire(sent), OnWire(Append(delivered, m)), Contents(left),
                client_recv_buffer, rx, lost)
  <2>1. OnWire(Append(delivered, m)) = Cat(OnWire(delivered), m)
    BY <1>1, <1>3, <1>5, OnWireAppend
  <2>2. OnWire(delivered) \in Seq(Byte)
    BY <1>1, OnWireType
  <2> QED BY <1>5, <1>6, <1>7, <2>1, <2>2, TransitTake, Zenon DEF u
<1> QED BY <1>3, <1>7, <1>8 DEF Delivers, left, m

-----------------------------------------------------------------------------
(* The inductive invariant.                                                *)

\* The peer of a fixed-size build keeps to the size.
Conforming ==
    FIX_SIZE_DEMAR = 1 =>
        \A k \in 1 .. Len(sent) : Len(sent[k]) = msg_fixed_size

\* recv never returns more than ProcessMsg finds room for, and nothing stays
\* in the receive buffer after ProcessMsg.
BufferFits ==
    IF pc = "ProcessMsg" THEN Len(client_recv_buffer) <= BCBAvailableSize(bcb)
                         ELSE client_recv_buffer = <<>>

IInv ==
    /\ TypeOK
    /\ IndicesAgree(bcb)
    /\ Conforming
    /\ BufferFits
    /\ DeliveredPrefix
    /\ Accounted
    /\ NothingReadyLeft
    /\ MutexFree

\* The demarcar of a connection does not change, so neither do the bytes of
\* a message.
LEMMA OnWirePrimed ==
  ASSUME UNCHANGED FIX_SIZE_DEMAR
  PROVE  /\ OnWire(sent)' = OnWire(sent')
         /\ OnWire(delivered)' = OnWire(delivered')
  BY DEF OnWire, Wire

\* It holds initially.
LEMMA IInvInit == Init => IInv
<1> SUFFICES ASSUME Init PROVE IInv
  OBVIOUS
<1> USE DEF Init, ConnectionInit
<1>1. TypeOK
  BY NewRing, BuildsAssumption DEF TypeOK, DemarcarTypeOK, PC
<1>2. IndicesAgree(bcb) /\ Contents(bcb) = <<>>
  BY NewRing
<1>3. Conforming /\ BufferFits /\ DeliveredPrefix
  BY DEF Conforming, BufferFits, DeliveredPrefix
<1>4. Accounted
  <2>1. Travels(<<>>)
    <3>1. Cat(<<>>, <<>>) = <<>>
      BY DEF Cat
    <3>2. <<>> = Cat(<<>>, Cat(<<>>, Cat(<<>>, Cat(<<>>, <<>>))))
      BY <3>1
    <3>3. InTransit(<<>>, <<>>, <<>>, <<>>, <<>>, <<>>)
      BY <3>2, TransitCat, Zenon
    <3>4. OnWire(sent) = <<>> /\ OnWire(delivered) = <<>>
      BY OnWireEmpty
    <3>5. client_recv_buffer = <<>> /\ rx = <<>>
      OBVIOUS
    <3> HIDE DEF Init, ConnectionInit
    <3> QED BY <1>2, <3>3, <3>4, <3>5 DEF Travels
  <2> QED BY <2>1, EmptyInSeq DEF Accounted
<1>5. NothingReadyLeft
  <2>1. bcb.current_size = 0
    BY DEF BCBCreateNew
  <2>2. ~VariabSizeReady(bcb)
    BY ONLY <2>1 DEF VariabSizeReady, HDR_MSG_SIZE
  <2>3. ~FixedSizeReady(bcb)
    BY ONLY <2>1, FixedSizeAssumption, BufferSizeAssumption DEF FixedSizeReady
  <2> QED BY <2>2, <2>3 DEF NothingReadyLeft, IsBufferReadyToFlush
<1>6. MutexFree
  BY DEF MutexFree, BCBCreateNew
<1> QED BY <1>1, <1>2, <1>3, <1>4, <1>5, <1>6 DEF IInv

\* Nothing of the stream moves.
LEMMA AccountedKept ==
  ASSUME Accounted, UNCHANGED <<sent, delivered, bcb, client_recv_buffer, rx, FIX_SIZE_DEMAR>>,
         peer' # "reset" => peer # "reset"
  PROVE  Accounted'
<1>1. PICK lost \in Seq(Byte) : Travels(lost)
  BY DEF Accounted
<1>2. OnWire(sent)' = OnWire(sent) /\ OnWire(delivered)' = OnWire(delivered)
  BY OnWirePrimed
<1>3. Contents(bcb)' = Contents(bcb)
  OBVIOUS
<1>4. Travels(lost)'
  BY <1>1, <1>2, <1>3 DEF Travels
<1> QED BY <1>4 DEF Accounted

\* Steps that move nothing but the thread: to a place that is not ProcessMsg
\* and, if the thread stops looking for messages, with none left to find.
LEMMA OnlyThreadMoves ==
  ASSUME IInv, UNCHANGED <<socketVars, client_recv_buffer, bcb, delivered, FIX_SIZE_DEMAR>>,
         pc # "ProcessMsg", pc' \in PC, pc' # "ProcessMsg",
         pc' \in {"epoll_wait", "recv"} => ~IsBufferReadyToFlush
  PROVE  IInv'
<1> USE DEF socketVars
<1>1. TypeOK'
  BY DEF IInv, TypeOK, DemarcarTypeOK
<1>2. IndicesAgree(bcb)' /\ Conforming' /\ BufferFits' /\ DeliveredPrefix' /\ MutexFree'
  BY DEF IInv, IndicesAgree, Conforming, BufferFits, DeliveredPrefix, MutexFree
<1>3. Accounted'
  BY AccountedKept DEF IInv
<1>4. NothingReadyLeft'
  BY DEF NothingReadyLeft, IsBufferReadyToFlush, FixedSizeReady, VariabSizeReady
<1> QED BY <1>1, <1>2, <1>3, <1>4 DEF IInv

\* The peer sends a message.
LEMMA SendStep ==
  ASSUME IInv, Send, UNCHANGED FIX_SIZE_DEMAR
  PROVE  IInv'
<1>1. PICK m \in Payloads :
         /\ FIX_SIZE_DEMAR = 1 => Len(m) = msg_fixed_size
         /\ PeerSend(m, Wire(m))
  BY DEF Send, FixedPayloads
<1> USE DEF PeerSend
<1>2. Wire(m) \in Seq(Byte) /\ rx \in Seq(Byte) /\ sent \in Seq(Payloads)
  BY WireType DEF IInv, TypeOK, DemarcarTypeOK
<1>3. TypeOK'
  BY <1>1, <1>2 DEF IInv, TypeOK, DemarcarTypeOK
<1>4. IndicesAgree(bcb)' /\ BufferFits' /\ MutexFree' /\ NothingReadyLeft'
  BY <1>1 DEF IInv, IndicesAgree, BufferFits, MutexFree, NothingReadyLeft,
              IsBufferReadyToFlush, FixedSizeReady, VariabSizeReady
<1>5. Conforming' /\ DeliveredPrefix'
  BY <1>1, <1>2 DEF IInv, Conforming, DeliveredPrefix, TypeOK, DemarcarTypeOK
<1>6. Accounted'
  <2>1. PICK lost \in Seq(Byte) : Travels(lost)
    BY DEF IInv, Accounted
  <2>2. lost = <<>> /\ InTransit(OnWire(sent), OnWire(delivered), Contents(bcb),
                                 client_recv_buffer, rx, <<>>)
    BY <1>1, <2>1 DEF Travels
  <2>3. /\ OnWire(delivered) \in Seq(Byte) /\ Contents(bcb) \in Seq(Byte)
        /\ client_recv_buffer \in Seq(Byte)
    BY OnWireType, ContentsType DEF IInv, TypeOK, DemarcarTypeOK
  <2>4. InTransit(Cat(OnWire(sent), Wire(m)), OnWire(delivered), Contents(bcb),
                  client_recv_buffer, Cat(rx, Wire(m)), <<>>)
    BY <1>2, <2>2, <2>3, TransitPut, Zenon
  <2>5. OnWire(sent)' = Cat(OnWire(sent), Wire(m)) /\ OnWire(delivered)' = OnWire(delivered)
    BY <1>1, <1>2, OnWirePrimed, OnWireAppend
  <2>6. rx' = Cat(rx, Wire(m))
    BY <1>1 DEF Cat
  <2>7. Contents(bcb)' = Contents(bcb) /\ client_recv_buffer' = client_recv_buffer
    BY <1>1
  <2>8. Travels(lost)'
    BY <2>2, <2>4, <2>5, <2>6, <2>7 DEF Travels
  <2> QED BY <2>8 DEF Accounted
<1> QED BY <1>3, <1>4, <1>5, <1>6 DEF IInv

\* The peer closes.
LEMMA CloseStep ==
  ASSUME IInv, PeerClose, UNCHANGED FIX_SIZE_DEMAR
  PROVE  IInv'
<1> USE DEF PeerClose
<1>1. TypeOK'
  BY DEF IInv, TypeOK, DemarcarTypeOK
<1>2. IndicesAgree(bcb)' /\ Conforming' /\ BufferFits' /\ DeliveredPrefix' /\ MutexFree'
  BY DEF IInv, IndicesAgree, Conforming, BufferFits, DeliveredPrefix, MutexFree
<1>3. Accounted'
  BY AccountedKept DEF IInv
<1>4. NothingReadyLeft'
  BY DEF IInv, NothingReadyLeft, IsBufferReadyToFlush, FixedSizeReady, VariabSizeReady
<1> QED BY <1>1, <1>2, <1>3, <1>4 DEF IInv

\* A reset loses what is in the socket.
LEMMA ResetStep ==
  ASSUME IInv, PeerReset, UNCHANGED FIX_SIZE_DEMAR
  PROVE  IInv'
<1> USE DEF PeerReset
<1>1. TypeOK'
  BY EmptyInSeq DEF IInv, TypeOK, DemarcarTypeOK
<1>2. IndicesAgree(bcb)' /\ Conforming' /\ BufferFits' /\ DeliveredPrefix' /\ MutexFree'
  BY DEF IInv, IndicesAgree, Conforming, BufferFits, DeliveredPrefix, MutexFree
<1>3. Accounted'
  <2>1. PICK lost \in Seq(Byte) : Travels(lost)
    BY DEF IInv, Accounted
  <2>2. rx \in Seq(Byte)
    BY DEF IInv, TypeOK, DemarcarTypeOK
  <2>3. PICK gone \in Seq(Byte) : gone = Cat(rx, lost)
    BY <2>2, CatType, Zenon
  <2>4. InTransit(OnWire(sent), OnWire(delivered), Contents(bcb),
                  client_recv_buffer, <<>>, gone)
    BY <2>1, <2>2, <2>3, TransitLose, Zenon DEF Travels
  <2>5. OnWire(sent)' = OnWire(sent) /\ OnWire(delivered)' = OnWire(delivered)
    BY OnWirePrimed
  <2>6. Contents(bcb)' = Contents(bcb) /\ client_recv_buffer' = client_recv_buffer
        /\ rx' = <<>> /\ peer' = "reset"
    OBVIOUS
  <2>7. Travels(gone)'
    BY <2>4, <2>5, <2>6 DEF Travels
  <2> QED BY <2>7 DEF Accounted
<1>4. NothingReadyLeft'
  BY DEF IInv, NothingReadyLeft, IsBufferReadyToFlush, FixedSizeReady, VariabSizeReady
<1> QED BY <1>1, <1>2, <1>3, <1>4 DEF IInv

\* recv takes a beginning of what is in the socket.
LEMMA RecvStep ==
  ASSUME IInv, Recv, UNCHANGED FIX_SIZE_DEMAR
  PROVE  IInv'
<1>1. PICK n \in 1 .. BCBAvailableSize(bcb) :
         /\ n <= Len(rx)
         /\ client_recv_buffer' = SubSeq(rx, 1, n)
         /\ rx' = SubSeq(rx, n + 1, Len(rx))
  BY DEF Recv
<1>2. /\ pc = "recv" /\ pc' = "ProcessMsg"
      /\ UNCHANGED <<peer, sent, bcb, delivered>>
  BY DEF Recv
<1>3. rx \in Seq(Byte) /\ n \in Nat /\ bcb \in Ring /\ client_recv_buffer = <<>>
  BY <1>2, RingFields DEF IInv, TypeOK, DemarcarTypeOK, BCBAvailableSize, BufferFits
<1>4. /\ client_recv_buffer' \in Seq(Byte) /\ Len(client_recv_buffer') = n
      /\ rx' \in Seq(Byte)
  BY <1>1, <1>3, CutInTwo
<1>5. TypeOK'
  BY <1>2, <1>4 DEF IInv, TypeOK, DemarcarTypeOK, PC
<1>6. IndicesAgree(bcb)' /\ Conforming' /\ DeliveredPrefix' /\ MutexFree' /\ NothingReadyLeft'
  BY <1>2 DEF IInv, IndicesAgree, Conforming, DeliveredPrefix, MutexFree, NothingReadyLeft
<1>7. BufferFits'
  BY <1>2, <1>3, <1>4, RingFields DEF BufferFits, BCBAvailableSize
<1>8. Accounted'
  <2>1. PICK lost \in Seq(Byte) : Travels(lost)
    BY DEF IInv, Accounted
  <2>2. InTransit(OnWire(sent), OnWire(delivered), Contents(bcb), <<>>, rx, lost)
    BY <1>3, <2>1 DEF Travels
  <2>3. InTransit(OnWire(sent), OnWire(delivered), Contents(bcb),
                  SubSeq(rx, 1, n), SubSeq(rx, n + 1, Len(rx)), lost)
    BY <1>1, <1>3, <2>2, TransitMove, Zenon
  <2>4. OnWire(sent)' = OnWire(sent) /\ OnWire(delivered)' = OnWire(delivered)
    BY <1>2, OnWirePrimed
  <2>5. Contents(bcb)' = Contents(bcb)
    BY <1>2
  <2>6. Travels(lost)'
    BY <1>1, <1>2, <2>1, <2>3, <2>4, <2>5 DEF Travels
  <2> QED BY <2>6 DEF Accounted
<1> QED BY <1>5, <1>6, <1>7, <1>8 DEF IInv

\* ProcessMsg stores all of the receive buffer: there is always room.
LEMMA ProcessMsgStep ==
  ASSUME IInv, ProcessMsg, UNCHANGED FIX_SIZE_DEMAR
  PROVE  IInv'
<1> DEFINE data == client_recv_buffer
<1>1. /\ bcb \in Ring /\ IndicesAgree(bcb) /\ data \in Seq(Byte)
      /\ Fits(bcb, data) /\ rx \in Seq(Byte)
  BY DEF IInv, TypeOK, DemarcarTypeOK, BufferFits, ProcessMsg, Fits
<1>2. /\ bcb' = BCBWrite(bcb, data) /\ client_recv_buffer' = <<>>
      /\ pc' = "ProcessClientMsg"
      /\ UNCHANGED <<socketVars, delivered>>
  BY <1>1 DEF ProcessMsg, Fits
<1>3. bcb' \in Ring /\ IndicesAgree(bcb')
  BY <1>1, <1>2, WriteType, WriteIndices
<1>4. TypeOK'
  BY <1>2, <1>3, EmptyInSeq DEF IInv, TypeOK, DemarcarTypeOK, PC, socketVars
<1>5. IndicesAgree(bcb)'
  BY <1>3 DEF IndicesAgree
<1>6. Conforming' /\ DeliveredPrefix' /\ NothingReadyLeft' /\ BufferFits'
  BY <1>2 DEF IInv, Conforming, DeliveredPrefix, NothingReadyLeft, BufferFits, socketVars
<1>7. MutexFree'
  BY <1>1, <1>2 DEF IInv, MutexFree, BCBWrite, Ring
<1>8. Accounted'
  <2>1. PICK lost \in Seq(Byte) : Travels(lost)
    BY DEF IInv, Accounted
  <2>2. Contents(bcb) \in Seq(Byte)
    BY <1>1, ContentsType
  <2>3. InTransit(OnWire(sent), OnWire(delivered), Cat(Contents(bcb), data), <<>>, rx, lost)
    BY <1>1, <2>1, <2>2, TransitStore, Zenon DEF Travels
  <2>4. Contents(bcb)' = Cat(Contents(bcb), data)
    BY <1>1, <1>2, WriteAppends DEF Cat
  <2>5. OnWire(sent)' = OnWire(sent) /\ OnWire(delivered)' = OnWire(delivered)
    BY <1>2, OnWirePrimed DEF socketVars
  <2>6. Travels(lost)'
    BY <1>2, <2>1, <2>3, <2>4, <2>5 DEF Travels, socketVars
  <2> QED BY <2>6 DEF Accounted
<1> QED BY <1>4, <1>5, <1>6, <1>7, <1>8 DEF IInv

\* A message goes to the application.
LEMMA DeliverStep ==
  ASSUME IInv, NEW lost \in Seq(Byte), Travels(lost), NEW m, Delivers(m, bcb', lost),
         delivered' = Append(delivered, m), pc # "ProcessMsg",
         UNCHANGED <<socketVars, pc, client_recv_buffer, FIX_SIZE_DEMAR>>
  PROVE  /\ TypeOK' /\ IndicesAgree(bcb)' /\ Conforming' /\ BufferFits'
         /\ DeliveredPrefix' /\ Accounted' /\ MutexFree'
<1> USE DEF socketVars
<1>1. /\ sent \in Seq(Payloads) /\ delivered \in Seq(Payloads) /\ m \in Payloads
      /\ Len(delivered) < Len(sent) /\ m = sent[Len(delivered) + 1]
      /\ delivered = SubSeq(sent, 1, Len(delivered))
      /\ bcb' \in Ring /\ IndicesAgree(bcb') /\ bcb'.locked = bcb.locked
  BY DEF IInv, TypeOK, DemarcarTypeOK, Delivers, DeliveredPrefix
<1>2. TypeOK'
  BY <1>1 DEF IInv, TypeOK, DemarcarTypeOK
<1>3. IndicesAgree(bcb)' /\ Conforming' /\ BufferFits' /\ MutexFree'
  BY <1>1 DEF IInv, IndicesAgree, Conforming, BufferFits, MutexFree
<1>4. DeliveredPrefix'
  <2>1. PICK n \in Nat : n = Len(delivered) /\ n < Len(sent)
    <3>1. Len(delivered) \in Nat
      BY <1>1
    <3> QED BY <1>1, <3>1
  <2>2. SubSeq(sent, 1, n + 1) = Append(SubSeq(sent, 1, n), sent[n + 1])
    BY <1>1, <2>1
  <2>3. Len(delivered') = n + 1 /\ delivered' = SubSeq(sent, 1, n + 1)
    BY <1>1, <2>1, <2>2
  <2> QED BY <1>1, <2>1, <2>3 DEF DeliveredPrefix
<1>5. Accounted'
  <2>1. OnWire(sent)' = OnWire(sent) /\ OnWire(delivered)' = OnWire(Append(delivered, m))
    BY OnWirePrimed
  <2>2. Contents(bcb)' = Contents(bcb')
    BY DEF Contents
  <2>3. Travels(lost)'
    BY <2>1, <2>2 DEF Travels, Delivers
  <2> QED BY <2>3 DEF Accounted
<1> QED BY <1>2, <1>3, <1>4, <1>5

\* The length-prefixed demarcar delivers one message.
LEMMA FlushStep ==
  ASSUME IInv, FIX_SIZE_DEMAR = 0, FlushMessage, UNCHANGED FIX_SIZE_DEMAR
  PROVE  IInv'
<1> DEFINE msg_len == ntohs(Fetched(bcb, HDR_MSG_SIZE))
           payload == BCBRead(bcb, HDR_MSG_SIZE, TRUE)
           m == Fetched(payload, msg_len)
<1>1. /\ VariabSizeReady(bcb) /\ pc = "ProcessClientMsg"
      /\ bcb' = BCBRead(payload, msg_len, TRUE)
      /\ delivered' = Append(delivered, m)
      /\ UNCHANGED <<socketVars, pc, client_recv_buffer>>
  BY DEF FlushMessage
<1>2. PICK lost \in Seq(Byte) : Travels(lost)
  BY DEF IInv, Accounted
<1>3. TypeOK /\ DeliveredPrefix /\ IndicesAgree(bcb)
  BY DEF IInv
<1>4. Delivers(m, bcb', lost)
  BY <1>1, <1>2, <1>3, FlushTakes
<1> HIDE DEF m
<1>5. /\ TypeOK' /\ IndicesAgree(bcb)' /\ Conforming' /\ BufferFits'
      /\ DeliveredPrefix' /\ Accounted' /\ MutexFree'
  BY <1>1, <1>2, <1>4, DeliverStep
<1>6. NothingReadyLeft'
  BY <1>1 DEF NothingReadyLeft
<1> QED BY <1>5, <1>6 DEF IInv

\* The fixed-size demarcar delivers one message, or finds none and leaves
\* its loop with the mutex held.
LEMMA DrainStep ==
  ASSUME IInv, FIX_SIZE_DEMAR = 1, Drain, UNCHANGED FIX_SIZE_DEMAR
  PROVE  IInv'
<1>1. TypeOK /\ DeliveredPrefix /\ IndicesAgree(bcb) /\ bcb \in Ring
  BY DEF IInv, TypeOK, DemarcarTypeOK
<1>2. /\ pc = "drain" /\ bcb' = BCBRead(bcb, msg_fixed_size, TRUE)
      /\ UNCHANGED <<socketVars, client_recv_buffer>>
  BY DEF Drain
<1>3. CASE Holds(bcb, msg_fixed_size)
  <2> DEFINE m == Fetched(bcb, msg_fixed_size)
  <2>1. delivered' = Append(delivered, m) /\ UNCHANGED pc
    BY <1>3 DEF Drain
  <2>2. PICK lost \in Seq(Byte) : Travels(lost)
    BY DEF IInv, Accounted
  <2>3. \A k \in 1 .. Len(sent) : Len(sent[k]) = msg_fixed_size
    BY DEF IInv, Conforming
  <2>4. Delivers(m, bcb', lost)
    BY <1>1, <1>2, <1>3, <2>2, <2>3, DrainTakes
  <2> HIDE DEF m
  <2>5. /\ TypeOK' /\ IndicesAgree(bcb)' /\ Conforming' /\ BufferFits'
        /\ DeliveredPrefix' /\ Accounted' /\ MutexFree'
    BY <1>2, <2>1, <2>2, <2>4, DeliverStep
  <2>6. NothingReadyLeft'
    BY <1>2, <2>1 DEF NothingReadyLeft
  <2> QED BY <2>5, <2>6 DEF IInv
<1>4. CASE ~Holds(bcb, msg_fixed_size)
  <2>1. pc' = "recv" /\ UNCHANGED delivered /\ bcb' = [bcb EXCEPT !.locked = TRUE]
    BY <1>2, <1>4 DEF Drain, BCBRead
  <2>2. bcb' \in Ring /\ bcb'.current_size = bcb.current_size
    BY <1>1, <2>1 DEF Ring
  <2>3. TypeOK'
    BY <1>1, <1>2, <2>1, <2>2 DEF TypeOK, DemarcarTypeOK, PC, socketVars
  <2>4. IndicesAgree(bcb)' /\ Contents(bcb)' = Contents(bcb)
    BY <1>1, <2>1 DEF IndicesAgree, Contents, Ring
  <2>5. Conforming' /\ BufferFits' /\ DeliveredPrefix' /\ MutexFree'
    BY <1>2, <2>1 DEF IInv, Conforming, BufferFits, DeliveredPrefix, MutexFree, socketVars
  <2>6. Accounted'
    <3>1. PICK lost \in Seq(Byte) : Travels(lost)
      BY DEF IInv, Accounted
    <3>2. OnWire(sent)' = OnWire(sent) /\ OnWire(delivered)' = OnWire(delivered)
      BY <1>2, <2>1, OnWirePrimed DEF socketVars
    <3>3. Travels(lost)'
      BY <1>2, <2>4, <3>1, <3>2 DEF Travels, socketVars
    <3> QED BY <3>3 DEF Accounted
  <2>7. NothingReadyLeft'
    <3>1. /\ bcb.current_size \in Nat /\ bcb.current_size < msg_fixed_size
          /\ msg_fixed_size \in Nat
      BY <1>1, <1>4, RingFields, FixedSizeAssumption DEF Holds
    <3>2. bcb.current_size \div msg_fixed_size = 0
      BY <3>1
    <3>3. ~FixedSizeReady(bcb')
      BY <2>2, <3>2 DEF FixedSizeReady
    <3> QED BY <3>3 DEF NothingReadyLeft, IsBufferReadyToFlush, FixedSizeReady
  <2> QED BY <2>3, <2>4, <2>5, <2>6, <2>7 DEF IInv
<1> QED BY <1>3, <1>4

\* No step leads out of it.
LEMMA IInvStep == IInv /\ [Next]_connVars => IInv'
<1> SUFFICES ASSUME IInv, [Next]_connVars
             PROVE  IInv'
  OBVIOUS
<1> USE DEF PC
<1>1. CASE Send /\ UNCHANGED FIX_SIZE_DEMAR
  BY <1>1, SendStep
<1>2. CASE PeerClose /\ UNCHANGED FIX_SIZE_DEMAR
  BY <1>2, CloseStep
<1>3. CASE PeerReset /\ UNCHANGED FIX_SIZE_DEMAR
  BY <1>3, ResetStep
<1>4. CASE EpollWait /\ UNCHANGED FIX_SIZE_DEMAR
  BY <1>4, OnlyThreadMoves DEF EpollWait, IInv, NothingReadyLeft
<1>5. CASE BackPressure /\ UNCHANGED FIX_SIZE_DEMAR
  BY <1>5, OnlyThreadMoves DEF BackPressure, IInv, NothingReadyLeft
<1>6. CASE Recv /\ UNCHANGED FIX_SIZE_DEMAR
  BY <1>6, RecvStep
<1>7. CASE RecvEnd /\ UNCHANGED FIX_SIZE_DEMAR
  BY <1>7, OnlyThreadMoves DEF RecvEnd
<1>8. CASE RecvAgain /\ UNCHANGED FIX_SIZE_DEMAR
  BY <1>8, OnlyThreadMoves DEF RecvAgain, IInv, NothingReadyLeft
<1>9. CASE ProcessMsg /\ UNCHANGED FIX_SIZE_DEMAR
  BY <1>9, ProcessMsgStep
<1>10. CASE FIX_SIZE_DEMAR = 1 /\ FlushSkip /\ UNCHANGED FIX_SIZE_DEMAR
  BY <1>10, OnlyThreadMoves DEF FlushSkip, IsBufferReadyToFlush
<1>11. CASE FIX_SIZE_DEMAR = 1 /\ FlushStart /\ UNCHANGED FIX_SIZE_DEMAR
  BY <1>11, OnlyThreadMoves DEF FlushStart
<1>12. CASE FIX_SIZE_DEMAR = 1 /\ Drain /\ UNCHANGED FIX_SIZE_DEMAR
  BY <1>12, DrainStep
<1>13. CASE FIX_SIZE_DEMAR = 0 /\ FlushMessage /\ UNCHANGED FIX_SIZE_DEMAR
  BY <1>13, FlushStep
<1>14. CASE FIX_SIZE_DEMAR = 0 /\ FlushDone /\ UNCHANGED FIX_SIZE_DEMAR
  BY <1>14, OnlyThreadMoves DEF FlushDone, IsBufferReadyToFlush
<1>15. CASE UNCHANGED connVars
  <2>1. TypeOK' /\ IndicesAgree(bcb)' /\ Conforming' /\ BufferFits' /\ DeliveredPrefix'
        /\ MutexFree' /\ NothingReadyLeft'
    BY <1>15 DEF connVars, vars, IInv, TypeOK, DemarcarTypeOK, IndicesAgree, Conforming,
                 BufferFits, DeliveredPrefix, MutexFree, NothingReadyLeft,
                 IsBufferReadyToFlush, FixedSizeReady, VariabSizeReady
  <2>2. Accounted'
    BY <1>15, AccountedKept DEF connVars, vars, IInv
  <2> QED BY <2>1, <2>2 DEF IInv
<1> QED
  BY <1>1, <1>2, <1>3, <1>4, <1>5, <1>6, <1>7, <1>8, <1>9, <1>10, <1>11, <1>12,
     <1>13, <1>14, <1>15
  DEF Next, ServiceThread, Loop, ProcessClientMsg, ProcessFixedSize, ProcessVariabSize

\* So it holds always.
LEMMA IInvAlways == Spec => []IInv
  BY IInvInit, IInvStep, PTL DEF Spec

-----------------------------------------------------------------------------
(* Theorems.                                                               *)

\* The variables keep their types: in particular every payload given to
\* client_msg_recvd is one a peer may send.
THEOREM TypeCorrect == Spec => []TypeOK
<1>1. IInv => TypeOK
  BY DEF IInv
<1> QED BY <1>1, IInvAlways, PTL

\* The byte stream between a peer and the application loses, repeats and
\* reorders nothing, for every ring, every cut by recv and every wrap.
THEOREM NoByteLost == Spec => []StreamInv
<1>1. IInv => StreamInv
  <2> SUFFICES ASSUME IInv, peer # "reset"
               PROVE  OnWire(sent) = OnWire(delivered) \o Contents(bcb)
                                         \o client_recv_buffer \o rx
    BY DEF StreamInv
  <2>1. InTransit(OnWire(sent), OnWire(delivered), Contents(bcb),
                  client_recv_buffer, rx, <<>>)
    BY DEF IInv, Accounted, Travels
  <2>2. /\ OnWire(delivered) \in Seq(Byte) /\ Contents(bcb) \in Seq(Byte)
        /\ client_recv_buffer \in Seq(Byte) /\ rx \in Seq(Byte)
    BY OnWireType, ContentsType DEF IInv, TypeOK, DemarcarTypeOK
  <2> QED BY <2>1, <2>2, TransitWhole
<1> QED BY <1>1, IInvAlways, PTL

\* The service thread never waits for more while a complete message is in
\* the ring.
THEOREM NoMessageWaits == Spec => []NothingReadyLeft
<1>1. IInv => NothingReadyLeft
  BY DEF IInv
<1> QED BY <1>1, IInvAlways, PTL

\* The length-prefixed demarcar never takes the return of BCBRead that keeps
\* the mutex.
THEOREM MutexNeverKept == Spec => []MutexFree
<1>1. IInv => MutexFree
  BY DEF IInv
<1> QED BY <1>1, IInvAlways, PTL

\* If the ring is full when recv would be called, the frame in it is longer
\* than the ring, so the message can never be completed.
THEOREM FullForOversizeOnly == Spec => []FullMeansOversize
<1>1. IInv => FullMeansOversize
  <2> SUFFICES ASSUME IInv, FIX_SIZE_DEMAR = 0, pc = "recv", BCBAvailableSize(bcb) = 0
               PROVE  /\ bcb.current_size >= HDR_MSG_SIZE
                      /\ HDR_MSG_SIZE + ntohs(Fetched(bcb, HDR_MSG_SIZE)) > BufferSize
    BY DEF FullMeansOversize
  <2>1. bcb \in Ring
    BY DEF IInv, TypeOK, DemarcarTypeOK
  <2>2. bcb.current_size = BufferSize /\ BufferSize \in Nat
    BY <2>1, RingFields DEF BCBAvailableSize
  <2>3. bcb.current_size >= HDR_MSG_SIZE /\ HDR_MSG_SIZE \in Nat
    BY <2>2, RingHoldsHeader DEF HDR_MSG_SIZE
  <2>4. ~VariabSizeReady(bcb)
    BY DEF IInv, NothingReadyLeft, IsBufferReadyToFlush
  <2>5. ~(bcb.current_size >= HDR_MSG_SIZE + ntohs(Fetched(bcb, HDR_MSG_SIZE)))
    BY <2>3, <2>4 DEF VariabSizeReady
  <2>6. ntohs(Fetched(bcb, HDR_MSG_SIZE)) \in Nat
    <3>1. Holds(bcb, HDR_MSG_SIZE)
      BY <2>1, <2>3, RingFields DEF Holds
    <3>2. PICK hdr \in Seq(Byte) : hdr = Fetched(bcb, HDR_MSG_SIZE) /\ Len(hdr) = 2
      <4>1. /\ Fetched(bcb, HDR_MSG_SIZE) \in Seq(Byte)
            /\ Fetched(bcb, HDR_MSG_SIZE) = SubSeq(Contents(bcb), 1, HDR_MSG_SIZE)
        BY <2>1, <2>3, <3>1, FetchedIsPrefix
      <4>2. /\ Contents(bcb) \in Seq(Byte)
            /\ HDR_MSG_SIZE <= Len(Contents(bcb))
        BY <2>1, <2>3, ContentsType
      <4>3. Len(SubSeq(Contents(bcb), 1, HDR_MSG_SIZE)) = HDR_MSG_SIZE
        BY <2>3, <4>2, CutInTwo
      <4> QED BY <4>1, <4>3 DEF HDR_MSG_SIZE
    <3>3. hdr[1] \in Byte /\ hdr[2] \in Byte
      BY <3>2
    <3> QED BY <3>2, <3>3, BaseAssumption DEF ntohs
  <2> QED BY <2>2, <2>3, <2>5, <2>6
<1> QED BY <1>1, IInvAlways, PTL

\* Framing over TCP is a channel of messages: the application gets each
\* message a peer has sent, once, in order, unchanged and whole.
THEOREM ConnectionIsMessageChannel == Spec => IsMessageChannel
<1>1. Init => Channel!Init
  BY DEF Init, ConnectionInit, Channel!Init
<1>2. IInv /\ [Next]_connVars => [Channel!Next]_<<sent, delivered>>
  <2> SUFFICES ASSUME IInv, [Next]_connVars
               PROVE  Channel!Next \/ UNCHANGED <<sent, delivered>>
    OBVIOUS
  <2> USE DEF Channel!Next, Channel!Send, Channel!Deliver
  <2>1. CASE Send
    <3>1. PICK m \in Payloads : PeerSend(m, Wire(m))
      BY <2>1 DEF Send, FixedPayloads
    <3> QED BY <3>1 DEF PeerSend
  <2>2. CASE PeerClose \/ PeerReset \/ Loop
    BY <2>2 DEF PeerClose, PeerReset, Loop, EpollWait, BackPressure, Recv, RecvEnd,
                RecvAgain, ProcessMsg, socketVars
  <2>3. CASE FlushDone \/ FlushSkip \/ FlushStart
    BY <2>3 DEF FlushDone, FlushSkip, FlushStart, socketVars
  <2>4. PICK lost \in Seq(Byte) : Travels(lost)
    BY DEF IInv, Accounted
  <2>5. CASE FIX_SIZE_DEMAR = 0 /\ FlushMessage
    <3>1. Delivers(Fetched(BCBRead(bcb, HDR_MSG_SIZE, TRUE),
                           ntohs(Fetched(bcb, HDR_MSG_SIZE))), bcb', lost)
      BY <2>4, <2>5, FlushTakes DEF FlushMessage, IInv
    <3> QED BY <2>5, <3>1 DEF FlushMessage, Delivers, socketVars
  <2>6. CASE FIX_SIZE_DEMAR = 1 /\ Drain
    <3>1. CASE Holds(bcb, msg_fixed_size)
      <4>1. Delivers(Fetched(bcb, msg_fixed_size), bcb', lost)
        BY <2>4, <2>6, <3>1, DrainTakes DEF Drain, IInv, Conforming
      <4> QED BY <2>6, <3>1, <4>1 DEF Drain, Delivers, socketVars
    <3>2. CASE ~Holds(bcb, msg_fixed_size)
      BY <2>6, <3>2 DEF Drain, socketVars
    <3> QED BY <3>1, <3>2
  <2>7. CASE UNCHANGED connVars
    BY <2>7 DEF connVars, vars
  <2> QED
    BY <2>1, <2>2, <2>3, <2>5, <2>6, <2>7
    DEF Next, ServiceThread, ProcessClientMsg, ProcessFixedSize, ProcessVariabSize
<1> QED
  BY <1>1, <1>2, IInvAlways, PTL DEF Spec, IsMessageChannel, Channel!Spec
=============================================================================
