---------------------------- MODULE TcpConnection ----------------------------
(***************************************************************************)
(* One accepted connection, from the peer's sends to client_msg_recvd.     *)
(* The acceptor gives every connection the demarcar its build is for       *)
(* (FIX_SIZE_DEMAR, TcpNewConnectionAcceptor.cpp); after that ProcessMsg   *)
(* reaches ProcessClientMsg through the virtual call.                      *)
(***************************************************************************)
EXTENDS TcpMsgVariabSizeDemarcar, TcpMsgFixedSizeDemarcar

CONSTANT Builds         \* the values of FIX_SIZE_DEMAR looked at

ASSUME BuildsAssumption == Builds \subseteq {0, 1}

VARIABLE FIX_SIZE_DEMAR \* which demarcar the connection has

connVars == <<vars, FIX_SIZE_DEMAR>>

Init == ConnectionInit /\ FIX_SIZE_DEMAR \in Builds

\* The peer keeps to the protocol of the build: frames, or messages of the
\* fixed size.
Wire(m) == IF FIX_SIZE_DEMAR = 1 THEN m ELSE Frame(m)

Send ==
    \E m \in IF FIX_SIZE_DEMAR = 1 THEN FixedPayloads ELSE Payloads :
        PeerSend(m, Wire(m))

ProcessClientMsg ==
    \/ FIX_SIZE_DEMAR = 1 /\ ProcessFixedSize
    \/ FIX_SIZE_DEMAR = 0 /\ ProcessVariabSize

IsBufferReadyToFlush ==
    IF FIX_SIZE_DEMAR = 1 THEN FixedSizeReady(bcb) ELSE VariabSizeReady(bcb)

ServiceThread == (Loop \/ ProcessClientMsg) /\ UNCHANGED FIX_SIZE_DEMAR

Next ==
    \/ (Send \/ PeerClose \/ PeerReset) /\ UNCHANGED FIX_SIZE_DEMAR
    \/ ServiceThread

\* The service thread is a running thread: it does not stop between two
\* statements, and epoll_wait returns when its condition holds.
Spec == Init /\ [][Next]_connVars /\ WF_connVars(ServiceThread)

-----------------------------------------------------------------------------
(* Properties.                                                             *)

TypeOK == DemarcarTypeOK /\ FIX_SIZE_DEMAR \in {0, 1}

\* No byte is dropped, duplicated or reordered between the socket and the
\* application, wherever headers and payloads are cut by recv and wherever
\* the ring wraps: what was delivered, as it was on the wire, the ring, the
\* receive buffer and the socket are together what the peer has sent.
OnWire(msgs) == FlattenSeq([k \in DOMAIN msgs |-> Wire(msgs[k])])
StreamInv ==
    peer # "reset" =>
        OnWire(sent) = OnWire(delivered) \o Contents(bcb)
                           \o client_recv_buffer \o rx

\* Every complete message is delivered before the thread asks for more: a
\* message never waits in the ring for the bytes of the next one.
NothingReadyLeft == pc \in {"epoll_wait", "recv"} => ~IsBufferReadyToFlush

\* Every BCBRead of the length-prefixed demarcar asks for no more than the
\* ring holds, so the early return of BCBRead that keeps the mutex is never
\* taken.
MutexFree == FIX_SIZE_DEMAR = 0 => ~bcb.locked

\* The service loop skips recv on a full ring and hopes for room: that there
\* is none to come is because the frame in the ring is longer than the ring.
FullMeansOversize ==
    (FIX_SIZE_DEMAR = 0 /\ pc = "recv" /\ BCBAvailableSize(bcb) = 0) =>
        /\ bcb.current_size >= HDR_MSG_SIZE
        /\ HDR_MSG_SIZE + ntohs(Fetched(bcb, HDR_MSG_SIZE)) > BufferSize

\* The application gets the messages sent, in order, once, unchanged and cut
\* where the peer ended them, whatever recv returned.
Channel == INSTANCE MessageChannel
IsMessageChannel == Channel!Spec

\* The first n messages reach the application, unless the connection is
\* reset first.
Reaches(n) == Len(delivered) >= n \/ peer = "reset"

Fitting(msgs) == \A k \in DOMAIN msgs : Len(Frame(msgs[k])) <= BufferSize

\* Every message whose frame the ring can hold is delivered, if all before
\* it can be.
FittingDelivered ==
    \A n \in 1 .. MaxSent :
        (/\ FIX_SIZE_DEMAR = 0
         /\ Len(sent) >= n /\ Fitting(SubSeq(sent, 1, n))) ~> Reaches(n)

\* The service thread notices the end of a connection, whatever is still in
\* the socket or the ring, a message cut short included, unless a frame is
\* longer than the ring.
EndNoticed ==
    (FIX_SIZE_DEMAR = 0 /\ peer # "open" /\ Fitting(sent)) ~> (pc = "removed")

-----------------------------------------------------------------------------
(* What comments and documentation of the repository say.                  *)

\* TcpMsgVariabSizeDemarcar.cpp: IsBufferReadyToFlush calls a length invalid
\* above MAX_CLIENT_BUFFER_SIZE only: messages up to it are delivered.
ValidDelivered ==
    \A n \in 1 .. MaxSent :
        (/\ Len(sent) >= n
         /\ \A k \in 1 .. n : Len(sent[k]) <= MAX_CLIENT_BUFFER_SIZE) ~> Reaches(n)

\* README.md: every message of the fixed size is found and delivered.
AllDelivered == \A n \in 1 .. MaxSent : Len(sent) >= n ~> Reaches(n)

=============================================================================
