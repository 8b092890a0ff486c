--------------------------- MODULE TcpMsgDemarcar ---------------------------
(***************************************************************************)
(* The receive path of one connection: the socket, the loop of the service *)
(* thread over it (TcpClientServiceManager.cpp), and                       *)
(* TcpMsgDemarcar::ProcessMsg.  The two subclasses, which differ in how    *)
(* ProcessClientMsg cuts the bytes into messages, extend this module; each *)
(* has names of its own, so that TcpConnection can extend both.            *)
(*                                                                         *)
(* There is one thread, so between two of its calls nothing but the peer   *)
(* and the network moves.  TCP gives recv any prefix of the bytes not yet  *)
(* read.                                                                   *)
(***************************************************************************)
EXTENDS ByteCircularBuffer, SequencesExt

CONSTANTS
    Payloads,       \* the messages a peer may send, sequences of Byte
    MaxSent         \* bound on the messages of one connection

VARIABLES
    \* the peer and the socket
    peer,           \* "open", "closed" (FIN after the last byte), "reset"
    sent,           \* history: the messages sent, in order
    rx,             \* the bytes sent and not yet returned by recv
    \* the service thread
    pc,             \* where it is
    client_recv_buffer,   \* what recv returned, until ProcessMsg is done
    bcb,            \* the ring of the connection's demarcar
    delivered       \* history: the payloads given to client_msg_recvd

socketVars == <<peer, sent, rx>>
vars == <<peer, sent, rx, pc, client_recv_buffer, bcb, delivered>>

\* epoll_wait; the recv loop; inside ProcessMsg; inside ProcessClientMsg,
\* in its loop ("drain" when its guard is not evaluated again); and after
\* close and RemoveClient.
PC == {"epoll_wait", "recv", "ProcessMsg", "ProcessClientMsg", "drain", "removed"}

ConnectionInit ==
    /\ peer = "open" /\ sent = <<>> /\ rx = <<>>
    /\ pc = "epoll_wait"
    /\ client_recv_buffer = <<>>
    /\ bcb = BCBCreateNew
    /\ delivered = <<>>

-----------------------------------------------------------------------------
(* The peer.                                                               *)

\* The peer sends message m, which takes these bytes on the wire.
PeerSend(m, bytes) ==
    /\ peer = "open"
    /\ Len(sent) < MaxSent
    /\ sent' = Append(sent, m)
    /\ rx' = rx \o bytes
    /\ UNCHANGED <<peer, pc, client_recv_buffer, bcb, delivered>>

PeerClose ==
    /\ peer = "open"
    /\ peer' = "closed"
    /\ UNCHANGED <<sent, rx, pc, client_recv_buffer, bcb, delivered>>

\* An RST: what was not read is lost.
PeerReset ==
    /\ peer \in {"open", "closed"}
    /\ pc # "removed"
    /\ peer' = "reset"
    /\ rx' = <<>>
    /\ UNCHANGED <<sent, pc, client_recv_buffer, bcb, delivered>>

-----------------------------------------------------------------------------
(* The loop of the service thread.                                         *)

\* Level-triggered: the descriptor is reported while there is anything to
\* read, the end of the stream or an error included.
EpollWait ==
    /\ pc = "epoll_wait"
    /\ rx # <<>> \/ peer # "open"
    /\ pc' = "recv"
    /\ UNCHANGED <<socketVars, client_recv_buffer, bcb, delivered>>

\* space == 0: skip recv, back to epoll_wait.
BackPressure ==
    /\ pc = "recv"
    /\ BCBAvailableSize(bcb) = 0
    /\ pc' = "epoll_wait"
    /\ UNCHANGED <<socketVars, client_recv_buffer, bcb, delivered>>

\* Mutant: recv asks for whatever the receive buffer holds.
RecvUnbounded ==
    /\ pc = "recv"
    /\ BCBAvailableSize(bcb) > 0 /\ rx # <<>>
    /\ client_recv_buffer' = rx
    /\ rx' = <<>>
    /\ pc' = "ProcessMsg"
    /\ UNCHANGED <<peer, sent, bcb, delivered>>

\* recv asks for as many bytes as the ring has room for.
Recv ==
    /\ pc = "recv"
    /\ \E n \in 1 .. BCBAvailableSize(bcb) :
          /\ n <= Len(rx)
          /\ client_recv_buffer' = SubSeq(rx, 1, n)
          /\ rx' = SubSeq(rx, n + 1, Len(rx))
    /\ pc' = "ProcessMsg"
    /\ UNCHANGED <<peer, sent, bcb, delivered>>

\* Mutant: recv returning 0 is not treated as the end of the stream.
RecvErrorOnly ==
    /\ pc = "recv"
    /\ BCBAvailableSize(bcb) > 0
    /\ rx = <<>> /\ peer = "reset"
    /\ pc' = "removed"
    /\ UNCHANGED <<socketVars, client_recv_buffer, bcb, delivered>>

\* recv returned 0, or an error other than EAGAIN: the client is closed,
\* taken off the epoll set and removed.
RecvEnd ==
    /\ pc = "recv"
    /\ BCBAvailableSize(bcb) > 0
    /\ rx = <<>> /\ peer # "open"
    /\ pc' = "removed"
    /\ UNCHANGED <<socketVars, client_recv_buffer, bcb, delivered>>

\* EAGAIN.
RecvAgain ==
    /\ pc = "recv"
    /\ BCBAvailableSize(bcb) > 0
    /\ rx = <<>> /\ peer = "open"
    /\ pc' = "epoll_wait"
    /\ UNCHANGED <<socketVars, client_recv_buffer, bcb, delivered>>

\* Mutant: ProcessMsg looks for space before it looks whether data is left.
ProcessMsgFull ==
    LET space == BCBAvailableSize(bcb)
        data  == client_recv_buffer
        kept  == IF Len(data) <= space THEN data ELSE SubSeq(data, 1, space)
    IN  /\ pc = "ProcessMsg"
        /\ kept # <<>> => ~WriteBlocks(bcb, kept)
        /\ bcb' = BCBWrite(bcb, kept)
        /\ client_recv_buffer' = <<>>
        /\ pc' = IF Len(kept) = space THEN "recv" ELSE "ProcessClientMsg"
        /\ UNCHANGED <<socketVars, delivered>>

\* The loop of ProcessMsg writes until the data or the space is used up.
\* If data is left it is dropped, and the return skips ProcessClientMsg.
ProcessMsg ==
    LET space == BCBAvailableSize(bcb)
        data  == client_recv_buffer
        kept  == IF Len(data) <= space THEN data ELSE SubSeq(data, 1, space)
    IN  /\ pc = "ProcessMsg"
        /\ kept # <<>> => ~WriteBlocks(bcb, kept)
        /\ bcb' = BCBWrite(bcb, kept)
        /\ client_recv_buffer' = <<>>
        /\ pc' = IF kept = data THEN "ProcessClientMsg" ELSE "recv"
        /\ UNCHANGED <<socketVars, delivered>>

Loop == EpollWait \/ BackPressure \/ Recv \/ RecvEnd \/ RecvAgain \/ ProcessMsg

-----------------------------------------------------------------------------

DemarcarTypeOK ==
    /\ peer \in {"open", "closed", "reset"}
    /\ sent \in Seq(Payloads) /\ delivered \in Seq(Payloads)
    /\ rx \in Seq(Byte) /\ client_recv_buffer \in Seq(Byte)
    /\ pc \in PC
    /\ bcb \in Ring

=============================================================================
