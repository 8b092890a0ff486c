---------------------- MODULE TcpMsgVariabSizeDemarcar ----------------------
(***************************************************************************)
(* Framing by a two-byte length header in network byte order:              *)
(* ProcessClientMsg of TcpMsgVariabSizeDemarcar.                           *)
(***************************************************************************)
EXTENDS TcpMsgDemarcar

CONSTANTS
    Base,                   \* values of one byte: 256
    MAX_CLIENT_BUFFER_SIZE  \* the longest payload the code calls valid

ASSUME BaseAssumption == Base \in Nat \ {0} /\ Byte = 0 .. Base - 1

ASSUME PayloadAssumption ==
    \A m \in Payloads : m \in Seq(Byte) /\ Len(m) < Base * Base

HDR_MSG_SIZE == 2

\* DEFAULT_CBC_SIZE is 256.
ASSUME RingHoldsHeader == HDR_MSG_SIZE <= BufferSize

\* What a peer puts on the wire for message m: htons(length), payload.
Frame(m) == <<Len(m) \div Base, Len(m) % Base>> \o m

ntohs(hdr) == Base * hdr[1] + hdr[2]

-----------------------------------------------------------------------------
(* ProcessClientMsg.                                                       *)

\* Mutant: a header is taken for a whole message.
HeaderIsEnough(b) == b.current_size >= HDR_MSG_SIZE

\* Mutant: a message that ends with the last byte of the ring waits.
ReadyLate(b) ==
    /\ b.current_size >= HDR_MSG_SIZE
    /\ b.current_size > HDR_MSG_SIZE + ntohs(Fetched(b, HDR_MSG_SIZE))

\* The header is looked at without removing it, and only if it is there, so
\* this read never fails and leaves the ring as it is.
VariabSizeReady(b) ==
    /\ b.current_size >= HDR_MSG_SIZE
    /\ b.current_size >= HDR_MSG_SIZE + ntohs(Fetched(b, HDR_MSG_SIZE))

\* Mutant: one message for each ProcessClientMsg.
FlushOne ==
    LET msg_len == ntohs(Fetched(bcb, HDR_MSG_SIZE))
        payload == BCBRead(bcb, HDR_MSG_SIZE, TRUE)
    IN  /\ pc = "ProcessClientMsg"
        /\ ~ReadBlocks(bcb)
        /\ VariabSizeReady(bcb)
        /\ bcb' = BCBRead(payload, msg_len, TRUE)
        /\ delivered' = Append(delivered, Fetched(payload, msg_len))
        /\ pc' = "recv"
        /\ UNCHANGED <<socketVars, client_recv_buffer>>

\* One iteration: the header is read and removed, then the payload, which
\* goes to the application.
FlushMessage ==
    LET msg_len == ntohs(Fetched(bcb, HDR_MSG_SIZE))
        payload == BCBRead(bcb, HDR_MSG_SIZE, TRUE)
    IN  /\ pc = "ProcessClientMsg"
        /\ ~ReadBlocks(bcb)
        /\ VariabSizeReady(bcb)
        /\ bcb' = BCBRead(payload, msg_len, TRUE)
        /\ delivered' = Append(delivered, Fetched(payload, msg_len))
        /\ UNCHANGED <<socketVars, pc, client_recv_buffer>>

\* No complete message is left: back to the recv loop.
FlushDone ==
    /\ pc = "ProcessClientMsg"
    /\ ~VariabSizeReady(bcb)
    /\ pc' = "recv"
    /\ UNCHANGED <<socketVars, client_recv_buffer, bcb, delivered>>

-----------------------------------------------------------------------------

ProcessVariabSize == FlushMessage \/ FlushDone

=============================================================================
