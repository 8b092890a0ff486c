----------------------- MODULE TcpMsgFixedSizeDemarcar -----------------------
(***************************************************************************)
(* Framing by a fixed message size: ProcessClientMsg of                    *)
(* TcpMsgFixedSizeDemarcar.                                                *)
(***************************************************************************)
EXTENDS TcpMsgDemarcar

CONSTANT msg_fixed_size

ASSUME FixedSizeAssumption == msg_fixed_size \in 1 .. BufferSize

\* The messages of a peer that keeps to the size.
FixedPayloads == {m \in Payloads : Len(m) = msg_fixed_size}

-----------------------------------------------------------------------------
(* ProcessClientMsg.                                                       *)

FixedSizeReady(b) == b.current_size \div msg_fixed_size > 0

FlushSkip ==
    /\ pc = "ProcessClientMsg"
    /\ ~FixedSizeReady(bcb)
    /\ pc' = "recv"
    /\ UNCHANGED <<socketVars, client_recv_buffer, bcb, delivered>>

FlushStart ==
    /\ pc = "ProcessClientMsg"
    /\ FixedSizeReady(bcb)
    /\ pc' = "drain"
    /\ UNCHANGED <<socketVars, client_recv_buffer, bcb, delivered>>

\* Mutant: the bytes read stay in the ring.
DrainKeeps ==
    /\ pc = "drain"
    /\ ~ReadBlocks(bcb)
    /\ bcb' = BCBRead(bcb, msg_fixed_size, FALSE)
    /\ IF Holds(bcb, msg_fixed_size)
       THEN /\ delivered' = Append(delivered, Fetched(bcb, msg_fixed_size))
            /\ UNCHANGED pc
       ELSE /\ pc' = "recv"
            /\ UNCHANGED delivered
    /\ UNCHANGED <<socketVars, client_recv_buffer>>

\* while (bytes_read = BCBRead(...)): the loop ends with a read that fails,
\* and a read that fails keeps the mutex of the ring.
Drain ==
    /\ pc = "drain"
    /\ ~ReadBlocks(bcb)
    /\ bcb' = BCBRead(bcb, msg_fixed_size, TRUE)
    /\ IF Holds(bcb, msg_fixed_size)
       THEN /\ delivered' = Append(delivered, Fetched(bcb, msg_fixed_size))
            /\ UNCHANGED pc
       ELSE /\ pc' = "recv"
            /\ UNCHANGED delivered
    /\ UNCHANGED <<socketVars, client_recv_buffer>>

-----------------------------------------------------------------------------

ProcessFixedSize == FlushSkip \/ FlushStart \/ Drain

=============================================================================
