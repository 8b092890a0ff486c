--------------------------- MODULE MessageChannel ---------------------------
(***************************************************************************)
(* What framing promises the application: client_msg_recvd is called once  *)
(* for each message a peer has sent, in the order of sending, with exactly *)
(* its payload.  How the bytes were cut into segments does not show.       *)
(***************************************************************************)
EXTENDS Naturals, Sequences

CONSTANT Payloads

VARIABLES sent, delivered

Init == sent = <<>> /\ delivered = <<>>

Send(m) == sent' = Append(sent, m) /\ UNCHANGED delivered

Deliver ==
    /\ Len(delivered) < Len(sent)
    /\ delivered' = Append(delivered, sent[Len(delivered) + 1])
    /\ UNCHANGED sent

Next == Deliver \/ \E m \in Payloads : Send(m)

Spec == Init /\ [][Next]_<<sent, delivered>>
=============================================================================
