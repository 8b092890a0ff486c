------------------------------ MODULE ByteQueue ------------------------------
(***************************************************************************)
(* What a byte ring promises its caller: a bounded first-in first-out      *)
(* queue of bytes.  given is the data of the last call, out what the last  *)
(* read copied, returned what the last call returned.                      *)
(***************************************************************************)
EXTENDS Integers, Sequences

CONSTANTS
    Byte, Capacity,
    MaxCall             \* bound on the length of one call's data

VARIABLES queue, given, returned, out

vars == <<queue, given, returned, out>>

Init == queue = <<>> /\ given = <<>> /\ returned = 0 /\ out = <<>>

\* All of the data is queued, or nothing is and 0 is returned.
Write(data) ==
    /\ given' = data
    /\ IF Len(queue) + Len(data) <= Capacity
       THEN queue' = queue \o data /\ returned' = Len(data)
       ELSE queue' = queue /\ returned' = 0
    /\ UNCHANGED out

\* The n oldest bytes, in order, and out of the queue if they are removed.
Read(n, remove) ==
    /\ given' = <<>>
    /\ IF n <= Len(queue)
       THEN /\ out' = SubSeq(queue, 1, n)
            /\ returned' = n
            /\ queue' = IF remove THEN SubSeq(queue, n + 1, Len(queue)) ELSE queue
       ELSE /\ returned' = 0
            /\ UNCHANGED <<queue, out>>

Reset == queue' = <<>> /\ given' = <<>> /\ UNCHANGED <<returned, out>>

Next ==
    \/ \E data \in UNION {[1 .. n -> Byte] : n \in 0 .. MaxCall} : Write(data)
    \/ \E n \in 0 .. MaxCall, remove \in BOOLEAN : Read(n, remove)
    \/ Reset

Spec == Init /\ [][Next]_vars
==============================================================================
