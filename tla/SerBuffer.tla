----------------------------- MODULE SerBuffer -----------------------------
(***************************************************************************)
(* The serialised buffer of CommandParser/serialize.c, as a record that    *)
(* the operators take and return.  One cell is one tlv_struct_t: every     *)
(* call in the library writes or skips whole TLVs.  b is what lies below   *)
(* next, which is Len(b); memory from there on is forgotten, and NULL when *)
(* next moves over it.                                                     *)
(***************************************************************************)
EXTENDS Integers, Sequences

CONSTANT NULL           \* a cell nobody has written

init_serialized_buffer_of_defined_size(size) ==
    [b |-> <<>>, size |-> size, checkpoint |-> 0]

get_serialize_buffer_size(buf) == Len(buf.b)

twice[k \in Nat] == IF k = 0 THEN 1 ELSE 2 * twice[k - 1]

\* The size is doubled until it is enough.
Doubled(size, need) ==
    LET enough(k) == size * twice[k] >= need
    IN  size * twice[CHOOSE k \in 0 .. need :
                        enough(k) /\ (k > 0 => ~enough(k - 1))]

MoveNext(buf, next) ==
    [buf EXCEPT !.b = [i \in 1 .. next |-> IF i <= Len(@) THEN @[i] ELSE NULL]]

serialize_string(buf, data) ==
    [buf EXCEPT !.b = @ \o data, !.size = Doubled(@, Len(buf.b) + Len(data))]

\* n is negative in the one call there is.
serialize_buffer_skip(buf, n) ==
    [MoveNext(buf, Len(buf.b) + n) EXCEPT !.size = Doubled(@, Len(buf.b) + n)]

mark_checkpoint_serialize_buffer(buf) == [buf EXCEPT !.checkpoint = Len(buf.b)]
restore_checkpoint_serialize_buffer(buf) == MoveNext(buf, buf.checkpoint)
reset_serialize_buffer(buf) == [buf EXCEPT !.b = <<>>, !.checkpoint = 0]
==============================================================================
