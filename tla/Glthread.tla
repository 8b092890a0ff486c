------------------------------ MODULE Glthread ------------------------------
(***************************************************************************)
(* The intrusive doubly linked list of CommandParser/gluethread: a node is *)
(* embedded in the caller's structure, and the head is a node as well.     *)
(* The operators take and return links, the left and right pointers of     *)
(* every node.                                                             *)
(***************************************************************************)
EXTENDS Integers, Sequences, FiniteSets, TLC

CONSTANTS Node, NULL

ASSUME NodeAssumption == NULL \notin Node /\ IsFiniteSet(Node)

Links == [left : [Node -> Node \cup {NULL}], right : [Node -> Node \cup {NULL}]]

init_glthread(links, n) ==
    [links EXCEPT !.left[n] = NULL, !.right[n] = NULL]

\* new.right is set only if something follows.
glthread_add_next(links, curr, new) ==
    LET temp == links.right[curr]
    IN  IF temp = NULL
        THEN [links EXCEPT !.right[curr] = new, !.left[new] = curr]
        ELSE [links EXCEPT !.right[curr] = new, !.left[new] = curr,
                           !.right[new] = temp, !.left[temp] = new]

\* A node without a left neighbour keeps its own left, one without a right
\* neighbour its own right: both are NULL already.
remove_glthread(links, n) ==
    LET l == links.left[n]
        r == links.right[n]
    IN  [left  |-> [m \in Node |-> CASE m = n -> NULL
                                     [] m = r -> l
                                     [] OTHER -> links.left[m]],
         right |-> [m \in Node |-> CASE m = n -> NULL
                                     [] m = l -> r
                                     [] OTHER -> links.right[m]]]

\* The nodes that ITERATE_GLTHREAD_BEGIN visits, from the head.
Elements(links, head) ==
    LET at[i \in 0 .. Cardinality(Node)] ==
            IF i = 0 THEN head
            ELSE LET n == at[i - 1] IN IF n = NULL THEN NULL ELSE links.right[n]
        length == Cardinality({i \in 1 .. Cardinality(Node) : at[i] # NULL})
    IN  [i \in 1 .. length |-> at[i]]

\* Mutant: after the head instead of after the last node.
AddFirst(links, head, new) == glthread_add_next(links, head, new)

glthread_add_last(links, head, new) ==
    LET s == Elements(links, head)
    IN  glthread_add_next(links, IF s = <<>> THEN head ELSE s[Len(s)], new)
==============================================================================
