--------------------------- MODULE TestTool_proofs ---------------------------
(***************************************************************************)
(* The proofs about the test tool.  The first part is about the lists of   *)
(* Glthread: what the links of a list with given nodes are, that Elements  *)
(* reads these nodes, and what adding and removing makes of them.          *)
(***************************************************************************)
EXTENDS TestTool, SequenceLemmas, FiniteSetTheorems

-----------------------------------------------------------------------------
(* Iteration.                                                              *)

\* f lists what becomes of a when the functions G[1], ..., G[n] are applied
\* in turn.
Iterates(f, a, G, n, S) ==
  /\ f \in [0 .. n -> S] /\ f[0] = a
  /\ \A i \in 1 .. n : f[i] = G[i][f[i - 1]]

\* There is always such a list.
LEMMA IterateExists ==
  ASSUME NEW S, NEW a \in S, NEW n \in Nat, NEW G \in [1 .. n -> [S -> S]]
  PROVE  \E f : Iterates(f, a, G, n, S)
<1> DEFINE T == {k \in Nat : k <= n => \E f : Iterates(f, a, G, k, S)}
<1>1. 0 \in T
  <2>1. Iterates([i \in 0 .. 0 |-> a], a, G, 0, S)
    BY DEF Iterates
  <2> QED BY <2>1
<1>2. ASSUME NEW k \in Nat, k \in T PROVE k + 1 \in T
  <2> SUFFICES ASSUME k + 1 <= n PROVE \E f : Iterates(f, a, G, k + 1, S)
    OBVIOUS
  <2>1. PICK f : Iterates(f, a, G, k, S)
    BY <1>2
  <2>2. f[k] \in S /\ G[k + 1] \in [S -> S]
    BY <2>1 DEF Iterates
  <2> DEFINE g == [i \in 0 .. k + 1 |-> IF i = k + 1 THEN G[k + 1][f[k]] ELSE f[i]]
  <2>3. g \in [0 .. k + 1 -> S] /\ g[0] = a
    BY <2>1, <2>2 DEF Iterates
  <2>4. ASSUME NEW i \in 1 .. k + 1 PROVE g[i] = G[i][g[i - 1]]
    <3>1. CASE i = k + 1
      BY <3>1
    <3>2. CASE i \in 1 .. k
      BY <3>2, <2>1 DEF Iterates
    <3> QED BY <3>1, <3>2
  <2> HIDE DEF g
  <2>5. Iterates(g, a, G, k + 1, S)
    BY <2>3, <2>4 DEF Iterates
  <2> QED BY <2>5
<1> HIDE DEF T
<1>3. n \in T
  BY <1>1, <1>2, SetInduction
<1> QED BY <1>3 DEF T

-----------------------------------------------------------------------------
(* Lists.                                                                  *)

\* The node at place k of the list of the nodes s, the head being at place 0;
\* NULL past the end.
At(h, s, k) ==
  IF k = 0 THEN h ELSE IF k <= Len(s) THEN s[k] ELSE NULL

Distinct(h, s) ==
  /\ \A k \in 1 .. Len(s) : s[k] # h
  /\ \A j, k \in 1 .. Len(s) : s[j] = s[k] => j = k

\* The links of the head h and of the nodes s are those of a list.
IsList(l, h, s) ==
  /\ s \in Seq(Node) /\ Distinct(h, s)
  /\ \A k \in 0 .. Len(s) : l.right[At(h, s, k)] = At(h, s, k + 1)
  /\ \A k \in 1 .. Len(s) : l.left[s[k]] = At(h, s, k - 1)

\* Distinct nodes are no more than there are nodes.
LEMMA DistinctBound ==
  ASSUME NEW s \in Seq(Node), \A j, k \in 1 .. Len(s) : s[j] = s[k] => j = k
  PROVE  Len(s) <= Cardinality(Node) /\ Cardinality(Node) \in Nat
<1>1. s \in Injection(1 .. Len(s), Node)
  BY DEF Injection, IsInjective
<1>2. IsFiniteSet(Node)
  BY NodeAssumption
<1>3. Cardinality(1 .. Len(s)) <= Cardinality(Node) /\ Cardinality(Node) \in Nat
  BY <1>1, <1>2, FS_Injection, FS_CardinalityType
<1>4. Cardinality(1 .. Len(s)) = Len(s)
  <2>1. Len(s) \in Nat /\ 1 \in Int
    OBVIOUS
  <2>2. Cardinality(1 .. Len(s)) = IF 1 > Len(s) THEN 0 ELSE Len(s) - 1 + 1
    BY <2>1, FS_Interval
  <2> QED BY <2>1, <2>2
<1> QED BY <1>3, <1>4

\* The function that Elements defines: the nodes met from the head.
Visits(at, l, h, n) ==
  at = [i \in 0 .. n |-> IF i = 0 THEN h
                         ELSE IF at[i - 1] = NULL THEN NULL ELSE l.right[at[i - 1]]]

\* What Elements visits on a list is the list, and then NULL.
LEMMA VisitsList ==
  ASSUME NEW l, NEW h \in Node, NEW s, NEW n \in Nat, NEW at,
         IsList(l, h, s), Visits(at, l, h, n)
  PROVE  \A i \in 0 .. n : at[i] = At(h, s, i)
<1> DEFINE T == {k \in Nat : k <= n => at[k] = At(h, s, k)}
<1>1. 0 \in T
  BY DEF Visits, At
<1>2. ASSUME NEW k \in Nat, k \in T PROVE k + 1 \in T
  <2> SUFFICES ASSUME k + 1 <= n PROVE at[k + 1] = At(h, s, k + 1)
    OBVIOUS
  <2>1. at[k] = At(h, s, k)
    BY <1>2
  <2>2. at[k + 1] = IF at[k] = NULL THEN NULL ELSE l.right[at[k]]
    BY DEF Visits
  <2>3. Len(s) \in Nat /\ s \in Seq(Node)
    BY DEF IsList
  <2>4. CASE k <= Len(s)
    <3>1. At(h, s, k) # NULL
      BY <2>3, <2>4, NodeAssumption DEF At
    <3>2. l.right[At(h, s, k)] = At(h, s, k + 1)
      BY <2>3, <2>4 DEF IsList
    <3> QED BY <2>1, <2>2, <3>1, <3>2
  <2>5. CASE k > Len(s)
    <3>1. At(h, s, k) = NULL /\ At(h, s, k + 1) = NULL
      BY <2>3, <2>5 DEF At
    <3> QED BY <2>1, <2>2, <3>1
  <2> QED BY <2>3, <2>4, <2>5
<1> HIDE DEF T
<1>3. \A k \in Nat : k \in T
  BY <1>1, <1>2, SetInduction
<1> QED BY <1>3 DEF T

\* Such a function exists.
LEMMA VisitsExists ==
  ASSUME NEW l, NEW h \in Node, NEW s, NEW n \in Nat, IsList(l, h, s)
  PROVE  \E at : Visits(at, l, h, n)
<1> DEFINE at == [i \in 0 .. n |-> At(h, s, i)]
<1>1. Len(s) \in Nat /\ s \in Seq(Node)
  BY DEF IsList
<1>2. ASSUME NEW i \in 0 .. n
      PROVE  at[i] = IF i = 0 THEN h
                     ELSE IF at[i - 1] = NULL THEN NULL ELSE l.right[at[i - 1]]
  <2>1. CASE i = 0
    BY <2>1 DEF At
  <2>2. CASE i # 0 /\ i - 1 <= Len(s)
    <3>1. At(h, s, i - 1) # NULL
      BY <1>1, <2>2, NodeAssumption DEF At
    <3>2. l.right[At(h, s, i - 1)] = At(h, s, (i - 1) + 1)
      BY <1>1, <2>2 DEF IsList
    <3>3. (i - 1) + 1 = i /\ i - 1 \in 0 .. n
      BY <2>2
    <3> QED BY <2>2, <3>1, <3>2, <3>3
  <2>3. CASE i # 0 /\ i - 1 > Len(s)
    <3>1. At(h, s, i - 1) = NULL /\ At(h, s, i) = NULL
      BY <1>1, <2>3 DEF At
    <3> QED BY <2>3, <3>1
  <2> QED BY <1>1, <2>1, <2>2, <2>3
<1>3. at = [i \in 0 .. n |-> at[i]]
  OBVIOUS
<1> HIDE DEF at
<1>4. Visits(at, l, h, n)
  BY <1>2, <1>3 DEF Visits
<1> QED BY <1>4

\* Elements reads the nodes of a list.
LEMMA ElementsOfList ==
  ASSUME NEW l, NEW h \in Node, NEW s, IsList(l, h, s)
  PROVE  Elements(l, h) = s
<1> DEFINE n == Cardinality(Node)
           at == CHOOSE at : Visits(at, l, h, n)
           length == Cardinality({i \in 1 .. n : at[i] # NULL})
<1>1. Len(s) \in Nat /\ s \in Seq(Node) /\ Len(s) <= n /\ n \in Nat
  BY DistinctBound DEF IsList, Distinct
<1>2. Elements(l, h) = [i \in 1 .. length |-> at[i]]
  BY DEF Elements, Visits
<1>3. Visits(at, l, h, n)
  BY <1>1, VisitsExists
<1> HIDE DEF at, n
<1>4. \A i \in 0 .. n : at[i] = At(h, s, i)
  BY <1>1, <1>3, VisitsList
<1>5. {i \in 1 .. n : at[i] # NULL} = 1 .. Len(s)
  BY <1>1, <1>4, NodeAssumption DEF At
<1>6. length = Len(s)
  <2>1. Len(s) \in Int /\ 1 \in Int
    BY <1>1
  <2>2. Cardinality(1 .. Len(s)) = IF 1 > Len(s) THEN 0 ELSE Len(s) - 1 + 1
    BY <2>1, FS_Interval
  <2>3. Cardinality(1 .. Len(s)) = Len(s)
    BY <1>1, <2>2
  <2> QED BY <1>5, <2>3
<1> HIDE DEF length
<1>7. \A i \in 1 .. Len(s) : at[i] = s[i]
  BY <1>1, <1>4 DEF At
<1>8. s = [i \in 1 .. Len(s) |-> s[i]]
  BY <1>1
<1>9. [i \in 1 .. Len(s) |-> at[i]] = [i \in 1 .. Len(s) |-> s[i]]
  BY <1>7
<1> QED BY <1>2, <1>6, <1>8, <1>9

-----------------------------------------------------------------------------
(* Changing lists.                                                         *)

\* The links of one node are the same.
SameLinks(l, r, m) == r.left[m] = l.left[m] /\ r.right[m] = l.right[m]

\* The items of a sequence, by their places.
LEMMA Places ==
  ASSUME NEW S, NEW s \in Seq(S), NEW m
  PROVE  m \in ToSet(s) <=> \E k \in 1 .. Len(s) : s[k] = m
  BY DEF ToSet

\* A list stays a list as long as its links do.
LEMMA SameList ==
  ASSUME NEW l, NEW r, NEW h \in Node, NEW s, IsList(l, h, s),
         r.right[h] = l.right[h], \A m \in ToSet(s) : SameLinks(l, r, m)
  PROVE  IsList(r, h, s)
<1>1. s \in Seq(Node) /\ Len(s) \in Nat
  BY DEF IsList
<1>2. ASSUME NEW k \in 1 .. Len(s) PROVE SameLinks(l, r, s[k])
  BY <1>1, Places
<1>3. \A k \in 1 .. Len(s) : r.left[s[k]] = At(h, s, k - 1)
  BY <1>2 DEF IsList, SameLinks
<1>4. ASSUME NEW k \in 0 .. Len(s)
      PROVE  r.right[At(h, s, k)] = At(h, s, k + 1)
  <2>1. l.right[At(h, s, k)] = At(h, s, k + 1)
    BY DEF IsList
  <2>2. r.right[At(h, s, k)] = l.right[At(h, s, k)]
    BY <1>1, <1>2 DEF At, SameLinks
  <2> QED BY <2>1, <2>2
<1> QED BY <1>1, <1>3, <1>4 DEF IsList

\* So what Elements reads stays.
LEMMA SameElements ==
  ASSUME NEW l, NEW r, NEW h \in Node, IsList(l, h, Elements(l, h)),
         r.right[h] = l.right[h], \A m \in ToSet(Elements(l, h)) : SameLinks(l, r, m)
  PROVE  IsList(r, h, Elements(l, h)) /\ Elements(r, h) = Elements(l, h)
<1> DEFINE s == Elements(l, h)
<1>1. IsList(l, h, s) /\ \A m \in ToSet(s) : SameLinks(l, r, m)
  OBVIOUS
<1> HIDE DEF s
<1>2. IsList(r, h, s)
  BY <1>1, SameList
<1>3. Elements(r, h) = s
  BY <1>2, ElementsOfList
<1> QED BY <1>2, <1>3 DEF s

\* init_glthread makes the empty list, and touches no other node.
LEMMA Initialised ==
  ASSUME NEW l \in Links, NEW h \in Node
  PROVE  /\ init_glthread(l, h) \in Links
         /\ init_glthread(l, h).right[h] = NULL
         /\ IsList(init_glthread(l, h), h, <<>>)
         /\ \A m \in Node : m # h => SameLinks(l, init_glthread(l, h), m)
<1> DEFINE r == init_glthread(l, h)
<1>1. r = [left |-> [l.left EXCEPT ![h] = NULL], right |-> [l.right EXCEPT ![h] = NULL]]
  <2>1. DOMAIN l = {"left", "right"}
    BY DEF Links
  <2>2. DOMAIN r = {"left", "right"}
    BY <2>1, Zenon DEF init_glthread
  <2>3. r.left = [l.left EXCEPT ![h] = NULL]
    BY <2>1 DEF init_glthread
  <2>4. r.right = [l.right EXCEPT ![h] = NULL]
    BY <2>1 DEF init_glthread
  <2>5. r = [k \in {"left", "right"} |-> r[k]]
    BY <2>1 DEF init_glthread
  <2> HIDE DEF r
  <2> QED BY <2>2, <2>3, <2>4, <2>5
<1>2. r \in Links
  BY <1>1 DEF Links
<1>3. r.right[h] = NULL
  BY <1>1 DEF Links
<1>4. \A m \in Node : m # h => SameLinks(l, r, m)
  BY <1>1 DEF Links, SameLinks
<1> HIDE DEF r
<1>5. IsList(r, h, <<>>)
  <2>1. Distinct(h, <<>>)
    BY DEF Distinct
  <2>2. <<>> \in Seq(Node)
    OBVIOUS
  <2>3. \A k \in 0 .. Len(<<>>) : r.right[At(h, <<>>, k)] = At(h, <<>>, k + 1)
    BY <1>3 DEF At
  <2> QED BY <2>1, <2>2, <2>3 DEF IsList
<1> QED BY <1>2, <1>3, <1>4, <1>5 DEF r

\* glthread_add_next after a node that nothing follows links the two.
LEMMA AddedNext ==
  ASSUME NEW l \in Links, NEW curr \in Node, NEW n \in Node, n # curr,
         l.right[curr] = NULL
  PROVE  LET r == glthread_add_next(l, curr, n)
         IN  /\ r \in Links
             /\ r.right[curr] = n /\ r.left[curr] = l.left[curr]
             /\ r.left[n] = curr /\ r.right[n] = l.right[n]
             /\ \A m \in Node : m # curr /\ m # n => SameLinks(l, r, m)
<1> DEFINE r == glthread_add_next(l, curr, n)
<1>1. r = [left |-> [l.left EXCEPT ![n] = curr], right |-> [l.right EXCEPT ![curr] = n]]
  BY DEF glthread_add_next, Links
<1>2. r \in Links
  BY <1>1 DEF Links
<1>3. r.right[curr] = n /\ r.left[curr] = l.left[curr]
  BY <1>1 DEF Links
<1>4. r.left[n] = curr /\ r.right[n] = l.right[n]
  BY <1>1 DEF Links
<1>5. \A m \in Node : m # curr /\ m # n => SameLinks(l, r, m)
  BY <1>1 DEF Links, SameLinks
<1> HIDE DEF r
<1> QED BY <1>2, <1>3, <1>4, <1>5 DEF r

\* glthread_add_last appends a node that was in no place of the list, and
\* touches no node outside it.
LEMMA Appended ==
  ASSUME NEW l \in Links, NEW h \in Node, NEW s, IsList(l, h, s),
         NEW n \in Node, n # h, n \notin ToSet(s)
  PROVE  LET r == glthread_add_last(init_glthread(l, n), h, n)
         IN  /\ r \in Links
             /\ IsList(r, h, Append(s, n))
             /\ \A m \in Node : m # h /\ m # n /\ m \notin ToSet(s) => SameLinks(l, r, m)
<1> DEFINE i == init_glthread(l, n)
           last == At(h, s, Len(s))
           r == glthread_add_next(i, last, n)
           t == Append(s, n)
<1>1. s \in Seq(Node) /\ Len(s) \in Nat
  BY DEF IsList
<1>2. i \in Links /\ i.right[n] = NULL /\ \A m \in Node : m # n => SameLinks(l, i, m)
  BY Initialised
<1>3. \A m \in ToSet(s) : m \in Node
  BY <1>1, Places
<1>4. IsList(i, h, s)
  <2>1. i.right[h] = l.right[h]
    BY <1>2 DEF SameLinks
  <2>2. \A m \in ToSet(s) : SameLinks(l, i, m)
    BY <1>2, <1>3
  <2> HIDE DEF i
  <2> QED BY <2>1, <2>2, SameList
<1>5. glthread_add_last(i, h, n) = r
  <2> HIDE DEF i
  <2>1. Elements(i, h) = s
    BY <1>4, ElementsOfList
  <2> QED BY <1>1, <2>1 DEF glthread_add_last, At
<1> HIDE DEF i
<1>6. last \in Node /\ last # n /\ (last = h \/ last \in ToSet(s))
  BY <1>1, Places DEF At
<1>7. i.right[last] = NULL
  BY <1>1, <1>4 DEF IsList, At
<1>8. /\ r \in Links /\ r.right[last] = n /\ r.left[last] = i.left[last]
      /\ r.left[n] = last /\ r.right[n] = NULL
      /\ \A m \in Node : m # last /\ m # n => SameLinks(i, r, m)
  <2> HIDE DEF last
  <2> QED BY <1>2, <1>6, <1>7, AddedNext
<1> HIDE DEF r
<1>9. /\ t \in Seq(Node) /\ Len(t) = Len(s) + 1 /\ t[Len(s) + 1] = n
      /\ \A k \in 1 .. Len(s) : t[k] = s[k]
  BY <1>1
<1> HIDE DEF t
<1>10. \A k \in 0 .. Len(s) : At(h, t, k) = At(h, s, k) /\ At(h, s, k) \in Node /\ At(h, s, k) # n
  BY <1>1, <1>9, Places DEF At
<1>11. At(h, t, Len(s) + 1) = n /\ At(h, t, Len(s) + 2) = NULL
  BY <1>1, <1>9 DEF At
<1>12. Distinct(h, t)
  <2>1. Distinct(h, s)
    BY <1>4 DEF IsList
  <2>2. \A k \in 1 .. Len(s) : s[k] # n
    BY <1>1, Places
  <2> QED BY <1>1, <1>9, <2>1, <2>2 DEF Distinct
<1>13. ASSUME NEW k \in 0 .. Len(t) PROVE r.right[At(h, t, k)] = At(h, t, k + 1)
  <2>1. CASE k = Len(s) + 1
    BY <1>1, <1>8, <1>11, <2>1
  <2>2. CASE k = Len(s)
    BY <1>1, <1>8, <1>10, <1>11, <2>2
  <2>3. CASE k \in 0 .. Len(s) - 1
    <3>1. At(h, s, k) # last
      BY <1>1, <1>4, <2>3 DEF IsList, Distinct, At
    <3>2. r.right[At(h, s, k)] = i.right[At(h, s, k)]
      BY <1>8, <1>10, <2>3, <3>1, <1>1 DEF SameLinks
    <3>3. i.right[At(h, s, k)] = At(h, s, k + 1)
      BY <1>1, <1>4, <2>3 DEF IsList
    <3>4. At(h, t, k) = At(h, s, k) /\ At(h, t, k + 1) = At(h, s, k + 1)
      BY <1>1, <1>10, <2>3
    <3> QED BY <3>2, <3>3, <3>4
  <2> QED BY <1>1, <1>9, <2>1, <2>2, <2>3
<1>14. ASSUME NEW k \in 1 .. Len(t) PROVE r.left[t[k]] = At(h, t, k - 1)
  <2>1. CASE k = Len(s) + 1
    BY <1>1, <1>8, <1>9, <1>10, <2>1
  <2>2. CASE k \in 1 .. Len(s)
    <3>1. s[k] \in Node /\ s[k] # n
      BY <1>1, <2>2, Places
    <3>2. r.left[s[k]] = i.left[s[k]]
      BY <1>8, <3>1 DEF SameLinks
    <3>3. i.left[s[k]] = At(h, s, k - 1)
      BY <1>4, <2>2 DEF IsList
    <3>4. t[k] = s[k] /\ At(h, t, k - 1) = At(h, s, k - 1)
      BY <1>1, <1>9, <1>10, <2>2
    <3> QED BY <3>2, <3>3, <3>4
  <2> QED BY <1>1, <1>9, <2>1, <2>2
<1>15. IsList(r, h, t)
  BY <1>9, <1>12, <1>13, <1>14 DEF IsList
<1>16. \A m \in Node : m # h /\ m # n /\ m \notin ToSet(s) => SameLinks(l, r, m)
  BY <1>2, <1>6, <1>8 DEF SameLinks
<1> QED BY <1>5, <1>8, <1>15, <1>16 DEF i, t

\* remove_glthread joins the neighbours of a node and touches no other one.
LEMMA Removed ==
  ASSUME NEW l \in Links, NEW n \in Node
  PROVE  LET r == remove_glthread(l, n)
         IN  /\ r \in Links
             /\ l.left[n] \in Node /\ l.left[n] # n => r.right[l.left[n]] = l.right[n]
             /\ l.right[n] \in Node /\ l.right[n] # n => r.left[l.right[n]] = l.left[n]
             /\ \A m \in Node : m # n /\ m # l.left[n] => r.right[m] = l.right[m]
             /\ \A m \in Node : m # n /\ m # l.right[n] => r.left[m] = l.left[m]
<1> DEFINE r == remove_glthread(l, n)
<1>1. l.left \in [Node -> Node \cup {NULL}] /\ l.right \in [Node -> Node \cup {NULL}]
  BY DEF Links
<1>2. /\ r.left = [m \in Node |-> CASE m = n -> NULL [] m = l.right[n] -> l.left[n]
                                    [] OTHER -> l.left[m]]
      /\ r.right = [m \in Node |-> CASE m = n -> NULL [] m = l.left[n] -> l.right[n]
                                     [] OTHER -> l.right[m]]
      /\ r = [left |-> r.left, right |-> r.right]
  BY DEF remove_glthread
<1> HIDE DEF r
<1>3. ASSUME NEW m \in Node, m # n
      PROVE  /\ r.right[m] = IF m = l.left[n] THEN l.right[n] ELSE l.right[m]
             /\ r.left[m] = IF m = l.right[n] THEN l.left[n] ELSE l.left[m]
  BY <1>2, <1>3
<1>4. r.left[n] \in Node \cup {NULL} /\ r.right[n] \in Node \cup {NULL}
  BY <1>1, <1>2
<1>5. r \in Links
  <2>1. \A m \in Node : r.left[m] \in Node \cup {NULL} /\ r.right[m] \in Node \cup {NULL}
    BY <1>1, <1>3, <1>4
  <2>2. r.left = [m \in Node |-> r.left[m]] /\ r.right = [m \in Node |-> r.right[m]]
    BY <1>2
  <2>3. r.left \in [Node -> Node \cup {NULL}] /\ r.right \in [Node -> Node \cup {NULL}]
    BY <2>1, <2>2
  <2> QED BY <1>2, <2>3 DEF Links
<1> QED BY <1>3, <1>5 DEF r

\* The function that tc_cleanup_result_list defines: the links after the
\* first nodes were removed, one by one.
Removes(f, l, s) ==
  f = [i \in 0 .. Len(s) |-> IF i = 0 THEN l ELSE remove_glthread(f[i - 1], s[i])]

\* There is such a function.
LEMMA RemovesExists ==
  ASSUME NEW l \in Links, NEW s \in Seq(Node)
  PROVE  \E f : Removes(f, l, s)
<1> DEFINE G == [i \in 1 .. Len(s) |-> [m \in Links |-> remove_glthread(m, s[i])]]
<1>1. G \in [1 .. Len(s) -> [Links -> Links]]
  BY Removed
<1>2. \A i \in 1 .. Len(s) : \A m \in Links : G[i][m] = remove_glthread(m, s[i])
  OBVIOUS
<1>3. Len(s) \in Nat
  OBVIOUS
<1> HIDE DEF G
<1>4. PICK f : Iterates(f, l, G, Len(s), Links)
  BY <1>1, <1>3, IterateExists
<1>5. ASSUME NEW i \in 0 .. Len(s)
      PROVE  f[i] = IF i = 0 THEN l ELSE remove_glthread(f[i - 1], s[i])
  <2>1. CASE i = 0
    BY <1>4, <2>1 DEF Iterates
  <2>2. CASE i \in 1 .. Len(s)
    <3>1. i - 1 \in 0 .. Len(s)
      BY <1>3, <2>2
    <3>2. f[i - 1] \in Links /\ f[i] = G[i][f[i - 1]]
      BY <1>4, <2>2, <3>1 DEF Iterates
    <3> QED BY <1>2, <2>2, <3>2
  <2> QED BY <1>3, <2>1, <2>2
<1>6. f = [i \in 0 .. Len(s) |-> f[i]]
  BY <1>4 DEF Iterates
<1>7. Removes(f, l, s)
  BY <1>5, <1>6 DEF Removes
<1> QED BY <1>7

\* The list of s in l without its first i nodes, in r: the head is followed
\* by the rest of the list, and no other node is touched.
Rest(l, r, h, s, i) ==
  /\ r \in Links
  /\ r.right[h] = At(h, s, i + 1)
  /\ \A k \in i + 1 .. Len(s) :
        /\ r.right[s[k]] = At(h, s, k + 1)
        /\ r.left[s[k]] = IF k = i + 1 THEN h ELSE s[k - 1]
  /\ \A m \in Node : m # h /\ m \notin ToSet(s) => SameLinks(l, r, m)

\* To remove the first node of the rest leaves the rest of it.
LEMMA RestRemoved ==
  ASSUME NEW l, NEW r, NEW h \in Node, NEW s \in Seq(Node), Distinct(h, s),
         NEW i \in Nat, i + 1 <= Len(s), Rest(l, r, h, s, i)
  PROVE  Rest(l, remove_glthread(r, s[i + 1]), h, s, i + 1)
<1> DEFINE n == s[i + 1]
           t == remove_glthread(r, n)
<1>1. Len(s) \in Nat /\ i + 1 \in 1 .. Len(s) /\ i + 1 \in i + 1 .. Len(s)
  OBVIOUS
<1>2. r \in Links /\ n \in Node /\ n # h
  BY <1>1 DEF Rest, Distinct
<1>3. r.left[n] = h /\ r.right[n] = At(h, s, i + 2)
  BY <1>1 DEF Rest
<1>4. At(h, s, i + 2) # n /\ At(h, s, i + 2) # h
  BY <1>1, <1>2, NodeAssumption DEF At, Distinct
<1>5. /\ t \in Links
      /\ t.right[h] = At(h, s, i + 2)
      /\ At(h, s, i + 2) \in Node => t.left[At(h, s, i + 2)] = h
      /\ \A m \in Node : m # n /\ m # h => t.right[m] = r.right[m]
      /\ \A m \in Node : m # n /\ m # At(h, s, i + 2) => t.left[m] = r.left[m]
  BY <1>2, <1>3, <1>4, Removed
<1> HIDE DEF t
<1>6. ASSUME NEW k \in i + 2 .. Len(s)
      PROVE  /\ t.right[s[k]] = At(h, s, k + 1)
             /\ t.left[s[k]] = IF k = i + 2 THEN h ELSE s[k - 1]
  <2>1. s[k] \in Node /\ s[k] # n /\ s[k] # h
    BY <1>1 DEF Distinct
  <2>2. k \in i + 1 .. Len(s) /\ k # i + 1
    OBVIOUS
  <2>3. t.right[s[k]] = At(h, s, k + 1)
    BY <1>5, <2>1, <2>2 DEF Rest
  <2>4. CASE k = i + 2
    <3>1. At(h, s, i + 2) = s[k]
      BY <1>1, <2>4 DEF At
    <3> QED BY <1>5, <2>1, <2>3, <2>4, <3>1
  <2>5. CASE k # i + 2
    <3>1. s[k] # At(h, s, i + 2)
      BY <1>1, <2>1, <2>5, NodeAssumption DEF At, Distinct
    <3>2. t.left[s[k]] = r.left[s[k]]
      BY <1>5, <2>1, <3>1
    <3>3. r.left[s[k]] = s[k - 1]
      BY <2>2 DEF Rest
    <3> QED BY <2>3, <2>5, <3>2, <3>3
  <2> QED BY <2>4, <2>5
<1>7. ASSUME NEW m \in Node, m # h, m \notin ToSet(s) PROVE SameLinks(l, t, m)
  <2>1. m # n /\ m # At(h, s, i + 2)
    BY <1>1, <1>7, Places, NodeAssumption DEF At
  <2>2. SameLinks(l, r, m)
    BY <1>7 DEF Rest
  <2> QED BY <1>5, <1>7, <2>1, <2>2 DEF SameLinks
<1>8. i + 1 + 1 = i + 2
  OBVIOUS
<1> HIDE DEF n
<1>9. Rest(l, t, h, s, i + 1)
  BY <1>5, <1>6, <1>7, <1>8 DEF Rest
<1> QED BY <1>9 DEF n, t

\* After tc_cleanup_result_list the list is empty, and no node outside it
\* was touched.
LEMMA Cleaned ==
  ASSUME NEW l \in Links, NEW h \in Node, NEW s, IsList(l, h, s),
         NEW f, Removes(f, l, s)
  PROVE  /\ f[Len(s)] \in Links
         /\ IsList(f[Len(s)], h, <<>>)
         /\ \A m \in Node : m # h /\ m \notin ToSet(s) => SameLinks(l, f[Len(s)], m)
<1> DEFINE T == {i \in Nat : i <= Len(s) => Rest(l, f[i], h, s, i)}
<1>1. s \in Seq(Node) /\ Distinct(h, s) /\ Len(s) \in Nat
  BY DEF IsList
<1>2. 0 \in T
  <2>1. f[0] = l
    BY <1>1 DEF Removes
  <2>2. l.right[h] = At(h, s, 0 + 1)
    <3>1. 0 \in 0 .. Len(s) /\ At(h, s, 0) = h
      BY <1>1 DEF At
    <3> QED BY <3>1 DEF IsList
  <2>3. ASSUME NEW k \in 0 + 1 .. Len(s)
        PROVE  /\ l.right[s[k]] = At(h, s, k + 1)
               /\ l.left[s[k]] = IF k = 0 + 1 THEN h ELSE s[k - 1]
    <3>1. k \in 0 .. Len(s) /\ k \in 1 .. Len(s) /\ At(h, s, k) = s[k]
      BY <1>1 DEF At
    <3>2. l.right[s[k]] = At(h, s, k + 1) /\ l.left[s[k]] = At(h, s, k - 1)
      BY <3>1 DEF IsList
    <3> QED BY <1>1, <3>1, <3>2 DEF At
  <2>4. Rest(l, l, h, s, 0)
    BY <2>2, <2>3 DEF Rest, SameLinks
  <2> QED BY <2>1, <2>4
<1>3. ASSUME NEW i \in Nat, i \in T PROVE i + 1 \in T
  <2> SUFFICES ASSUME i + 1 <= Len(s) PROVE Rest(l, f[i + 1], h, s, i + 1)
    OBVIOUS
  <2>1. Rest(l, f[i], h, s, i)
    BY <1>1, <1>3
  <2>2. f[i + 1] = remove_glthread(f[i], s[i + 1])
    BY <1>1 DEF Removes
  <2> QED BY <1>1, <2>1, <2>2, RestRemoved
<1> HIDE DEF T
<1>4. Len(s) \in T
  BY <1>1, <1>2, <1>3, SetInduction
<1>5. Rest(l, f[Len(s)], h, s, Len(s))
  BY <1>1, <1>4 DEF T
<1>6. f[Len(s)].right[h] = NULL
  BY <1>1, <1>5 DEF Rest, At
<1>7. IsList(f[Len(s)], h, <<>>)
  <2>1. Distinct(h, <<>>) /\ <<>> \in Seq(Node)
    BY DEF Distinct
  <2>2. \A k \in 0 .. Len(<<>>) : f[Len(s)].right[At(h, <<>>, k)] = At(h, <<>>, k + 1)
    BY <1>6 DEF At
  <2> QED BY <2>1, <2>2 DEF IsList
<1> QED BY <1>5, <1>7 DEF Rest

-----------------------------------------------------------------------------
(* The lists of the scripts under way, in the links l and the results r.   *)

\* The list of a script is a list of allocated nodes, no head among them,
\* and holds its verdicts.
OneList(l, r, i, judged) ==
  LET s == Elements(l, Heads[i])
  IN  /\ IsList(l, Heads[i], s)
      /\ \A n \in ToSet(s) : n \notin ToSet(Heads) /\ r[n] # NULL
      /\ [k \in DOMAIN s |-> r[s[k]]] = judged

\* No two of the first n scripts share a node.
Apart(l, n) ==
  \A i, j \in 1 .. n : i # j =>
    ToSet(Elements(l, Heads[i])) \cap ToSet(Elements(l, Heads[j])) = {}

Lists(l, r, sc) ==
  /\ l \in Links /\ r \in [Node -> Result \cup {NULL}]
  /\ \A i \in 1 .. Len(sc) : OneList(l, r, i, sc[i].judged)
  /\ Apart(l, Len(sc))

\* The heads are nodes, all different.
LEMMA HeadsDiffer ==
  ASSUME NEW i \in 1 .. Len(Heads)
  PROVE  /\ Heads[i] \in Node /\ Heads[i] \in ToSet(Heads)
         /\ \A j \in 1 .. Len(Heads) : i # j => Heads[i] # Heads[j]
         /\ Len(Heads) \in Nat
<1>1. Heads \in Seq(Node) /\ i \in DOMAIN Heads
  BY ToolAssumption
<1>2. \A j \in 1 .. Len(Heads) : j \in DOMAIN Heads
  BY <1>1
<1>3. \A j \in 1 .. Len(Heads) : i # j => Heads[i] # Heads[j]
  BY <1>1, <1>2, ToolAssumption
<1> QED BY <1>1, <1>3, Places

\* What is in the list of a script, is a node that was allocated and is no
\* head.
LEMMA ListNodes ==
  ASSUME NEW l, NEW r, NEW i, NEW judged, OneList(l, r, i, judged)
  PROVE  /\ Elements(l, Heads[i]) \in Seq(Node)
         /\ \A m \in ToSet(Elements(l, Heads[i])) :
               m \in Node /\ m \notin ToSet(Heads) /\ r[m] # NULL
<1>1. Elements(l, Heads[i]) \in Seq(Node)
  BY DEF OneList, IsList
<1>2. \A m \in ToSet(Elements(l, Heads[i])) : m \in Node
  BY <1>1, Places
<1> QED BY <1>1, <1>2 DEF OneList

\* The list of a script stays as long as the links of its head and nodes do,
\* and the results in it.
LEMMA OneListKept ==
  ASSUME NEW l, NEW l2, NEW r, NEW r2, NEW i \in 1 .. Len(Heads), NEW judged,
         OneList(l, r, i, judged), l2.right[Heads[i]] = l.right[Heads[i]],
         \A m \in ToSet(Elements(l, Heads[i])) : SameLinks(l, l2, m) /\ r2[m] = r[m]
  PROVE  OneList(l2, r2, i, judged)
<1> DEFINE s == Elements(l, Heads[i])
<1>1. IsList(l, Heads[i], s) /\ Heads[i] \in Node /\ s \in Seq(Node)
  BY HeadsDiffer, ListNodes DEF OneList
<1>2. IsList(l2, Heads[i], s) /\ Elements(l2, Heads[i]) = s
  BY <1>1, SameElements
<1>3. \A n \in ToSet(s) : n \notin ToSet(Heads) /\ r2[n] # NULL
  BY DEF OneList
<1>4. [k \in DOMAIN s |-> r[s[k]]] = judged
  BY DEF OneList
<1> HIDE DEF s
<1>5. \A k \in DOMAIN s : r2[s[k]] = r[s[k]]
  BY <1>1, Places DEF s
<1>6. [k \in DOMAIN s |-> r2[s[k]]] = [k \in DOMAIN s |-> r[s[k]]]
  BY <1>5
<1> QED BY <1>2, <1>3, <1>4, <1>6 DEF OneList

\* The list of a script that holds no verdicts yet.
LEMMA EmptyList ==
  ASSUME NEW l, NEW r, NEW i \in 1 .. Len(Heads), IsList(l, Heads[i], <<>>)
  PROVE  OneList(l, r, i, <<>>) /\ Elements(l, Heads[i]) = <<>>
<1>1. Elements(l, Heads[i]) = <<>>
  BY HeadsDiffer, ElementsOfList
<1>2. ToSet(<<>>) = {}
  BY DEF ToSet
<1>3. [k \in DOMAIN <<>> |-> r[<<>>[k]]] = <<>>
  OBVIOUS
<1> QED BY <1>1, <1>2, <1>3 DEF OneList

\* The lists stay when scripts return and when their other locals change.
LEMMA ListsKept ==
  ASSUME NEW l, NEW r, NEW sc, NEW sc2, Lists(l, r, sc), Len(sc) \in Nat,
         Len(sc2) \in Nat, Len(sc2) <= Len(sc),
         \A i \in 1 .. Len(sc2) : sc2[i].judged = sc[i].judged
  PROVE  Lists(l, r, sc2)
<1>1. \A i \in 1 .. Len(sc2) : OneList(l, r, i, sc2[i].judged)
  BY DEF Lists
<1>2. Apart(l, Len(sc2))
  <2>1. Apart(l, Len(sc))
    BY DEF Lists
  <2>2. \A i \in 1 .. Len(sc2) : i \in 1 .. Len(sc)
    OBVIOUS
  <2> QED BY <2>1, <2>2, Zenon DEF Apart
<1> QED BY <1>1, <1>2 DEF Lists

\* The lists of n scripts are in l2 and r2 what they were in l, and apart.
StillThere(l, l2, r2, sc, n) ==
  /\ \A i \in 1 .. n : /\ OneList(l2, r2, i, sc[i].judged)
                     /\ Elements(l2, Heads[i]) = Elements(l, Heads[i])
  /\ Apart(l2, n)

\* The lists of n scripts stay when the links of their heads and nodes do, and
\* the results in these.
LEMMA OthersKept ==
  ASSUME NEW l, NEW l2, NEW r, NEW r2, NEW sc, NEW n \in Nat,
         Lists(l, r, sc), Len(sc) \in Nat, n <= Len(sc), Len(sc) <= Len(Heads),
         \A i \in 1 .. n : l2.right[Heads[i]] = l.right[Heads[i]],
         \A i \in 1 .. n : \A m \in ToSet(Elements(l, Heads[i])) :
            SameLinks(l, l2, m) /\ r2[m] = r[m]
  PROVE  StillThere(l, l2, r2, sc, n)
<1>1. Len(Heads) \in Nat
  BY ToolAssumption
<1>2. ASSUME NEW i \in 1 .. n
      PROVE  OneList(l2, r2, i, sc[i].judged) /\ Elements(l2, Heads[i]) = Elements(l, Heads[i])
  <2>1. i \in 1 .. Len(sc) /\ i \in 1 .. Len(Heads)
    BY <1>1
  <2>2. OneList(l, r, i, sc[i].judged)
    BY <2>1 DEF Lists
  <2>3. /\ l2.right[Heads[i]] = l.right[Heads[i]]
        /\ \A m \in ToSet(Elements(l, Heads[i])) : SameLinks(l, l2, m) /\ r2[m] = r[m]
    OBVIOUS
  <2>4. OneList(l2, r2, i, sc[i].judged)
    <3> DEFINE judged == sc[i].judged
    <3> HIDE DEF judged
    <3>1. OneList(l, r, i, judged)
      BY <2>2 DEF judged
    <3>2. OneList(l2, r2, i, judged)
      BY <2>1, <2>3, <3>1, OneListKept
    <3> QED BY <3>2 DEF judged
  <2>5. Elements(l2, Heads[i]) = Elements(l, Heads[i])
    <3>1. IsList(l, Heads[i], Elements(l, Heads[i])) /\ Heads[i] \in Node
      BY <2>1, <2>2, HeadsDiffer DEF OneList
    <3> QED BY <2>3, <3>1, SameElements
  <2> QED BY <2>4, <2>5
<1>3. Apart(l2, n)
  <2>1. Apart(l, Len(sc))
    BY DEF Lists
  <2>2. \A i \in 1 .. n : i \in 1 .. Len(sc)
    OBVIOUS
  <2> QED BY <1>2, <2>1, <2>2, Zenon DEF Apart
<1> QED BY <1>2, <1>3 DEF StillThere

\* The lists of n scripts and one more.
LEMMA OneListMore ==
  ASSUME NEW l, NEW r, NEW sc, NEW n \in Nat, Len(sc) = n + 1,
         l \in Links, r \in [Node -> Result \cup {NULL}],
         \A i \in 1 .. n : OneList(l, r, i, sc[i].judged),
         OneList(l, r, n + 1, sc[n + 1].judged),
         Apart(l, n),
         \A i \in 1 .. n : ToSet(Elements(l, Heads[i]))
                            \cap ToSet(Elements(l, Heads[n + 1])) = {}
  PROVE  Lists(l, r, sc)
<1>1. \A i \in 1 .. Len(sc) : i \in 1 .. n \/ i = n + 1
  OBVIOUS
<1>2. \A i \in 1 .. Len(sc) : OneList(l, r, i, sc[i].judged)
  BY <1>1
<1>3. Apart(l, Len(sc))
  BY <1>1 DEF Apart
<1> QED BY <1>2, <1>3 DEF Lists

\* The nodes and the head of a script are none of another one's.
LEMMA OtherNodes ==
  ASSUME NEW l, NEW r, NEW sc, Lists(l, r, sc), Len(sc) \in Nat,
         Len(sc) <= Len(Heads), NEW i \in 1 .. Len(sc), NEW j \in 1 .. Len(Heads), i # j
  PROVE  /\ Heads[i] \in Node /\ Heads[i] # Heads[j]
         /\ \A m \in ToSet(Elements(l, Heads[i])) :
              /\ m \in Node /\ m \notin ToSet(Heads) /\ m # Heads[j] /\ r[m] # NULL
              /\ j <= Len(sc) => m \notin ToSet(Elements(l, Heads[j]))
<1>1. i \in 1 .. Len(Heads) /\ Len(Heads) \in Nat
  BY HeadsDiffer
<1>2. /\ Heads[i] \in Node /\ Heads[i] # Heads[j]
      /\ Heads[j] \in ToSet(Heads)
  BY <1>1, HeadsDiffer
<1>3. OneList(l, r, i, sc[i].judged)
  BY DEF Lists
<1>4. \A m \in ToSet(Elements(l, Heads[i])) : m \in Node /\ m \notin ToSet(Heads) /\ r[m] # NULL
  BY <1>3, ListNodes
<1>5. j <= Len(sc) => ToSet(Elements(l, Heads[i])) \cap ToSet(Elements(l, Heads[j])) = {}
  <2>1. Apart(l, Len(sc))
    BY DEF Lists
  <2>2. j <= Len(sc) => j \in 1 .. Len(sc)
    BY <1>1
  <2> QED BY <2>1, <2>2, Zenon DEF Apart
<1> QED BY <1>2, <1>4, <1>5

\* A script that begins has an empty list.
LEMMA ListsPushed ==
  ASSUME NEW l, NEW r, NEW sc, NEW sc2, NEW n \in Nat, Lists(l, r, sc), Len(sc) = n,
         Len(sc2) = n + 1, n + 1 <= Len(Heads),
         \A i \in 1 .. n : sc2[i].judged = sc[i].judged, sc2[n + 1].judged = <<>>
  PROVE  Lists(init_glthread(l, Heads[n + 1]), r, sc2)
<1> DEFINE h == Heads[n + 1]
           l2 == init_glthread(l, h)
<1>1. Len(Heads) \in Nat /\ n + 1 \in 1 .. Len(Heads) /\ h \in Node
  <2>1. Len(Heads) \in Nat
    BY ToolAssumption
  <2> QED BY <2>1, HeadsDiffer
<1>2. l \in Links /\ r \in [Node -> Result \cup {NULL}]
  BY DEF Lists
<1>3. l2 \in Links /\ IsList(l2, h, <<>>) /\ \A m \in Node : m # h => SameLinks(l, l2, m)
  BY <1>1, <1>2, Initialised
<1> HIDE DEF l2
<1>4. ASSUME NEW i \in 1 .. n
      PROVE  /\ l2.right[Heads[i]] = l.right[Heads[i]]
             /\ \A m \in ToSet(Elements(l, Heads[i])) :
                   SameLinks(l, l2, m) /\ r[m] = r[m]
  <2>1. i \in 1 .. Len(sc) /\ i # n + 1
    OBVIOUS
  <2>2. Heads[i] \in Node /\ Heads[i] # h /\ \A m \in ToSet(Elements(l, Heads[i])) : m \in Node /\ m # h
    BY <1>1, <2>1, OtherNodes
  <2> QED BY <1>3, <2>2 DEF SameLinks
<1>5. StillThere(l, l2, r, sc, n)
  <2>1. n \in Nat /\ Len(sc) \in Nat /\ n <= Len(sc) /\ Len(sc) <= Len(Heads)
    BY <1>1
  <2>2. \A i \in 1 .. n : l2.right[Heads[i]] = l.right[Heads[i]]
    BY <1>4
  <2>3. \A i \in 1 .. n : \A m \in ToSet(Elements(l, Heads[i])) :
           SameLinks(l, l2, m) /\ r[m] = r[m]
    BY <1>4
  <2> QED BY <2>1, <2>2, <2>3, OthersKept
<1>6. OneList(l2, r, n + 1, <<>>) /\ Elements(l2, h) = <<>>
  BY <1>1, <1>3, EmptyList
<1>7. \A i \in 1 .. n : ToSet(Elements(l2, Heads[i])) \cap ToSet(Elements(l2, Heads[n + 1])) = {}
  BY <1>6 DEF ToSet
<1>8. Lists(l2, r, sc2)
  BY <1>2, <1>3, <1>5, <1>6, <1>7, OneListMore DEF StillThere
<1> QED BY <1>8 DEF l2

\* The end of a test case empties the list of the innermost script.
LEMMA ListsCleaned ==
  ASSUME NEW l, NEW r, NEW sc, NEW sc2, NEW n \in Nat, Lists(l, r, sc), Len(sc) = n + 1,
         Len(sc2) = n + 1, n + 1 <= Len(Heads),
         \A i \in 1 .. n : sc2[i].judged = sc[i].judged, sc2[n + 1].judged = <<>>,
         NEW f, NEW s, s = Elements(l, Heads[n + 1]), Removes(f, l, s), NEW r2,
         r2 \in [Node -> Result \cup {NULL}],
         \A m \in Node : m \notin ToSet(s) => r2[m] = r[m]
  PROVE  Lists(f[Len(s)], r2, sc2)
<1> DEFINE h == Heads[n + 1]
           l2 == f[Len(s)]
<1>1. Len(Heads) \in Nat /\ n + 1 \in 1 .. Len(Heads) /\ h \in Node
  <2>1. Len(Heads) \in Nat
    BY ToolAssumption
  <2> QED BY <2>1, HeadsDiffer
<1>2. l \in Links /\ r \in [Node -> Result \cup {NULL}] /\ IsList(l, h, s) /\ s \in Seq(Node)
  <2>1. OneList(l, r, n + 1, sc[n + 1].judged)
    BY DEF Lists
  <2>2. IsList(l, h, s)
    BY <2>1 DEF OneList
  <2>3. l \in Links /\ r \in [Node -> Result \cup {NULL}]
    BY DEF Lists
  <2> QED BY <2>1, <2>2, <2>3, ListNodes
<1>3. /\ l2 \in Links /\ IsList(l2, h, <<>>)
      /\ \A m \in Node : m # h /\ m \notin ToSet(s) => SameLinks(l, l2, m)
  BY <1>1, <1>2, Cleaned
<1> HIDE DEF l2
<1>4. ASSUME NEW i \in 1 .. n
      PROVE  /\ l2.right[Heads[i]] = l.right[Heads[i]]
             /\ \A m \in ToSet(Elements(l, Heads[i])) :
                   SameLinks(l, l2, m) /\ r2[m] = r[m]
  <2>1. i \in 1 .. Len(sc) /\ i # n + 1
    OBVIOUS
  <2>2. /\ Heads[i] \in Node /\ Heads[i] # h
        /\ \A m \in ToSet(Elements(l, Heads[i])) : m \in Node /\ m # h /\ m \notin ToSet(s)
    BY <1>1, <2>1, OtherNodes
  <2>3. Heads[i] \notin ToSet(s)
    <3>1. Heads[i] \in ToSet(Heads)
      BY <1>1, HeadsDiffer
    <3>2. OneList(l, r, n + 1, sc[n + 1].judged)
      BY DEF Lists
    <3> QED BY <3>1, <3>2, ListNodes
  <2> QED BY <1>3, <2>2, <2>3 DEF SameLinks
<1>5. StillThere(l, l2, r2, sc, n)
  <2>1. n \in Nat /\ Len(sc) \in Nat /\ n <= Len(sc) /\ Len(sc) <= Len(Heads)
    BY <1>1
  <2>2. \A i \in 1 .. n : l2.right[Heads[i]] = l.right[Heads[i]]
    BY <1>4
  <2>3. \A i \in 1 .. n : \A m \in ToSet(Elements(l, Heads[i])) :
           SameLinks(l, l2, m) /\ r2[m] = r[m]
    BY <1>4
  <2> QED BY <2>1, <2>2, <2>3, OthersKept
<1>6. OneList(l2, r2, n + 1, <<>>) /\ Elements(l2, h) = <<>>
  BY <1>1, <1>3, EmptyList
<1>7. \A i \in 1 .. n : ToSet(Elements(l2, Heads[i])) \cap ToSet(Elements(l2, Heads[n + 1])) = {}
  BY <1>6 DEF ToSet
<1>8. Lists(l2, r2, sc2)
  BY <1>3, <1>5, <1>6, <1>7, OneListMore DEF StillThere
<1> QED BY <1>8 DEF l2

\* A script that ends leaves the lists of the others.
LEMMA ListsFreed ==
  ASSUME NEW l, NEW r, NEW sc, NEW sc2, NEW n \in Nat, Lists(l, r, sc), Len(sc) = n + 1,
         Len(sc2) = n, n + 1 <= Len(Heads),
         \A i \in 1 .. n : sc2[i].judged = sc[i].judged,
         NEW l2 \in Links, NEW r2 \in [Node -> Result \cup {NULL}],
         \A m \in Node : m # Heads[n + 1] /\ m \notin ToSet(Elements(l, Heads[n + 1])) =>
            SameLinks(l, l2, m) /\ r2[m] = r[m]
  PROVE  Lists(l2, r2, sc2)
<1>1. Len(Heads) \in Nat /\ n + 1 \in 1 .. Len(Heads)
  <2>1. Len(Heads) \in Nat
    BY ToolAssumption
  <2> QED BY <2>1
<1>2. ASSUME NEW i \in 1 .. n
      PROVE  /\ l2.right[Heads[i]] = l.right[Heads[i]]
             /\ \A m \in ToSet(Elements(l, Heads[i])) :
                   SameLinks(l, l2, m) /\ r2[m] = r[m]
  <2>1. i \in 1 .. Len(sc) /\ i # n + 1
    OBVIOUS
  <2>2. /\ Heads[i] \in Node /\ Heads[i] # Heads[n + 1]
        /\ \A m \in ToSet(Elements(l, Heads[i])) :
              m \in Node /\ m # Heads[n + 1] /\ m \notin ToSet(Elements(l, Heads[n + 1]))
    BY <1>1, <2>1, OtherNodes
  <2>3. Heads[i] \notin ToSet(Elements(l, Heads[n + 1]))
    <3>1. Heads[i] \in ToSet(Heads)
      BY <1>1, HeadsDiffer
    <3>2. OneList(l, r, n + 1, sc[n + 1].judged)
      BY DEF Lists
    <3> QED BY <2>2, <3>1, <3>2, ListNodes
  <2> QED BY <2>2, <2>3 DEF SameLinks
<1>3. StillThere(l, l2, r2, sc, n)
  <2>1. n \in Nat /\ Len(sc) \in Nat /\ n <= Len(sc) /\ Len(sc) <= Len(Heads)
    BY <1>1
  <2>2. \A i \in 1 .. n : l2.right[Heads[i]] = l.right[Heads[i]]
    BY <1>2
  <2>3. \A i \in 1 .. n : \A m \in ToSet(Elements(l, Heads[i])) :
           SameLinks(l, l2, m) /\ r2[m] = r[m]
    BY <1>2
  <2> QED BY <2>1, <2>2, <2>3, OthersKept
<1> QED BY <1>3 DEF Lists, StillThere

\* A pattern appends its verdict, in a node that was free.
LEMMA ListsAppended ==
  ASSUME NEW l, NEW r, NEW sc, NEW sc2, NEW n \in Nat, Lists(l, r, sc), Len(sc) = n + 1,
         Len(sc2) = n + 1, n + 1 <= Len(Heads),
         \A i \in 1 .. n : sc2[i].judged = sc[i].judged,
         NEW v \in Result, sc2[n + 1].judged = Append(sc[n + 1].judged, v),
         NEW a \in Node, a \notin ToSet(Heads), r[a] = NULL
  PROVE  Lists(glthread_add_last(init_glthread(l, a), Heads[n + 1], a),
               [r EXCEPT ![a] = v], sc2)
<1> DEFINE h == Heads[n + 1]
           s == Elements(l, h)
           t == Append(s, a)
           l2 == glthread_add_last(init_glthread(l, a), h, a)
           r2 == [r EXCEPT ![a] = v]
<1>1. /\ Len(Heads) \in Nat /\ n + 1 \in 1 .. Len(Heads) /\ h \in Node
      /\ \A i \in 1 .. Len(Heads) : Heads[i] \in ToSet(Heads)
  <2>1. Len(Heads) \in Nat
    BY ToolAssumption
  <2> QED BY <2>1, HeadsDiffer
<1>2. l \in Links /\ r \in [Node -> Result \cup {NULL}]
  BY DEF Lists
<1>3. /\ IsList(l, h, s) /\ s \in Seq(Node)
      /\ \A m \in ToSet(s) : m \in Node /\ m \notin ToSet(Heads) /\ r[m] # NULL
      /\ [k \in DOMAIN s |-> r[s[k]]] = sc[n + 1].judged
  <2>1. OneList(l, r, n + 1, sc[n + 1].judged)
    BY DEF Lists
  <2> QED BY <2>1, ListNodes DEF OneList
<1>4. /\ \A m \in Node : m # a => r2[m] = r[m]
      /\ r2[a] = v /\ v # NULL /\ r2 \in [Node -> Result \cup {NULL}]
  BY <1>2, ToolAssumption
<1> HIDE DEF s, r2
<1>5. /\ l2 \in Links /\ IsList(l2, h, t)
      /\ \A m \in Node : m # h /\ m # a /\ m \notin ToSet(s) => SameLinks(l, l2, m)
  <2>1. a # h /\ a \notin ToSet(s)
    BY <1>1, <1>3
  <2> QED BY <1>1, <1>2, <1>3, <2>1, Appended
<1> HIDE DEF l2
<1>6. Elements(l2, h) = t
  <2> HIDE DEF t
  <2> QED BY <1>1, <1>5, ElementsOfList
<1>7. /\ t \in Seq(Node) /\ Len(t) = Len(s) + 1 /\ t[Len(s) + 1] = a /\ Len(s) \in Nat
      /\ \A k \in 1 .. Len(s) : t[k] = s[k] /\ s[k] \in ToSet(s)
  BY <1>3, Places
<1> HIDE DEF t
<1>8. \A m \in ToSet(t) : m = a \/ m \in ToSet(s)
  BY <1>7, Places
<1>9. [k \in DOMAIN t |-> r2[t[k]]] = Append(sc[n + 1].judged, v)
  <2> DEFINE w == [k \in DOMAIN s |-> r[s[k]]]
             x == [k \in DOMAIN t |-> r2[t[k]]]
  <2>1. DOMAIN s = 1 .. Len(s) /\ DOMAIN t = 1 .. Len(s) + 1
    BY <1>3, <1>7
  <2>2. w \in Seq(Result) /\ Len(w) = Len(s)
    <3>1. \A k \in 1 .. Len(s) : r[s[k]] \in Result
      BY <1>2, <1>3, <1>7
    <3> QED BY <1>7, <2>1, <3>1
  <2>3. \A k \in 1 .. Len(s) : x[k] = w[k]
    BY <1>3, <1>4, <1>7, <2>1
  <2>4. x[Len(s) + 1] = v
    BY <1>4, <1>7, <2>1
  <2>5. w = sc[n + 1].judged
    BY <1>3
  <2>6. x = [k \in 1 .. Len(s) + 1 |-> x[k]]
    BY <2>1
  <2> HIDE DEF w, x
  <2>7. /\ Append(w, v) \in Seq(Result) /\ Len(Append(w, v)) = Len(s) + 1
        /\ Append(w, v)[Len(s) + 1] = v
        /\ \A k \in 1 .. Len(s) : Append(w, v)[k] = w[k]
    BY <1>7, <2>2
  <2> DEFINE y == Append(w, v)
  <2> HIDE DEF y
  <2>8. y = [k \in 1 .. Len(s) + 1 |-> y[k]]
    <3>1. y \in Seq(Result) /\ Len(y) = Len(s) + 1
      BY <2>7 DEF y
    <3> QED BY <3>1
  <2>9. \A k \in 1 .. Len(s) + 1 : x[k] = y[k]
    BY <1>7, <2>3, <2>4, <2>7 DEF y
  <2>10. x = y
    BY <2>6, <2>8, <2>9
  <2> QED BY <2>5, <2>10 DEF x, y
<1>10. OneList(l2, r2, n + 1, sc2[n + 1].judged)
  <2>1. \A m \in ToSet(t) : m \notin ToSet(Heads) /\ r2[m] # NULL
    BY <1>3, <1>4, <1>8
  <2> QED BY <1>5, <1>6, <1>9, <2>1 DEF OneList
<1>11. ASSUME NEW i \in 1 .. n
       PROVE  /\ l2.right[Heads[i]] = l.right[Heads[i]]
              /\ \A m \in ToSet(Elements(l, Heads[i])) :
                    SameLinks(l, l2, m) /\ r2[m] = r[m] /\ m \notin ToSet(t)
  <2>1. i \in 1 .. Len(sc) /\ i # n + 1
    OBVIOUS
  <2>2. /\ Heads[i] \in Node /\ Heads[i] # h
        /\ \A m \in ToSet(Elements(l, Heads[i])) :
              m \in Node /\ m # h /\ m \notin ToSet(s) /\ r[m] # NULL
    BY <1>1, <2>1, OtherNodes DEF s
  <2>3. Heads[i] \notin ToSet(s) /\ Heads[i] # a
    BY <1>1, <1>3
  <2> QED BY <1>4, <1>5, <1>8, <2>2, <2>3 DEF SameLinks
<1>12. StillThere(l, l2, r2, sc, n)
  <2>1. n \in Nat /\ Len(sc) \in Nat /\ n <= Len(sc) /\ Len(sc) <= Len(Heads)
    BY <1>1
  <2>2. \A i \in 1 .. n : l2.right[Heads[i]] = l.right[Heads[i]]
    BY <1>11
  <2>3. \A i \in 1 .. n : \A m \in ToSet(Elements(l, Heads[i])) :
           SameLinks(l, l2, m) /\ r2[m] = r[m]
    BY <1>11
  <2> QED BY <2>1, <2>2, <2>3, OthersKept
<1>13. \A i \in 1 .. n : ToSet(Elements(l2, Heads[i])) \cap ToSet(Elements(l2, Heads[n + 1])) = {}
  BY <1>6, <1>11, <1>12 DEF StillThere
<1>14. Lists(l2, r2, sc2)
  BY <1>4, <1>5, <1>10, <1>12, <1>13, OneListMore DEF StillThere
<1> QED BY <1>14 DEF l2, r2

-----------------------------------------------------------------------------
(* The invariant.                                                          *)

\* The types, but for the lists.
Types ==
  /\ pc \in {"idle", "line", "handler", "receive"}
  /\ (pc = "idle") <=> (scripts = <<>>)
  /\ TC_RUNNING \in BOOLEAN /\ ut_parser_debug \in BOOLEAN /\ spilt \in BOOLEAN
  /\ scripts \in Seq(Script) /\ Len(scripts) <= Len(Heads)
  /\ cmds \in 0 .. MaxCmds
  /\ queue \in Seq(1 .. MaxCmds) /\ Len(queue) <= MAX_MESSAGES
  /\ ut_parser_recv_buff \in 1 .. MaxCmds \cup {NULL}
  /\ asked \subseteq 1 .. MaxCmds /\ sending \subseteq 1 .. MaxCmds

\* A script whose command is under way knows its number: the innermost one in
\* a handler, and each that waits for the script it ran.
Commanded ==
  \A i \in 1 .. Len(scripts) :
    i < Len(scripts) \/ pc = "handler" => scripts[i].cmd # 0

\* While no command began with answers outstanding, what is under way is the
\* answer of the command under way, and what was received that of the last
\* "show".
outstanding == ToSet(queue) \cup asked \cup sending

Answers ==
  /\ pc \in {"line", "handler"} /\ ~spilt /\ top.shown # NULL =>
       ut_parser_recv_buff \in {NULL, top.shown}
  /\ pc = "handler" /\ ~spilt /\ TC_RUNNING => outstanding \subseteq {top.cmd}
  /\ pc = "receive" /\ ~spilt => outstanding \subseteq {top.shown}

IInv ==
  /\ Types /\ Commanded /\ Lists(links, result, scripts)
  /\ Answers /\ ConsolePrints

-----------------------------------------------------------------------------
(* The scripts under way.                                                  *)

\* Under Types, a script is under way unless the tool is idle, and the
\* innermost one has the type of one.
LEMMA TopScript ==
  ASSUME Types, pc # "idle"
  PROVE  /\ Len(scripts) \in Nat \ {0} /\ top \in Script
         /\ Len(scripts) - 1 \in Nat /\ (Len(scripts) - 1) + 1 = Len(scripts)
         /\ Len(scripts) \in 1 .. Len(Heads) /\ Heads \in Seq(Node)
<1>1. scripts \in Seq(Script) /\ scripts # <<>> /\ Len(scripts) <= Len(Heads)
  BY DEF Types
<1>2. Len(scripts) \in Nat \ {0}
  BY <1>1
<1>3. Heads \in Seq(Node)
  BY ToolAssumption
<1> QED BY <1>1, <1>2, <1>3 DEF top

\* What SetTop makes of the scripts.
LEMMA TopSet ==
  ASSUME Types, pc # "idle", NEW record \in Script, SetTop(record)
  PROVE  /\ scripts' \in Seq(Script) /\ Len(scripts') = Len(scripts) /\ scripts' # <<>>
         /\ top' = record
         /\ \A i \in 1 .. Len(scripts) :
               scripts'[i] = IF i = Len(scripts) THEN record ELSE scripts[i]
<1>1. Len(scripts) \in Nat \ {0} /\ scripts \in Seq(Script)
  BY TopScript DEF Types
<1>2. /\ scripts' \in Seq(Script) /\ Len(scripts') = Len(scripts)
      /\ \A i \in 1 .. Len(scripts) :
               scripts'[i] = IF i = Len(scripts) THEN record ELSE scripts[i]
  BY <1>1 DEF SetTop
<1> QED BY <1>1, <1>2 DEF top

\* What the end of a script makes of the scripts: the innermost one goes, and
\* the next one forgets its "show".
LEMMA Left ==
  ASSUME Types, pc # "idle", Leave
  PROVE  /\ scripts' \in Seq(Script) /\ Len(scripts') = Len(scripts) - 1
         /\ \A i \in 1 .. Len(scripts') :
               /\ scripts'[i].judged = scripts[i].judged
               /\ scripts'[i].cmd = scripts[i].cmd
         /\ \/ pc' = "idle" /\ scripts' = <<>>
            \/ pc' = "handler" /\ scripts' # <<>> /\ top'.shown = NULL
<1> DEFINE outer == SubSeq(scripts, 1, Len(scripts) - 1)
<1>1. Len(scripts) \in Nat \ {0} /\ scripts \in Seq(Script)
  BY TopScript DEF Types
<1>2. /\ outer \in Seq(Script) /\ Len(outer) = Len(scripts) - 1
      /\ \A i \in 1 .. Len(outer) : outer[i] = scripts[i]
  <2> DEFINE n == Len(scripts) - 1
  <2>1. n \in 0 .. Len(scripts) /\ n \in Nat
    BY <1>1
  <2> HIDE DEF n
  <2>2. SubSeq(scripts, 1, n) \in Seq(Script) /\ Len(SubSeq(scripts, 1, n)) = n
    BY <1>1, <2>1
  <2>3. \A i \in 1 .. n : SubSeq(scripts, 1, n)[i] = scripts[i]
    BY <1>1, <2>1
  <2> QED BY <2>2, <2>3 DEF n
<1>3. IF outer = <<>> THEN pc' = "idle" /\ scripts' = outer
      ELSE /\ pc' = "handler"
           /\ scripts' = [outer EXCEPT ![Len(outer)].shown = NULL]
  BY DEF Leave
<1> HIDE DEF outer
<1>4. CASE outer = <<>>
  BY <1>2, <1>3, <1>4
<1>5. CASE outer # <<>>
  <2> DEFINE n == Len(outer)
             record == [outer[n] EXCEPT !.shown = NULL]
  <2>1. n \in Nat \ {0} /\ outer[n] \in Script
    BY <1>2, <1>5
  <2>2. /\ record \in Script /\ record.shown = NULL
        /\ record.judged = outer[n].judged /\ record.cmd = outer[n].cmd
    BY <2>1 DEF Script
  <2>3. scripts' = [outer EXCEPT ![n] = record] /\ pc' = "handler"
    BY <1>3, <1>5
  <2> HIDE DEF record
  <2>4. /\ scripts' \in Seq(Script) /\ Len(scripts') = n
        /\ \A i \in 1 .. n : scripts'[i] = IF i = n THEN record ELSE outer[i]
    BY <1>2, <2>1, <2>2, <2>3
  <2>5. top'.shown = NULL
    BY <2>1, <2>2, <2>4 DEF top
  <2>6. ASSUME NEW i \in 1 .. n
        PROVE  scripts'[i].judged = scripts[i].judged /\ scripts'[i].cmd = scripts[i].cmd
    BY <1>2, <2>2, <2>4
  <2> QED BY <1>2, <2>1, <2>3, <2>4, <2>5, <2>6
<1> QED BY <1>4, <1>5

-----------------------------------------------------------------------------
(* Every step keeps the types, the numbers of the commands and the lists.  *)

Data == Types /\ Commanded /\ Lists(links, result, scripts)

\* The lists stay when the scripts and the lists do.
LEMMA ListsUnchanged ==
  ASSUME Lists(links, result, scripts), UNCHANGED <<scripts, list>>
  PROVE  Lists(links, result, scripts)'
<1>1. links' = links /\ result' = result /\ scripts' = scripts
  BY DEF list
<1> QED BY <1>1

\* The lists stay when other locals of the innermost script change.
LEMMA ListsTopSet ==
  ASSUME Types, pc # "idle", Lists(links, result, scripts), UNCHANGED list,
         NEW record \in Script, record.judged = top.judged, SetTop(record)
  PROVE  Lists(links, result, scripts)'
<1>1. links' = links /\ result' = result
  BY DEF list
<1>2. Len(scripts) \in Nat /\ top = scripts[Len(scripts)]
  BY TopScript DEF top
<1>3. /\ Len(scripts') = Len(scripts)
      /\ \A i \in 1 .. Len(scripts') : scripts'[i].judged = scripts[i].judged
  BY <1>2, TopSet
<1>4. Lists(links, result, scripts')
  BY <1>2, <1>3, ListsKept
<1> QED BY <1>1, <1>4

\* A script begins.
LEMMA RunData ==
  ASSUME Data, run_test_case
  PROVE  Data'
<1>1. Types /\ Commanded /\ Lists(links, result, scripts)
  BY DEF Data
<1> DEFINE n == Len(scripts)
<1>2. scripts \in Seq(Script) /\ n \in Nat /\ n + 1 <= Len(Heads) /\ Len(Heads) \in Nat
  BY <1>1, ToolAssumption DEF Types, run_test_case
<1>3. PICK all \in BOOLEAN, step \in StepNo :
        scripts' = Append(scripts, [all |-> all, current_step_no |-> step,
                                    cmd |-> 0, has_show |-> FALSE,
                                    shown |-> NULL, judged |-> <<>>])
  BY DEF run_test_case
<1> DEFINE record == [all |-> all, current_step_no |-> step, cmd |-> 0, has_show |-> FALSE,
                      shown |-> NULL, judged |-> <<>>]
<1>4. record \in Script /\ record.judged = <<>>
  BY ToolAssumption DEF Script
<1> HIDE DEF record
<1>5. /\ scripts' \in Seq(Script) /\ Len(scripts') = n + 1 /\ scripts' # <<>>
      /\ scripts'[n + 1] = record /\ \A i \in 1 .. n : scripts'[i] = scripts[i]
  BY <1>2, <1>3, <1>4 DEF record
<1>6. Types'
  BY <1>1, <1>2, <1>5 DEF Types, run_test_case, backend
<1>7. Commanded'
  <2>1. \A i \in 1 .. n : scripts[i].cmd # 0
    BY <1>1, <1>2 DEF Commanded, run_test_case, Types
  <2>2. pc' = "line"
    BY DEF run_test_case
  <2> QED BY <1>2, <1>5, <2>1, <2>2 DEF Commanded
<1>8. Lists(links, result, scripts)'
  <2>1. links' = init_glthread(links, Heads[n + 1]) /\ result' = result
    BY DEF run_test_case
  <2>2. Lists(init_glthread(links, Heads[n + 1]), result, scripts')
    BY <1>1, <1>2, <1>4, <1>5, ListsPushed
  <2> QED BY <2>1, <2>2
<1> QED BY <1>6, <1>7, <1>8 DEF Data

\* A test case ends: the list is emptied, and the script may end with it.
LEMMA EndData ==
  ASSUME Data, TestcaseEnd
  PROVE  Data'
<1>1. Types /\ Commanded /\ Lists(links, result, scripts) /\ pc = "line"
  BY DEF Data, TestcaseEnd
<1> DEFINE n == Len(scripts) - 1
           s == Elements(links, Heads[n + 1])
           f == CHOOSE f : Removes(f, links, s)
<1>2. /\ n \in Nat /\ n + 1 = Len(scripts) /\ Len(scripts) \in Nat \ {0} /\ n + 1 <= Len(Heads)
      /\ top \in Script /\ scripts \in Seq(Script) /\ top = scripts[n + 1] /\ Len(Heads) \in Nat
      /\ n + 1 \in 1 .. Len(Heads) /\ Heads \in Seq(Node)
  BY <1>1, TopScript DEF Types, top
<1>3. links \in Links /\ result \in [Node -> Result \cup {NULL}] /\ s \in Seq(Node)
  <2>1. OneList(links, result, n + 1, scripts[n + 1].judged)
    BY <1>1, <1>2 DEF Lists
  <2> QED BY <1>1, <2>1, ListNodes DEF Lists
<1>4. /\ links' = f[Len(s)]
      /\ result' = [m \in Node |-> IF \E i \in 1 .. Len(s) : s[i] = m THEN NULL ELSE result[m]]
  BY <1>2 DEF TestcaseEnd, tc_cleanup_result_list, result_head, Removes
<1>5. Removes(f, links, s)
  BY <1>3, RemovesExists
<1> HIDE DEF s, f
<1>6. result' \in [Node -> Result \cup {NULL}] /\ \A m \in Node : m \notin ToSet(s) => result'[m] = result[m]
  BY <1>3, <1>4, Places
<1> DEFINE emptied == [top EXCEPT !.judged = <<>>]
           cleared == [scripts EXCEPT ![Len(scripts)] = emptied]
<1>7. emptied \in Script /\ emptied.judged = <<>> /\ emptied.cmd = top.cmd
  <2>1. <<>> \in Seq(Result)
    BY EmptyInSeq
  <2> QED BY <1>2, <2>1 DEF Script
<1> HIDE DEF emptied, n
<1>8. /\ cleared \in Seq(Script) /\ Len(cleared) = n + 1
      /\ \A i \in 1 .. n : cleared[i] = scripts[i]
      /\ cleared[n + 1] = emptied
  BY <1>2, <1>7
<1> HIDE DEF cleared
<1>9. Lists(links', result', cleared)
  <2>1. s = Elements(links, Heads[n + 1])
    BY DEF s, n
  <2>2. /\ \A i \in 1 .. n : cleared[i].judged = scripts[i].judged
        /\ cleared[n + 1].judged = <<>>
    BY <1>7, <1>8
  <2>3. Len(scripts) = n + 1 /\ n \in Nat /\ Len(cleared) = n + 1 /\ n + 1 <= Len(Heads)
    BY <1>2, <1>8
  <2>4. PICK r2 : r2 = result'
    OBVIOUS
  <2>5. r2 \in [Node -> Result \cup {NULL}] /\ \A m \in Node : m \notin ToSet(s) => r2[m] = result[m]
    BY <1>6, <2>4
  <2>6. Lists(f[Len(s)], r2, cleared)
    BY <1>1, <1>5, <2>1, <2>2, <2>3, <2>5, ListsCleaned
  <2> QED BY <1>4, <2>4, <2>6
<1>10. UNCHANGED <<cmds, spilt, queue, ut_parser_recv_buff, ut_parser_debug, asked, sending>>
  BY DEF TestcaseEnd, backend
<1>11. CASE ~top.all /\ TC_RUNNING
  <2>1. Leave /\ TC_RUNNING' = FALSE
    BY <1>11 DEF TestcaseEnd, Finish
  <2>2. /\ scripts' \in Seq(Script) /\ Len(scripts') = n
        /\ \A i \in 1 .. n : scripts'[i].judged = scripts[i].judged /\ scripts'[i].cmd = scripts[i].cmd
        /\ \/ pc' = "idle" /\ scripts' = <<>>
           \/ pc' = "handler" /\ scripts' # <<>> /\ top'.shown = NULL
    BY <1>1, <2>1, Left DEF n
  <2>3. Types'
    <3>1. Len(scripts') <= Len(Heads)
      BY <1>2, <2>2
    <3>2. pc' \in {"idle", "handler"} /\ ((pc' = "idle") <=> (scripts' = <<>>))
      BY <2>2
    <3> QED BY <1>1, <1>10, <2>1, <2>2, <3>1, <3>2 DEF Types
  <2>4. Commanded'
    <3>1. \A i \in 1 .. n : scripts[i].cmd # 0
      BY <1>1, <1>2 DEF Commanded
    <3> QED BY <2>2, <3>1 DEF Commanded
  <2>5. Lists(links', result', scripts')
    BY <1>2, <1>8, <1>9, <2>2, ListsKept
  <2> QED BY <2>3, <2>4, <2>5 DEF Data
<1>12. CASE ~(~top.all /\ TC_RUNNING)
  <2>1. SetTop(emptied) /\ pc' = pc /\ TC_RUNNING' = TC_RUNNING
    BY <1>12 DEF TestcaseEnd, emptied
  <2>2. scripts' = cleared
    BY <2>1 DEF SetTop, cleared
  <2>3. Types'
    <3>1. scripts' # <<>>
      BY <1>2, <1>8, <2>2
    <3> QED BY <1>1, <1>2, <1>8, <1>10, <2>1, <2>2, <3>1 DEF Types
  <2>4. Commanded'
    <3>1. pc' # "handler" /\ Len(scripts') = n + 1
      BY <1>1, <1>8, <2>1, <2>2
    <3>2. \A i \in 1 .. n : scripts'[i].cmd = scripts[i].cmd /\ scripts[i].cmd # 0
      BY <1>1, <1>2, <1>8, <2>2 DEF Commanded
    <3> QED BY <1>2, <3>1, <3>2 DEF Commanded
  <2> QED BY <1>9, <2>2, <2>3, <2>4 DEF Data
<1> QED BY <1>11, <1>12

\* A pattern is judged.
LEMMA PatternData ==
  ASSUME Data, Pattern
  PROVE  Data'
<1>1. Types /\ Commanded /\ Lists(links, result, scripts) /\ pc = "line"
  BY DEF Data, Pattern
<1> DEFINE n == Len(scripts) - 1
<1>2. /\ n \in Nat /\ n + 1 = Len(scripts) /\ n + 1 <= Len(Heads)
      /\ top \in Script /\ scripts \in Seq(Script) /\ top = scripts[n + 1]
  BY <1>1, TopScript DEF Types, top
<1>3. PICK match \in Match : tc_append_result(match)
  BY DEF Pattern
<1>4. PICK a \in {m \in Node \ ToSet(Heads) : result[m] = NULL}, found \in BOOLEAN :
        LET r == [step |-> top.current_step_no, pass |-> (found = match), match |-> match]
        IN  /\ ut_parser_recv_buff = NULL => ~found
            /\ result' = [result EXCEPT ![a] = r]
            /\ links' = glthread_add_last(init_glthread(links, a), result_head, a)
            /\ SetTop([top EXCEPT !.judged = Append(@, r)])
  BY <1>3 DEF tc_append_result
<1> DEFINE r == [step |-> top.current_step_no, pass |-> (found = match), match |-> match]
           record == [top EXCEPT !.judged = Append(top.judged, r)]
<1>5. r \in Result
  BY <1>2 DEF Script, Result
<1>6. /\ record \in Script /\ record.judged = Append(top.judged, r)
      /\ record.cmd = top.cmd
  <2>1. Append(top.judged, r) \in Seq(Result)
    BY <1>2, <1>5 DEF Script
  <2> QED BY <1>2, <2>1 DEF Script
<1>7. SetTop(record)
  BY <1>4
<1>8. /\ result' = [result EXCEPT ![a] = r]
      /\ links' = glthread_add_last(init_glthread(links, a), Heads[n + 1], a)
  BY <1>2, <1>4 DEF result_head
<1> HIDE DEF record, r, n
<1>9. /\ scripts' \in Seq(Script) /\ Len(scripts') = n + 1 /\ scripts' # <<>>
      /\ scripts'[n + 1] = record
      /\ \A i \in 1 .. n : scripts'[i] = scripts[i]
  BY <1>1, <1>2, <1>6, <1>7, TopSet
<1>10. UNCHANGED <<pc, TC_RUNNING, cmds, spilt, queue, ut_parser_recv_buff,
                   ut_parser_debug, asked, sending>>
  BY DEF Pattern, backend
<1>11. Types'
  BY <1>1, <1>2, <1>9, <1>10 DEF Types
<1>12. Commanded'
  <2>1. \A i \in 1 .. n : scripts'[i].cmd = scripts[i].cmd /\ scripts[i].cmd # 0
    BY <1>1, <1>2, <1>9 DEF Commanded
  <2> QED BY <1>1, <1>2, <1>9, <1>10, <2>1 DEF Commanded
<1>13. Lists(links, result, scripts)'
  <2>1. /\ a \in Node /\ a \notin ToSet(Heads) /\ result[a] = NULL
    BY <1>4
  <2>2. /\ Len(scripts) = n + 1
        /\ \A i \in 1 .. n : scripts'[i].judged = scripts[i].judged
        /\ scripts'[n + 1].judged = Append(scripts[n + 1].judged, r)
    BY <1>2, <1>6, <1>9
  <2>3. Lists(glthread_add_last(init_glthread(links, a), Heads[n + 1], a),
              [result EXCEPT ![a] = r], scripts')
    BY <1>1, <1>2, <1>5, <1>9, <2>1, <2>2, ListsAppended
  <2> QED BY <1>8, <2>3
<1> QED BY <1>11, <1>12, <1>13 DEF Data

\* A script ends without freeing its results.
LEMMA EndOfScriptData ==
  ASSUME Data, EndOfScript
  PROVE  Data'
<1>1. Types /\ Commanded /\ Lists(links, result, scripts) /\ pc = "line"
  BY DEF Data, EndOfScript
<1> DEFINE n == Len(scripts) - 1
           gone == {Heads[n + 1]} \cup ToSet(Elements(links, Heads[n + 1]))
<1>2. n \in Nat /\ n + 1 = Len(scripts) /\ n + 1 <= Len(Heads) /\ Len(Heads) \in Nat
  BY <1>1, TopScript DEF Types
<1>3. /\ links' = [left |-> [m \in Node |-> IF m \in gone THEN NULL ELSE links.left[m]],
                   right |-> [m \in Node |-> IF m \in gone THEN NULL ELSE links.right[m]]]
      /\ result' = [m \in Node |-> IF m \in gone THEN NULL ELSE result[m]]
  BY <1>2 DEF EndOfScript, result_head
<1>4. Leave /\ TC_RUNNING' = FALSE
  BY DEF EndOfScript, Finish
<1>5. /\ scripts' \in Seq(Script) /\ Len(scripts') = n
      /\ \A i \in 1 .. n : scripts'[i].judged = scripts[i].judged /\ scripts'[i].cmd = scripts[i].cmd
      /\ pc' \in {"idle", "handler"} /\ ((pc' = "idle") <=> (scripts' = <<>>))
  BY <1>1, <1>4, Left DEF n
<1> HIDE DEF n
<1>6. UNCHANGED <<cmds, spilt, queue, ut_parser_recv_buff, ut_parser_debug, asked, sending>>
  BY DEF EndOfScript, backend
<1>7. Types'
  <2>1. Len(scripts') <= Len(Heads)
    BY <1>2, <1>5
  <2> QED BY <1>1, <1>4, <1>5, <1>6, <2>1 DEF Types
<1>8. Commanded'
  <2>1. \A i \in 1 .. n : scripts[i].cmd # 0
    BY <1>1, <1>2 DEF Commanded
  <2> QED BY <1>5, <2>1 DEF Commanded
<1>9. Lists(links, result, scripts)'
  <2>1. links \in Links /\ result \in [Node -> Result \cup {NULL}]
    BY <1>1 DEF Lists
  <2>2. links' \in Links /\ result' \in [Node -> Result \cup {NULL}]
    BY <1>3, <2>1 DEF Links
  <2>3. \A m \in Node : m # Heads[n + 1] /\ m \notin ToSet(Elements(links, Heads[n + 1])) =>
           SameLinks(links, links', m) /\ result'[m] = result[m]
    BY <1>3 DEF SameLinks
  <2>4. /\ n \in Nat /\ Len(scripts) = n + 1 /\ Len(scripts') = n /\ n + 1 <= Len(Heads)
        /\ \A i \in 1 .. n : scripts'[i].judged = scripts[i].judged
    BY <1>2, <1>5
  <2>5. Lists(links', result', scripts')
    BY <1>1, <2>2, <2>3, <2>4, ListsFreed
  <2> QED BY <2>5
<1> QED BY <1>7, <1>8, <1>9 DEF Data

\* An assertion ends the process.
LEMMA AssertData ==
  ASSUME Data, AssertFails
  PROVE  Data'
<1>1. Types
  BY DEF Data
<1>2. scripts' = <<>> /\ Len(scripts') = 0
  BY DEF AssertFails
<1>3. Types'
  <2>1. scripts' \in Seq(Script) /\ Len(scripts') <= Len(Heads)
    <3>1. <<>> \in Seq(Script)
      BY EmptyInSeq
    <3>2. Len(Heads) \in Nat
      BY ToolAssumption
    <3> QED BY <1>2, <3>1, <3>2
  <2>2. /\ pc' = "idle" /\ TC_RUNNING' = FALSE /\ ut_parser_debug' = FALSE
        /\ ut_parser_recv_buff' = NULL /\ asked' = {} /\ sending' = {}
        /\ UNCHANGED <<cmds, spilt, queue>>
    BY DEF AssertFails
  <2> QED BY <1>1, <1>2, <2>1, <2>2 DEF Types
<1>4. Commanded'
  BY <1>2 DEF Commanded
<1>5. Lists(links, result, scripts)'
  <2>1. links' = [left |-> NoLinks, right |-> NoLinks] /\ result' = NoLinks
    BY DEF AssertFails
  <2>2. links' \in Links /\ result' \in [Node -> Result \cup {NULL}]
    BY <2>1 DEF Links, NoLinks
  <2>3. Apart(links', Len(scripts'))
    BY <1>2 DEF Apart
  <2> QED BY <1>2, <2>2, <2>3 DEF Lists
<1> QED BY <1>3, <1>4, <1>5 DEF Data

\* The other lines change locals of the innermost script.
LEMMA StepData ==
  ASSUME Data, Step
  PROVE  Data'
<1>1. Types /\ Commanded /\ Lists(links, result, scripts) /\ pc = "line"
  BY DEF Data, Step
<1>2. PICK step \in StepNo : SetTop([top EXCEPT !.current_step_no = step])
  BY DEF Step
<1> DEFINE record == [top EXCEPT !.current_step_no = step]
<1>3. record \in Script /\ record.judged = top.judged /\ record.cmd = top.cmd
  BY <1>1, TopScript DEF Script
<1>4. SetTop(record)
  BY <1>2
<1> HIDE DEF record
<1>5. /\ scripts' \in Seq(Script) /\ Len(scripts') = Len(scripts) /\ scripts' # <<>>
      /\ \A i \in 1 .. Len(scripts) :
            scripts'[i] = IF i = Len(scripts) THEN record ELSE scripts[i]
  BY <1>1, <1>3, <1>4, TopSet
<1>6. Types'
  BY <1>1, <1>5 DEF Types, Step, backend
<1>7. Commanded'
  BY <1>1, <1>5 DEF Commanded, Step
<1>8. Lists(links, result, scripts)'
  BY <1>1, <1>3, <1>4, ListsTopSet DEF Step
<1> QED BY <1>6, <1>7, <1>8 DEF Data

\* A command of the script begins.
LEMMA CmdData ==
  ASSUME Data, Cmd
  PROVE  Data'
<1>1. Types /\ Commanded /\ Lists(links, result, scripts) /\ pc = "line"
  BY DEF Data, Cmd
<1>2. PICK has_show \in BOOLEAN :
        SetTop([top EXCEPT !.cmd = cmds + 1, !.has_show = has_show])
  BY DEF Cmd
<1>3. cmds + 1 \in 1 .. MaxCmds
  BY <1>1, ToolAssumption DEF Types, Cmd
<1> DEFINE record == [top EXCEPT !.cmd = cmds + 1, !.has_show = has_show]
<1>4. record \in Script /\ record.judged = top.judged /\ record.cmd = cmds + 1
  <2>1. cmds + 1 \in 0 .. MaxCmds
    BY <1>3
  <2> QED BY <1>1, <2>1, TopScript DEF Script
<1>5. SetTop(record)
  BY <1>2
<1> HIDE DEF record
<1>6. /\ scripts' \in Seq(Script) /\ Len(scripts') = Len(scripts) /\ scripts' # <<>>
      /\ \A i \in 1 .. Len(scripts) :
            scripts'[i] = IF i = Len(scripts) THEN record ELSE scripts[i]
  BY <1>1, <1>4, <1>5, TopSet
<1>7. Types'
  <2>1. spilt' \in BOOLEAN /\ cmds' \in 0 .. MaxCmds
    BY <1>1, <1>3 DEF Types, Cmd
  <2> QED BY <1>1, <1>6, <2>1 DEF Types, Cmd, backend
<1>8. Commanded'
  <2>1. record.cmd # 0
    BY <1>3, <1>4
  <2>2. Len(scripts) \in Nat
    BY <1>1, TopScript
  <2> QED BY <1>1, <1>6, <2>1, <2>2 DEF Commanded
<1>9. Lists(links, result, scripts)'
  BY <1>1, <1>4, <1>5, ListsTopSet DEF Cmd
<1> QED BY <1>7, <1>8, <1>9 DEF Data

\* A handler returns.
LEMMA DoneData ==
  ASSUME Data, HandlerDone
  PROVE  Data'
<1>1. Types /\ Commanded /\ Lists(links, result, scripts) /\ pc = "handler"
  BY DEF Data, HandlerDone
<1>2. /\ top \in Script /\ Len(scripts) \in Nat \ {0}
      /\ top.cmd # 0
  BY <1>1, TopScript DEF Commanded, top
<1> DEFINE shown == CASE ~top.has_show -> top.shown
                      [] top.has_show /\ TC_RUNNING -> top.cmd
                      [] OTHER -> NULL
           record == [top EXCEPT !.cmd = 0, !.has_show = FALSE, !.shown = shown]
<1>3. shown \in 1 .. MaxCmds \cup {NULL}
  BY <1>1, <1>2 DEF Script, Types
<1>4. SetTop(record)
  BY DEF HandlerDone
<1> HIDE DEF shown
<1>5. record \in Script /\ record.judged = top.judged
  <2>1. 0 \in 0 .. MaxCmds
    BY ToolAssumption
  <2> QED BY <1>2, <1>3, <2>1 DEF Script
<1> HIDE DEF record
<1>6. /\ scripts' \in Seq(Script) /\ Len(scripts') = Len(scripts) /\ scripts' # <<>>
      /\ \A i \in 1 .. Len(scripts) :
            scripts'[i] = IF i = Len(scripts) THEN record ELSE scripts[i]
  BY <1>1, <1>4, <1>5, TopSet
<1>7. pc' \in {"receive", "line"}
  BY DEF HandlerDone
<1>8. Types'
  BY <1>1, <1>6, <1>7 DEF Types, HandlerDone, backend
<1>9. Commanded'
  BY <1>1, <1>6, <1>7 DEF Commanded
<1>10. Lists(links, result, scripts)'
  BY <1>1, <1>4, <1>5, ListsTopSet DEF HandlerDone
<1> QED BY <1>8, <1>9, <1>10 DEF Data

\* What the rest of the steps does to the queue and to what the backend owes.
LEMMA QueueData ==
  ASSUME Data,
         \/ TestcaseBegin \/ Grep \/ cli_out \/ AskBackend \/ set_ut_debug_flag \/ Receive
         \/ \E c \in asked : BackendOut(c)
         \/ \E c \in sending : BackendSend(c)
  PROVE  Data'
<1>1. Types /\ Commanded /\ Lists(links, result, scripts)
  BY DEF Data
<1>2. UNCHANGED <<scripts, list>>
  BY DEF TestcaseBegin, Grep, cli_out, AskBackend, set_ut_debug_flag, Receive,
         BackendOut, BackendSend
<1>3. /\ pc' = "handler" => pc = "handler"
      /\ pc' = pc \/ (pc = "receive" /\ pc' = "line")
  BY DEF TestcaseBegin, Grep, cli_out, AskBackend, set_ut_debug_flag, Receive,
         BackendOut, BackendSend
<1>4. Commanded'
  BY <1>1, <1>2, <1>3 DEF Commanded
<1>5. Lists(links, result, scripts)'
  BY <1>1, <1>2, ListsUnchanged
<1>6. pc = "handler" => top.cmd \in 1 .. MaxCmds
  <2> SUFFICES ASSUME pc = "handler" PROVE top.cmd \in 1 .. MaxCmds
    OBVIOUS
  <2>1. top \in Script /\ top.cmd # 0
    BY <1>1, TopScript DEF Commanded, top
  <2> QED BY <2>1, ToolAssumption DEF Script
<1>7. /\ queue' \in Seq(1 .. MaxCmds) /\ Len(queue') <= MAX_MESSAGES
      /\ asked' \subseteq 1 .. MaxCmds /\ sending' \subseteq 1 .. MaxCmds
      /\ ut_parser_recv_buff' \in 1 .. MaxCmds \cup {NULL}
  <2>1. CASE TestcaseBegin \/ Grep \/ set_ut_debug_flag
    BY <1>1, <2>1 DEF Types, TestcaseBegin, Grep, set_ut_debug_flag, backend
  <2>2. CASE cli_out
    BY <1>1, <1>6, <2>2 DEF Types, cli_out, mq_send, MAX_MESSAGES, backend
  <2>3. CASE AskBackend
    BY <1>1, <1>6, <2>3 DEF Types, AskBackend
  <2>4. CASE Receive
    <3>1. /\ queue \in Seq(1 .. MaxCmds) /\ Len(queue) <= MAX_MESSAGES
          /\ asked' \subseteq 1 .. MaxCmds /\ sending' \subseteq 1 .. MaxCmds
      BY <1>1, <2>4 DEF Types, Receive, backend
    <3>2. mq_timedreceive
      BY <2>4 DEF Receive
    <3>3. CASE queue = <<>>
      BY <3>1, <3>2, <3>3 DEF mq_timedreceive
    <3>4. CASE queue # <<>>
      <4>1. Head(queue) \in 1 .. MaxCmds /\ Tail(queue) \in Seq(1 .. MaxCmds)
            /\ Len(Tail(queue)) <= MAX_MESSAGES
        <5>1. Head(queue) \in 1 .. MaxCmds /\ Tail(queue) \in Seq(1 .. MaxCmds)
          BY <3>1, <3>4, HeadTailProperties
        <5>2. Len(Tail(queue)) = Len(queue) - 1 /\ Len(queue) \in Nat
          BY <3>1, <3>4
        <5> QED BY <3>1, <5>1, <5>2 DEF MAX_MESSAGES
      <4> QED BY <3>1, <3>2, <3>4, <4>1 DEF mq_timedreceive
    <3> QED BY <3>3, <3>4
  <2>5. CASE \E c \in asked : BackendOut(c)
    BY <1>1, <2>5 DEF Types, BackendOut
  <2>6. CASE \E c \in sending : BackendSend(c)
    BY <1>1, <2>6 DEF Types, BackendSend, mq_send, MAX_MESSAGES
  <2> QED BY <2>1, <2>2, <2>3, <2>4, <2>5, <2>6
<1>8. /\ TC_RUNNING' \in BOOLEAN /\ ut_parser_debug' \in BOOLEAN /\ spilt' \in BOOLEAN
      /\ cmds' \in 0 .. MaxCmds
  BY <1>1 DEF Types, TestcaseBegin, Grep, cli_out, AskBackend, set_ut_debug_flag,
         Receive, BackendOut, BackendSend
<1>9. Types'
  BY <1>1, <1>2, <1>3, <1>7, <1>8 DEF Types
<1> QED BY <1>4, <1>5, <1>9 DEF Data

\* The tool starts with empty lists.
LEMMA DataInit ==
  ASSUME Init
  PROVE  Data
<1>1. scripts = <<>> /\ Len(scripts) = 0 /\ queue = <<>> /\ Len(queue) = 0
  BY DEF Init
<1>2. Types
  <2>1. <<>> \in Seq(Script) /\ <<>> \in Seq(1 .. MaxCmds)
    BY EmptyInSeq
  <2>2. Len(Heads) \in Nat /\ 0 \in 0 .. MaxCmds
    BY ToolAssumption
  <2>3. scripts \in Seq(Script) /\ Len(scripts) <= Len(Heads)
    BY <1>1, <2>1, <2>2
  <2>4. queue \in Seq(1 .. MaxCmds) /\ Len(queue) <= MAX_MESSAGES
    BY <1>1, <2>1 DEF MAX_MESSAGES
  <2>5. /\ pc = "idle" /\ TC_RUNNING = FALSE /\ cmds = 0 /\ spilt = FALSE
        /\ ut_parser_recv_buff = NULL /\ ut_parser_debug = FALSE
        /\ asked = {} /\ sending = {}
    BY DEF Init
  <2> QED BY <1>1, <2>2, <2>3, <2>4, <2>5 DEF Types
<1>3. Commanded
  BY <1>1 DEF Commanded
<1>4. Lists(links, result, scripts)
  <2>1. links \in Links /\ result \in [Node -> Result \cup {NULL}]
    BY DEF Init, Links, NoLinks
  <2>2. Apart(links, Len(scripts))
    BY <1>1 DEF Apart
  <2> QED BY <1>1, <2>1, <2>2 DEF Lists
<1> QED BY <1>2, <1>3, <1>4 DEF Data

\* Every step keeps the lists and the types.
LEMMA DataStep ==
  ASSUME Data, [Next]_vars
  PROVE  Data'
<1>1. CASE run_test_case
  BY <1>1, RunData
<1>2. CASE TestcaseEnd
  BY <1>2, EndData
<1>3. CASE Step
  BY <1>3, StepData
<1>4. CASE Cmd
  BY <1>4, CmdData
<1>5. CASE Pattern
  BY <1>5, PatternData
<1>6. CASE EndOfScript
  BY <1>6, EndOfScriptData
<1>7. CASE AssertFails
  BY <1>7, AssertData
<1>8. CASE HandlerDone
  BY <1>8, DoneData
<1>9. CASE \/ TestcaseBegin \/ Grep \/ cli_out \/ AskBackend \/ set_ut_debug_flag \/ Receive
           \/ \E c \in asked : BackendOut(c)
           \/ \E c \in sending : BackendSend(c)
  BY <1>9, QueueData
<1>10. CASE UNCHANGED vars
  <2>1. UNCHANGED <<pc, scripts, TC_RUNNING, cmds, spilt, list, queue,
                    ut_parser_recv_buff, ut_parser_debug, asked, sending>>
    BY <1>10 DEF vars, backend
  <2>2. Types'
    BY <2>1 DEF Data, Types
  <2>3. Commanded'
    BY <2>1 DEF Data, Commanded
  <2>4. Lists(links, result, scripts)'
    BY <2>1, ListsUnchanged DEF Data
  <2> QED BY <2>2, <2>3, <2>4 DEF Data
<1> QED BY <1>1, <1>2, <1>3, <1>4, <1>5, <1>6, <1>7, <1>8, <1>9, <1>10 DEF Next

-----------------------------------------------------------------------------
(* Every step keeps the answers to their commands.                         *)

\* What one message more or less makes of the messages in a queue.
LEMMA QueueItems ==
  ASSUME NEW S, NEW q \in Seq(S)
  PROVE  /\ \A c \in S : ToSet(Append(q, c)) = ToSet(q) \cup {c}
         /\ q # <<>> => Head(q) \in ToSet(q) /\ ToSet(Tail(q)) \subseteq ToSet(q)
         /\ ToSet(q) = {} <=> q = <<>>
<1>1. ASSUME NEW c \in S PROVE ToSet(Append(q, c)) = ToSet(q) \cup {c}
  <2> DEFINE p == Append(q, c)
  <2>1. /\ p \in Seq(S) /\ Len(p) = Len(q) + 1 /\ Len(q) \in Nat
        /\ p[Len(q) + 1] = c /\ \A k \in 1 .. Len(q) : p[k] = q[k]
    OBVIOUS
  <2> HIDE DEF p
  <2>2. ASSUME NEW m PROVE m \in ToSet(p) <=> m \in ToSet(q) \cup {c}
    <3>1. m \in ToSet(p) <=> \E k \in 1 .. Len(p) : p[k] = m
      BY <2>1, Places
    <3>2. m \in ToSet(q) <=> \E k \in 1 .. Len(q) : q[k] = m
      BY Places
    <3> QED BY <2>1, <3>1, <3>2
  <2>3. ToSet(p) = ToSet(q) \cup {c}
    BY <2>2
  <2> QED BY <2>3 DEF p
<1>2. ASSUME q # <<>> PROVE Head(q) \in ToSet(q) /\ ToSet(Tail(q)) \subseteq ToSet(q)
  <2>1. Head(q) = q[1] /\ 1 \in 1 .. Len(q)
    BY <1>2
  <2>2. /\ Tail(q) \in Seq(S) /\ Len(Tail(q)) = Len(q) - 1
        /\ \A i \in 1 .. Len(Tail(q)) : Tail(q)[i] = q[i + 1]
    BY <1>2, HeadTailProperties
  <2>3. ASSUME NEW m \in ToSet(Tail(q)) PROVE m \in ToSet(q)
    <3>1. PICK k \in 1 .. Len(Tail(q)) : Tail(q)[k] = m
      BY <2>2, Places
    <3>2. k + 1 \in 1 .. Len(q) /\ q[k + 1] = m
      BY <2>2, <3>1
    <3> QED BY <3>2, Places
  <2> QED BY <2>1, <2>3, Places
<1>3. ToSet(q) = {} <=> q = <<>>
  <2>1. q = <<>> => ToSet(q) = {}
    BY DEF ToSet
  <2>2. q # <<>> => ToSet(q) # {}
    BY <1>2
  <2> QED BY <2>1, <2>2
<1> QED BY <1>1, <1>2, <1>3

\* Every step keeps the answers apart.
LEMMA AnswersStep ==
  ASSUME Data, Answers, [Next]_vars
  PROVE  Answers'
<1>1. Types
  BY DEF Data
<1>2. queue \in Seq(1 .. MaxCmds)
  BY <1>1 DEF Types
<1>3. ASSUME top'.shown = NULL, pc' \in {"line", "handler"},
             pc' = "handler" => TC_RUNNING' = FALSE
      PROVE  Answers'
  BY <1>3 DEF Answers
<1>4. CASE run_test_case
  <2>1. PICK record : record.shown = NULL /\ scripts' = Append(scripts, record)
    BY <1>4 DEF run_test_case
  <2>2. scripts' [Len(scripts')] = record
    <3>1. scripts \in Seq(Script)
      BY <1>1 DEF Types
    <3> QED BY <2>1, <3>1
  <2>3. pc' = "line"
    BY <1>4 DEF run_test_case
  <2> QED BY <1>3, <2>1, <2>2, <2>3 DEF top
<1>5. ASSUME pc = "line", Finish PROVE Answers'
  <2>1. Leave /\ TC_RUNNING' = FALSE
    BY <1>5 DEF Finish
  <2>2. CASE pc' = "idle"
    BY <2>2 DEF Answers
  <2>3. CASE pc' = "handler" /\ top'.shown = NULL
    BY <1>3, <2>1, <2>3
  <2> QED BY <1>1, <1>5, <2>1, <2>2, <2>3, Left
<1>6. ASSUME pc = "line", NEW record \in Script, record.shown = top.shown, SetTop(record),
             pc' = "line", UNCHANGED <<spilt, ut_parser_recv_buff>>
      PROVE  Answers'
  <2>1. top' = record
    BY <1>1, <1>6, TopSet
  <2> QED BY <1>6, <2>1 DEF Answers
<1>7. pc = "line" => top \in Script
  BY <1>1, TopScript
<1>8. CASE TestcaseEnd
  <2>1. CASE ~top.all /\ TC_RUNNING
    BY <1>5, <1>8, <2>1 DEF TestcaseEnd
  <2>2. CASE ~(~top.all /\ TC_RUNNING)
    <3> DEFINE record == [top EXCEPT !.judged = <<>>]
    <3>1. <<>> \in Seq(Result)
      BY EmptyInSeq
    <3>2. record \in Script /\ record.shown = top.shown
      BY <1>7, <1>8, <3>1 DEF Script, TestcaseEnd
    <3>3. SetTop(record) /\ pc = "line" /\ pc' = "line" /\ UNCHANGED <<spilt, ut_parser_recv_buff>>
      BY <1>8, <2>2 DEF TestcaseEnd
    <3> HIDE DEF record
    <3> QED BY <1>6, <3>2, <3>3
  <2> QED BY <2>1, <2>2
<1>9. CASE Step
  <2>1. PICK step \in StepNo : SetTop([top EXCEPT !.current_step_no = step])
    BY <1>9 DEF Step
  <2> DEFINE record == [top EXCEPT !.current_step_no = step]
  <2>2. record \in Script /\ record.shown = top.shown
    BY <1>7, <1>9 DEF Script, Step
  <2>3. SetTop(record) /\ pc = "line" /\ pc' = "line" /\ UNCHANGED <<spilt, ut_parser_recv_buff>>
    BY <1>9, <2>1 DEF Step
  <2> HIDE DEF record
  <2> QED BY <1>6, <2>2, <2>3
<1>10. CASE Pattern
  <2>1. PICK v \in Result : SetTop([top EXCEPT !.judged = Append(@, v)])
    <3>1. PICK match \in Match : tc_append_result(match)
      BY <1>10 DEF Pattern
    <3>2. PICK found \in BOOLEAN :
            LET r == [step |-> top.current_step_no, pass |-> (found = match), match |-> match]
            IN  SetTop([top EXCEPT !.judged = Append(@, r)])
      BY <3>1 DEF tc_append_result
    <3>3. [step |-> top.current_step_no, pass |-> (found = match), match |-> match] \in Result
      BY <1>7, <1>10 DEF Script, Result, Pattern
    <3> QED BY <3>2, <3>3
  <2> DEFINE record == [top EXCEPT !.judged = Append(top.judged, v)]
  <2>2. record \in Script /\ record.shown = top.shown
    <3>1. top \in Script
      BY <1>7, <1>10 DEF Pattern
    <3>2. Append(top.judged, v) \in Seq(Result)
      BY <3>1 DEF Script
    <3> QED BY <3>1, <3>2 DEF Script
  <2>3. SetTop(record) /\ pc = "line" /\ pc' = "line" /\ UNCHANGED <<spilt, ut_parser_recv_buff>>
    BY <1>10, <2>1 DEF Pattern
  <2> HIDE DEF record
  <2> QED BY <1>6, <2>2, <2>3
<1>11. CASE EndOfScript
  BY <1>5, <1>11 DEF EndOfScript
<1>12. CASE AssertFails
  BY <1>12 DEF AssertFails, Answers
<1>13. CASE Cmd
  <2>1. PICK has_show \in BOOLEAN :
          SetTop([top EXCEPT !.cmd = cmds + 1, !.has_show = has_show])
    BY <1>13 DEF Cmd
  <2> DEFINE record == [top EXCEPT !.cmd = cmds + 1, !.has_show = has_show]
  <2>2. record \in Script /\ record.shown = top.shown
    <3>1. top \in Script /\ cmds + 1 \in 0 .. MaxCmds
      BY <1>1, <1>7, <1>13, ToolAssumption DEF Cmd, Types
    <3> QED BY <3>1 DEF Script
  <2>3. SetTop(record) /\ pc = "line"
    BY <1>13, <2>1 DEF Cmd
  <2> HIDE DEF record
  <2>4. top'.shown = top.shown
    BY <1>1, <2>2, <2>3, TopSet
  <2>5. ~spilt' => ~spilt /\ outstanding' = {}
    BY <1>2, <1>13, QueueItems DEF Cmd, outstanding, backend
  <2>6. pc' = "handler" /\ ut_parser_recv_buff' = ut_parser_recv_buff
    BY <1>13 DEF Cmd
  <2> QED BY <2>3, <2>4, <2>5, <2>6 DEF Answers
<1>14. CASE HandlerDone
  <2> DEFINE shown == CASE ~top.has_show -> top.shown
                        [] top.has_show /\ TC_RUNNING -> top.cmd
                        [] OTHER -> NULL
             record == [top EXCEPT !.cmd = 0, !.has_show = FALSE, !.shown = shown]
  <2>1. top \in Script /\ top.cmd # 0 /\ pc = "handler"
    <3>1. Len(scripts) \in Nat \ {0} /\ top \in Script
      BY <1>1, <1>14, TopScript DEF HandlerDone
    <3> QED BY <1>14, <3>1 DEF HandlerDone, Data, Commanded, top
  <2>2. SetTop(record)
    BY <1>14 DEF HandlerDone
  <2>3. shown \in 1 .. MaxCmds \cup {NULL}
    BY <1>1, <2>1 DEF Script, Types
  <2>4. /\ top.has_show /\ TC_RUNNING => shown = top.cmd
        /\ ~top.has_show => shown = top.shown
        /\ top.has_show /\ ~TC_RUNNING => shown = NULL
    OBVIOUS
  <2> HIDE DEF shown
  <2>5. record \in Script /\ record.shown = shown
    <3>1. 0 \in 0 .. MaxCmds
      BY ToolAssumption
    <3> QED BY <2>1, <2>3, <3>1 DEF Script
  <2> HIDE DEF record
  <2>6. top'.shown = shown
    BY <1>1, <2>1, <2>2, <2>5, TopSet
  <2>7. /\ pc' = IF top.has_show /\ TC_RUNNING THEN "receive" ELSE "line"
        /\ UNCHANGED <<spilt, ut_parser_recv_buff, outstanding>>
    BY <1>14 DEF HandlerDone, outstanding, backend
  <2> QED BY <2>1, <2>4, <2>6, <2>7 DEF Answers
<1>15. ASSUME UNCHANGED scripts PROVE top' = top
  BY <1>15 DEF top
<1>16. CASE TestcaseBegin \/ Grep
  <2>1. /\ UNCHANGED <<scripts, spilt>> /\ pc = "line" /\ pc' = "line"
        /\ ut_parser_recv_buff' \in {ut_parser_recv_buff, NULL}
    BY <1>16 DEF TestcaseBegin, Grep
  <2> QED BY <1>15, <2>1 DEF Answers
<1>17. ASSUME UNCHANGED <<pc, scripts, spilt, TC_RUNNING, ut_parser_recv_buff>>,
              outstanding' \subseteq outstanding \/ (pc = "handler" /\ outstanding' \subseteq outstanding \cup {top.cmd})
       PROVE  Answers'
  <2>1. top' = top
    BY <1>15, <1>17
  <2> QED BY <1>17, <2>1 DEF Answers
<1>18. CASE cli_out
  <2>1. top.cmd \in 1 .. MaxCmds
    <3>1. Len(scripts) \in Nat \ {0} /\ top \in Script
      BY <1>1, <1>18, TopScript DEF cli_out
    <3>2. top.cmd # 0
      BY <1>18, <3>1 DEF cli_out, Data, Commanded, top
    <3> QED BY <3>1, <3>2, ToolAssumption DEF Script
  <2>2. queue' = Append(queue, top.cmd) /\ pc = "handler" /\ asked' = asked /\ sending' = sending
    BY <1>18 DEF cli_out, mq_send, backend
  <2>3. outstanding' \subseteq outstanding \cup {top.cmd}
    <3>1. PICK S : queue \in Seq(S) /\ top.cmd \in S
      BY <1>2, <2>1, <2>2
    <3>2. ToSet(queue') = ToSet(queue) \cup {top.cmd}
      BY <2>1, <2>2, <3>1, QueueItems
    <3> QED BY <2>2, <3>2 DEF outstanding
  <2> QED BY <1>17, <1>18, <2>2, <2>3 DEF cli_out
<1>19. CASE AskBackend
  <2>1. outstanding' \subseteq outstanding \cup {top.cmd} /\ pc = "handler"
    BY <1>19 DEF AskBackend, outstanding
  <2> QED BY <1>17, <1>19, <2>1 DEF AskBackend
<1>20. CASE set_ut_debug_flag
  <2>1. outstanding' = outstanding
    BY <1>20 DEF set_ut_debug_flag, outstanding, backend
  <2> QED BY <1>17, <1>20, <2>1 DEF set_ut_debug_flag
<1>21. CASE Receive
  <2>1. UNCHANGED <<scripts, spilt>> /\ pc = "receive" /\ pc' = "line" /\ mq_timedreceive
    BY <1>21 DEF Receive
  <2>2. ut_parser_recv_buff' = NULL \/ ut_parser_recv_buff' \in outstanding
    BY <1>2, <2>1, QueueItems DEF mq_timedreceive, outstanding
  <2> QED BY <1>15, <2>1, <2>2 DEF Answers
<1>22. CASE \E c \in asked : BackendOut(c)
  <2>1. outstanding' \subseteq outstanding
    BY <1>22 DEF BackendOut, outstanding
  <2> QED BY <1>17, <1>22, <2>1 DEF BackendOut
<1>23. CASE \E c \in sending : BackendSend(c)
  <2>1. PICK c \in sending : queue' = Append(queue, c) /\ sending' = sending \ {c} /\ asked' = asked
    BY <1>23 DEF BackendSend, mq_send
  <2>2. c \in 1 .. MaxCmds
    BY <1>1 DEF Types
  <2>3. outstanding' \subseteq outstanding
    <3>1. PICK S : queue \in Seq(S) /\ c \in S
      BY <1>2, <2>1, <2>2
    <3>2. ToSet(queue') = ToSet(queue) \cup {c}
      BY <2>1, <2>2, <3>1, QueueItems
    <3> QED BY <2>1, <3>2 DEF outstanding
  <2> QED BY <1>17, <1>23, <2>3 DEF BackendSend
<1>24. CASE UNCHANGED vars
  <2>1. outstanding' = outstanding
    BY <1>24 DEF vars, outstanding, backend
  <2> QED BY <1>17, <1>24, <2>1 DEF vars
<1> QED BY <1>4, <1>8, <1>9, <1>10, <1>11, <1>12, <1>13, <1>14, <1>16, <1>18, <1>19,
           <1>20, <1>21, <1>22, <1>23, <1>24 DEF Next

-----------------------------------------------------------------------------
(* The theorems.                                                           *)

\* No step leaves the tool idle with TC_RUNNING set: the end of a script and
\* a failed assertion clear it, and only a line of a script sets it.
LEMMA ConsoleStep ==
  ASSUME Types, ConsolePrints, [Next]_vars
  PROVE  ConsolePrints'
<1>1. ASSUME Finish PROVE ConsolePrints'
  BY <1>1 DEF Finish, ConsolePrints
<1>2. CASE TestcaseEnd
  BY <1>1, <1>2 DEF TestcaseEnd, ConsolePrints
<1>3. CASE EndOfScript
  BY <1>1, <1>3 DEF EndOfScript
<1>4. CASE AssertFails
  BY <1>4 DEF AssertFails, ConsolePrints
<1>5. CASE run_test_case \/ TestcaseBegin \/ Step \/ Cmd \/ Pattern \/ Grep \/ cli_out
           \/ AskBackend \/ set_ut_debug_flag \/ HandlerDone \/ Receive
  <2>1. pc' # "idle"
    BY <1>5 DEF run_test_case, TestcaseBegin, Step, Cmd, Pattern, Grep, cli_out,
         AskBackend, set_ut_debug_flag, HandlerDone, Receive
  <2> QED BY <2>1 DEF ConsolePrints
<1>6. CASE (\E c \in asked : BackendOut(c)) \/ (\E c \in sending : BackendSend(c))
           \/ UNCHANGED vars
  <2>1. pc' = pc /\ TC_RUNNING' = TC_RUNNING
    BY <1>6 DEF BackendOut, BackendSend, vars
  <2> QED BY <2>1 DEF ConsolePrints
<1> QED BY <1>2, <1>3, <1>4, <1>5, <1>6 DEF Next

\* The invariant holds.
THEOREM Invariant == Spec => []IInv
<1>1. Init => IInv
  <2> SUFFICES ASSUME Init PROVE IInv
    OBVIOUS
  <2>1. Data
    BY DataInit
  <2>2. pc = "idle" /\ TC_RUNNING = FALSE
    BY DEF Init
  <2> QED BY <2>1, <2>2 DEF IInv, Data, Answers, ConsolePrints
<1>2. IInv /\ [Next]_vars => IInv'
  <2> SUFFICES ASSUME IInv, [Next]_vars PROVE IInv'
    OBVIOUS
  <2>1. Data /\ Answers /\ Types /\ ConsolePrints
    BY DEF IInv, Data
  <2>2. Data'
    BY <2>1, DataStep
  <2>3. Answers'
    BY <2>1, AnswersStep
  <2>4. ConsolePrints'
    BY <2>1, ConsoleStep
  <2> QED BY <2>2, <2>3, <2>4 DEF IInv, Data
<1> QED BY <1>1, <1>2, PTL DEF Spec

\* Whatever the scripts are and wherever each ends, every variable has its
\* type, and what the lists of results hold is allocated.
THEOREM TypesHold == Spec => []TypeOK
<1>1. IInv => TypeOK
  <2> SUFFICES ASSUME IInv PROVE TypeOK
    OBVIOUS
  <2>1. \A i \in DOMAIN scripts : \A n \in ToSet(results(i)) : result[n] # NULL
    <3>1. \A i \in 1 .. Len(scripts) : OneList(links, result, i, scripts[i].judged)
      BY DEF IInv, Lists
    <3>2. DOMAIN scripts = 1 .. Len(scripts)
      BY DEF IInv, Types
    <3> QED BY <3>1, <3>2, ListNodes DEF results
  <2>2. asked \cup sending \subseteq 1 .. MaxCmds
    BY DEF IInv, Types
  <2>3. {TC_RUNNING, ut_parser_debug, spilt} \subseteq BOOLEAN
    BY DEF IInv, Types
  <2>4. links \in Links /\ result \in [Node -> Result \cup {NULL}]
    BY DEF IInv, Lists
  <2> QED BY <2>1, <2>2, <2>3, <2>4 DEF IInv, Types, TypeOK
<1> QED BY <1>1, Invariant, PTL

\* The list that is printed at the end of a test case holds its verdicts, each
\* once and in order, and can be walked back, for every number of scripts that
\* run scripts and of nodes that are used again.
THEOREM ListHoldsCase == Spec => []ResultsOfCase
<1>1. IInv => ResultsOfCase
  <2> SUFFICES ASSUME IInv, NEW i \in DOMAIN scripts
               PROVE  /\ [k \in DOMAIN results(i) |-> result[results(i)[k]]] = scripts[i].judged
                      /\ \A k \in DOMAIN results(i) :
                            links.left[results(i)[k]] =
                              IF k = 1 THEN Heads[i] ELSE results(i)[k - 1]
    BY DEF ResultsOfCase
  <2>1. i \in 1 .. Len(scripts)
    BY DEF IInv, Types
  <2>2. OneList(links, result, i, scripts[i].judged)
    BY <2>1 DEF IInv, Lists
  <2> DEFINE s == Elements(links, Heads[i])
  <2>3. /\ IsList(links, Heads[i], s)
        /\ [k \in DOMAIN s |-> result[s[k]]] = scripts[i].judged
    BY <2>2 DEF OneList
  <2> HIDE DEF s
  <2>4. \A k \in DOMAIN s : links.left[s[k]] = IF k = 1 THEN Heads[i] ELSE s[k - 1]
    BY <2>3 DEF IsList, At
  <2>5. results(i) = s
    BY DEF results, s
  <2> QED BY <2>3, <2>4, <2>5
<1> QED BY <1>1, Invariant, PTL

\* Unless a command began with answers outstanding, what is judged after a
\* "show" is its own answer or nothing, for every number of commands and of
\* answers that the backend owes.
THEOREM AnswerIsOwn == Spec => []OwnAnswer
<1>1. IInv => OwnAnswer
  BY DEF IInv, Answers, OwnAnswer
<1> QED BY <1>1, Invariant, PTL

\* After the last script the console prints again, however the scripts ended.
THEOREM ConsoleIsFree == Spec => []ConsolePrints
<1>1. IInv => ConsolePrints
  BY DEF IInv
<1> QED BY <1>1, Invariant, PTL
==============================================================================
