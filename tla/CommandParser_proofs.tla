------------------------- MODULE CommandParser_proofs -------------------------
(***************************************************************************)
(* The safety properties of the command line, for every tree of commands,  *)
(* every initial size of the buffer and every depth of calls: the types,   *)
(* what the buffer holds at the prompt, what a handler is given and what   *)
(* the prompt shows.                                                       *)
(*                                                                         *)
(* First the operators.  path and LeavesTo are defined by recursion along  *)
(* parent, twice by recursion on a number; TreeRecursion shows that such   *)
(* functions exist, from no more than that every set of parameters has a   *)
(* member whose parent is not in the set.  Then the buffer, the calls      *)
(* under way, the invariant IInv, its steps in the order of the model, and *)
(* the theorems.                                                           *)
(***************************************************************************)
EXTENDS CommandParser, SequenceLemmas

-----------------------------------------------------------------------------
(* Recursion along a parent function.                                      *)

\* up leads from every element of P outside R to one of P, and no set of
\* elements is closed under it.
Grounded(P, R, up) ==
    /\ \A p \in P \ R : up[p] \in P
    /\ \A T \in SUBSET P : T # {} => \E p \in T : p \in R \/ up[p] \notin T

\* What holds at the elements of R and comes down along up holds everywhere.
LEMMA TreeInduction ==
  ASSUME NEW P, NEW R, NEW up, Grounded(P, R, up), NEW T,
         \A p \in P \cap R : p \in T,
         \A p \in P \ R : up[p] \in T => p \in T
  PROVE  \A p \in P : p \in T
<1> SUFFICES ASSUME P \ T # {}
             PROVE  FALSE
  OBVIOUS
<1>1. P \ T \in SUBSET P
  OBVIOUS
<1>2. PICK p \in P \ T : p \in R \/ up[p] \notin P \ T
  BY <1>1 DEF Grounded
<1>3. p \notin R
  OBVIOUS
<1>4. up[p] \in T
  BY <1>2, <1>3 DEF Grounded
<1> QED BY <1>3, <1>4

\* G relates the elements of R to base, and p to what step makes of what it
\* relates the parent of p to.
Closed(G, P, R, up, base, step) ==
    /\ \A p \in P \cap R : <<p, base>> \in G
    /\ \A p \in P \ R : \A v : <<up[p], v>> \in G => <<p, step[p][v]>> \in G

\* f is what recursion along up makes of base and step.
Recursive(f, P, R, up, base, step) ==
    f = [p \in P |-> IF p \in R THEN base ELSE step[p][f[up[p]]]]

\* A function may be defined by recursion along up.
LEMMA TreeRecursion ==
  ASSUME NEW P, NEW R, NEW up, Grounded(P, R, up),
         NEW S, NEW base \in S, NEW step \in [P -> [S -> S]]
  PROVE  \E f \in [P -> S] : Recursive(f, P, R, up, base, step)
<1> DEFINE Is(G) == Closed(G, P, R, up, base, step)
           M == {x \in P \X S : \A G \in SUBSET (P \X S) : Is(G) => x \in G}
<1>1. Is(P \X S)
  BY DEF Grounded, Closed
<1>2. Is(M)
  <2>1. ASSUME NEW p \in P \cap R
        PROVE  <<p, base>> \in M
    BY DEF Closed
  <2>2. ASSUME NEW p \in P \ R, NEW v, <<up[p], v>> \in M
        PROVE  <<p, step[p][v]>> \in M
    <3>1. v \in S /\ step[p][v] \in S
      BY <2>2
    <3>2. ASSUME NEW G \in SUBSET (P \X S), Is(G)
          PROVE  <<p, step[p][v]>> \in G
      <4>1. <<up[p], v>> \in G
        BY <2>2, <3>2
      <4> QED BY <3>2, <4>1 DEF Closed
    <3> QED BY <3>1, <3>2
  <2> QED BY <2>1, <2>2 DEF Closed
<1>3. \A G \in SUBSET (P \X S) : Is(G) => M \subseteq G
  OBVIOUS
<1>4. M \subseteq P \X S
  OBVIOUS
<1> DEFINE Only(p, v) == \A w : <<p, w>> \in M <=> w = v
           T == {p \in P : \E v \in S : Only(p, v)}
<1> HIDE DEF M
<1>5. ASSUME NEW p \in P, NEW v \in S, <<p, v>> \in M,
             \A G : G = M \ {x \in M : x[1] = p /\ x[2] # v} => Is(G)
      PROVE  Only(p, v)
  <2> DEFINE G == M \ {x \in M : x[1] = p /\ x[2] # v}
  <2>1. G \in SUBSET (P \X S) /\ Is(G)
    BY <1>4, <1>5
  <2>2. M \subseteq G
    BY <2>1, <1>3
  <2>3. ASSUME NEW w, <<p, w>> \in M
        PROVE  w = v
    BY <2>2, <2>3
  <2> QED BY <1>5, <2>3
<1>6. ASSUME NEW p \in P \cap R
      PROVE  Only(p, base)
  <2> SUFFICES ASSUME NEW G, G = M \ {x \in M : x[1] = p /\ x[2] # base}
               PROVE  Is(G)
    <3>1. <<p, base>> \in M
      BY <1>2 DEF Closed
    <3> QED BY <1>5, <3>1
  <2> QED BY <1>2 DEF Closed
<1>7. ASSUME NEW p \in P \ R, NEW u \in S, Only(up[p], u)
      PROVE  Only(p, step[p][u])
  <2>1. <<up[p], u>> \in M
    BY <1>7
  <2>2. <<p, step[p][u]>> \in M
    BY <2>1, <1>2 DEF Closed
  <2>3. step[p][u] \in S
    OBVIOUS
  <2> SUFFICES ASSUME NEW G, G = M \ {x \in M : x[1] = p /\ x[2] # step[p][u]}
               PROVE  Is(G)
    BY <1>5, <2>2, <2>3
  <2>4. ASSUME NEW q \in P \cap R
        PROVE  <<q, base>> \in G
    BY <1>2 DEF Closed
  <2>5. ASSUME NEW q \in P \ R, NEW x, <<up[q], x>> \in G
        PROVE  <<q, step[q][x]>> \in G
    <3>1. <<up[q], x>> \in M
      BY <2>5
    <3>2. <<q, step[q][x]>> \in M
      BY <3>1, <1>2 DEF Closed
    <3>3. q = p => x = u
      BY <3>1, <1>7
    <3> QED BY <3>2, <3>3
  <2> QED BY <2>4, <2>5 DEF Closed
<1>8. \A p \in P : p \in T
  <2>1. \A p \in P \cap R : p \in T
    BY <1>6
  <2>2. \A p \in P \ R : up[p] \in T => p \in T
    <3> SUFFICES ASSUME NEW p \in P \ R, up[p] \in T
                 PROVE  p \in T
      OBVIOUS
    <3>1. PICK u \in S : Only(up[p], u)
      OBVIOUS
    <3>2. step[p][u] \in S
      OBVIOUS
    <3> QED BY <3>1, <3>2, <1>7
  <2> HIDE DEF T
  <2> QED BY <2>1, <2>2, TreeInduction
<1> DEFINE f == [p \in P |-> CHOOSE v \in S : Only(p, v)]
<1>9. ASSUME NEW p \in P
      PROVE  f[p] \in S /\ Only(p, f[p])
  BY <1>8
<1>10. f \in [P -> S]
  BY <1>9
<1> HIDE DEF f, Only
<1>11. ASSUME NEW p \in P
       PROVE  f[p] = IF p \in R THEN base ELSE step[p][f[up[p]]]
  <2>1. CASE p \in R
    BY <2>1, <1>6, <1>9 DEF Only
  <2>2. CASE p \notin R
    <3>1. up[p] \in P
      BY <2>2 DEF Grounded
    <3>2. f[up[p]] \in S /\ Only(up[p], f[up[p]])
      BY <3>1, <1>9
    <3>3. Only(p, step[p][f[up[p]]])
      BY <2>2, <3>2, <1>7
    <3> QED BY <2>2, <3>3, <1>9 DEF Only
  <2> QED BY <2>1, <2>2
<1> QED BY <1>10, <1>11 DEF Recursive

-----------------------------------------------------------------------------
(* The size of the buffer.                                                 *)

\* The natural numbers are grounded in 0: from every other one down to it.
LEMMA NatGrounded == Grounded(Nat, {0}, [n \in Nat |-> n - 1])
<1> DEFINE up == [n \in Nat |-> n - 1]
<1>1. \A n \in Nat \ {0} : up[n] \in Nat
  OBVIOUS
<1>2. ASSUME NEW T \in SUBSET Nat, T # {}
      PROVE  \E n \in T : n \in {0} \/ up[n] \notin T
  <2>1. PICK n \in T : \A m \in T : <<m, n>> \notin Less
    BY <1>2, WFMin, LessWellFounded
  <2>2. n # 0 => n - 1 \in Nat /\ <<n - 1, n>> \in Less
    BY DEF Less
  <2>3. n # 0 => n - 1 \notin T
    BY <2>1, <2>2
  <2>4. up[n] = n - 1
    OBVIOUS
  <2> QED BY <2>3, <2>4
<1> HIDE DEF up
<1>3. Grounded(Nat, {0}, up)
  BY <1>1, <1>2 DEF Grounded
<1> QED BY <1>3 DEF up

\* twice is what its definition says: a power of 2.
LEMMA TwiceDef ==
  /\ twice \in [Nat -> Nat]
  /\ \A k \in Nat : twice[k] = IF k = 0 THEN 1 ELSE 2 * twice[k - 1]
<1> DEFINE up == [n \in Nat |-> n - 1]
           step == [n \in Nat |-> [m \in Nat |-> 2 * m]]
           Is(f) == f = [k \in Nat |-> IF k = 0 THEN 1 ELSE 2 * f[k - 1]]
<1>1. PICK f \in [Nat -> Nat] : Recursive(f, Nat, {0}, up, 1, step)
  <2>1. step \in [Nat -> [Nat -> Nat]] /\ 1 \in Nat
    OBVIOUS
  <2>2. Grounded(Nat, {0}, up)
    BY NatGrounded
  <2> HIDE DEF step, up
  <2> QED BY <2>1, <2>2, TreeRecursion
<1>2. \A k \in Nat : f[k] = IF k = 0 THEN 1 ELSE 2 * f[k - 1]
  <2> TAKE k \in Nat
  <2>1. f[k] = IF k \in {0} THEN 1 ELSE step[k][f[up[k]]]
    BY <1>1 DEF Recursive
  <2>2. CASE k = 0
    BY <2>1, <2>2
  <2>3. CASE k # 0
    <3>1. k - 1 \in Nat /\ up[k] = k - 1
      BY <2>3
    <3>2. f[k - 1] \in Nat
      BY <3>1
    <3> QED BY <2>1, <2>3, <3>1, <3>2
  <2> QED BY <2>2, <2>3
<1>3. Is(f)
  BY <1>2
<1>4. Is(twice)
  BY <1>3, Zenon DEF twice
<1>5. \A k \in Nat : twice[k] = IF k = 0 THEN 1 ELSE 2 * twice[k - 1]
  BY <1>4
<1> DEFINE T == {k \in Nat : twice[k] \in Nat}
<1>6. 0 \in T
  BY <1>5
<1>7. \A n \in Nat : n \in T => n + 1 \in T
  <2> TAKE n \in Nat
  <2>1. twice[n + 1] = 2 * twice[n]
    <3>1. n + 1 \in Nat /\ n + 1 # 0 /\ (n + 1) - 1 = n
      OBVIOUS
    <3> QED BY <3>1, <1>5
  <2> QED BY <2>1
<1>8. \A n \in Nat : n \in T
  <2> HIDE DEF T
  <2> QED BY <1>6, <1>7, SetInduction
<1>9. twice = [k \in Nat |-> twice[k]]
  BY <1>4
<1> QED BY <1>5, <1>8, <1>9

\* Doubling a size that is not 0 often enough makes room for need.
LEMMA DoubledEnough ==
  ASSUME NEW size \in Nat \ {0}, NEW need \in Nat
  PROVE  Doubled(size, need) \in Nat \ {0} /\ Doubled(size, need) >= need
<1> DEFINE enough(k) == size * twice[k] >= need
           first(k) == enough(k) /\ (k > 0 => ~enough(k - 1))
           T == {k \in Nat : twice[k] > k}
<1>1. 0 \in T
  BY TwiceDef
<1>2. \A n \in Nat : n \in T => n + 1 \in T
  <2> TAKE n \in Nat
  <2>1. n + 1 \in Nat /\ n + 1 # 0 /\ (n + 1) - 1 = n
    OBVIOUS
  <2>2. twice[n + 1] = 2 * twice[n] /\ twice[n] \in Nat
    BY <2>1, TwiceDef
  <2> QED BY <2>2
<1>3. \A n \in Nat : n \in T
  <2> HIDE DEF T
  <2> QED BY <1>1, <1>2, SetInduction
<1>4. \A k \in Nat : twice[k] \in Nat /\ twice[k] > k
  BY <1>3, TwiceDef
<1>5. \A k \in Nat : size * twice[k] \in Nat /\ size * twice[k] > k
  <2> TAKE k \in Nat
  <2>1. PICK t \in Nat : t = twice[k] /\ t > k
    BY <1>4
  <2>2. size * t \in Nat /\ size * t >= t
    OBVIOUS
  <2> QED BY <2>1, <2>2
<1> DEFINE E == {k \in 0 .. need : enough(k)}
<1>6. need \in E /\ E \subseteq Nat
  BY <1>5
<1>7. PICK k \in E : \A m \in E : <<m, k>> \notin Less
  BY <1>6, WFMin, LessWellFounded
<1>8. k \in 0 .. need /\ first(k)
  <2>1. k \in 0 .. need /\ enough(k)
    BY <1>7
  <2>2. k > 0 => k - 1 \in 0 .. need /\ <<k - 1, k>> \in Less
    BY <2>1 DEF Less
  <2>3. k > 0 => k - 1 \notin E
    BY <1>7, <2>2
  <2> QED BY <2>1, <2>2, <2>3
<1> DEFINE c == CHOOSE i \in 0 .. need : first(i)
<1>9. c \in 0 .. need /\ first(c)
  <2> HIDE DEF first
  <2> QED BY <1>8
<1>10. Doubled(size, need) = size * twice[c]
  BY DEF Doubled
<1>11. c \in Nat /\ size * twice[c] >= need
  <2> HIDE DEF c
  <2> QED BY <1>9
<1> HIDE DEF c
<1>12. size * twice[c] \in Nat /\ size * twice[c] > c
  BY <1>11, <1>5
<1> QED BY <1>10, <1>11, <1>12

-----------------------------------------------------------------------------
(* The tree.                                                               *)

\* The two parameters without a parent.
Tops == {root, do_hook}

\* So is the tree: above every parameter lies root or do_hook.
LEMMA ParamGrounded == Grounded(Param, Tops, parent)
<1>1. \A p \in Param \ Tops : parent[p] \in Param
  BY TreeAssumption DEF Tops
<1>2. \A T \in SUBSET Param : T # {} => \E p \in T : p \in Tops \/ parent[p] \notin T
  BY WellFoundedAssumption
<1> QED BY <1>1, <1>2 DEF Grounded

\* path is what its definition says.
LEMMA PathDef ==
  /\ path \in [Param -> Seq(Param)]
  /\ \A p \in Param :
        path[p] = IF p \in Tops THEN <<>> ELSE Append(path[parent[p]], p)
<1> DEFINE step == [p \in Param |-> [s \in Seq(Param) |-> Append(s, p)]]
           Is(f) == f = [p \in Param |-> IF p \in Tops THEN <<>>
                                         ELSE Append(f[parent[p]], p)]
<1>1. PICK f \in [Param -> Seq(Param)] :
         Recursive(f, Param, Tops, parent, <<>>, step)
  <2>1. step \in [Param -> [Seq(Param) -> Seq(Param)]] /\ <<>> \in Seq(Param)
    OBVIOUS
  <2> HIDE DEF step
  <2> QED BY <2>1, ParamGrounded, TreeRecursion
<1>2. \A p \in Param :
         f[p] = IF p \in Tops THEN <<>> ELSE Append(f[parent[p]], p)
  <2> TAKE p \in Param
  <2>1. f[p] = IF p \in Tops THEN <<>> ELSE step[p][f[parent[p]]]
    BY <1>1 DEF Recursive
  <2>2. p \notin Tops => f[parent[p]] \in Seq(Param)
    BY ParamGrounded DEF Grounded
  <2> QED BY <2>1, <2>2
<1>3. Is(f)
  BY <1>2
<1>4. Is(path)
  BY <1>3, Zenon DEF path, Tops
<1>5. \A p \in Param :
         path[p] = IF p \in Tops THEN <<>> ELSE Append(path[parent[p]], p)
  BY <1>4
<1> DEFINE T == {p \in Param : path[p] \in Seq(Param)}
<1>6. \A p \in Param \cap Tops : p \in T
  <2> TAKE p \in Param \cap Tops
  <2>1. path[p] = <<>>
    BY <1>5
  <2> QED BY <2>1, EmptyInSeq
<1>7. \A p \in Param \ Tops : parent[p] \in T => p \in T
  <2> SUFFICES ASSUME NEW p \in Param \ Tops, parent[p] \in T
               PROVE  path[p] \in Seq(Param)
    OBVIOUS
  <2>1. PICK s \in Seq(Param) : s = path[parent[p]]
    OBVIOUS
  <2>2. path[p] = Append(s, p)
    BY <2>1, <1>5
  <2> QED BY <2>1, <2>2
<1>8. \A p \in Param : p \in T
  <2> HIDE DEF T
  <2> QED BY <1>6, <1>7, ParamGrounded, TreeInduction
<1>9. path = [p \in Param |-> path[p]]
  BY <1>4
<1> QED BY <1>5, <1>8, <1>9

\* So is LeavesTo.
LEMMA LeavesToDef ==
  /\ LeavesTo \in [Param -> Seq(Leaf)]
  /\ \A p \in Param :
        LeavesTo[p] = IF p \in Tops THEN <<>>
                      ELSE IF p \in Leaf THEN Append(LeavesTo[parent[p]], p)
                      ELSE LeavesTo[parent[p]]
<1> DEFINE step == [p \in Param |-> [s \in Seq(Leaf) |->
                       IF p \in Leaf THEN Append(s, p) ELSE s]]
           Is(f) == f = [p \in Param |->
                           IF p \in Tops THEN <<>>
                           ELSE IF p \in Leaf THEN Append(f[parent[p]], p)
                           ELSE f[parent[p]]]
<1>1. PICK f \in [Param -> Seq(Leaf)] :
         Recursive(f, Param, Tops, parent, <<>>, step)
  <2>1. step \in [Param -> [Seq(Leaf) -> Seq(Leaf)]] /\ <<>> \in Seq(Leaf)
    OBVIOUS
  <2> HIDE DEF step
  <2> QED BY <2>1, ParamGrounded, TreeRecursion
<1>2. \A p \in Param :
         f[p] = IF p \in Tops THEN <<>>
                ELSE IF p \in Leaf THEN Append(f[parent[p]], p) ELSE f[parent[p]]
  <2> TAKE p \in Param
  <2>1. f[p] = IF p \in Tops THEN <<>> ELSE step[p][f[parent[p]]]
    BY <1>1 DEF Recursive
  <2>2. p \notin Tops => f[parent[p]] \in Seq(Leaf)
    BY ParamGrounded DEF Grounded
  <2> QED BY <2>1, <2>2
<1>3. Is(f)
  BY <1>2
<1>4. Is(LeavesTo)
  BY <1>3, Zenon DEF LeavesTo, Tops
<1>5. \A p \in Param :
         LeavesTo[p] = IF p \in Tops THEN <<>>
                       ELSE IF p \in Leaf THEN Append(LeavesTo[parent[p]], p)
                       ELSE LeavesTo[parent[p]]
  BY <1>4
<1> DEFINE T == {p \in Param : LeavesTo[p] \in Seq(Leaf)}
<1>6. \A p \in Param \cap Tops : p \in T
  <2> TAKE p \in Param \cap Tops
  <2>1. LeavesTo[p] = <<>>
    BY <1>5
  <2> QED BY <2>1, EmptyInSeq
<1>7. \A p \in Param \ Tops : parent[p] \in T => p \in T
  <2> SUFFICES ASSUME NEW p \in Param \ Tops, parent[p] \in T
               PROVE  LeavesTo[p] \in Seq(Leaf)
    OBVIOUS
  <2>1. PICK s \in Seq(Leaf) : s = LeavesTo[parent[p]]
    OBVIOUS
  <2>2. LeavesTo[p] = IF p \in Leaf THEN Append(s, p) ELSE s
    BY <2>1, <1>5
  <2> QED BY <2>1, <2>2
<1>8. \A p \in Param : p \in T
  <2> HIDE DEF T
  <2> QED BY <1>6, <1>7, ParamGrounded, TreeInduction
<1>9. LeavesTo = [p \in Param |-> LeavesTo[p]]
  BY <1>4
<1> QED BY <1>5, <1>8, <1>9

\* The way to a parameter is the way to its parent and one step more.
LEMMA PathBelow ==
  ASSUME NEW p \in Param \ Tops
  PROVE  /\ parent[p] \in Param /\ path[p] \in Seq(Param)
         /\ path[parent[p]] \in Seq(Param)
         /\ Len(path[p]) = Len(path[parent[p]]) + 1
         /\ path[p][Len(path[p])] = p
         /\ \A i \in 1 .. Len(path[parent[p]]) : path[p][i] = path[parent[p]][i]
<1>1. parent[p] \in Param
  BY ParamGrounded DEF Grounded
<1>2. PICK s \in Seq(Param) : s = path[parent[p]] /\ path[p] = Append(s, p)
  BY <1>1, PathDef
<1> QED BY <1>1, <1>2

\* q lies on the way to p.
OnPath(q, p) == \E i \in 1 .. Len(path[p]) : path[p][i] = q

\* What lies on the way to p lies higher than p, or is p.
LEMMA PathHigher ==
  ASSUME NEW p \in Param, NEW q, OnPath(q, p)
  PROVE  /\ q \in Param \ Tops
         /\ Len(path[q]) \in Nat /\ Len(path[p]) \in Nat
         /\ Len(path[q]) <= Len(path[p])
         /\ Len(path[q]) = Len(path[p]) => q = p
         /\ Head(path[q]) = Head(path[p])
<1> DEFINE Higher(x, y) ==
             /\ x \in Param \ Tops
             /\ Len(path[x]) \in Nat /\ Len(path[y]) \in Nat
             /\ Len(path[x]) <= Len(path[y])
             /\ Len(path[x]) = Len(path[y]) => x = y
             /\ path[x][1] = path[y][1]
           T == {y \in Param : \A x \in Param : OnPath(x, y) => Higher(x, y)}
<1>1. \A y \in Param \cap Tops : y \in T
  BY PathDef DEF OnPath
<1>2. ASSUME NEW y \in Param \ Tops, parent[y] \in T
      PROVE  y \in T
  <2> SUFFICES ASSUME NEW x \in Param, OnPath(x, y)
               PROVE  Higher(x, y)
    OBVIOUS
  <2>1. PICK i \in 1 .. Len(path[y]) : path[y][i] = x
    BY DEF OnPath
  <2>2. PICK n \in Nat : n = Len(path[parent[y]]) /\ Len(path[y]) = n + 1
    BY PathBelow
  <2>3. CASE i = n + 1
    <3>1. x = y
      BY <2>1, <2>2, <2>3, PathBelow
    <3> QED BY <3>1, <2>2
  <2>4. CASE i # n + 1
    <3>1. i \in 1 .. n
      BY <2>2, <2>4
    <3>2. path[parent[y]][i] = x
      BY <3>1, <2>1, <2>2, PathBelow
    <3>3. OnPath(x, parent[y])
      BY <3>1, <3>2, <2>2 DEF OnPath
    <3>4. Higher(x, parent[y])
      BY <3>3, <1>2
    <3>5. 1 \in 1 .. n
      BY <3>1
    <3>6. path[y][1] = path[parent[y]][1]
      BY <3>5, <2>2, PathBelow
    <3> QED BY <3>4, <3>6, <2>2
  <2> QED BY <2>3, <2>4
<1>3. p \in T
  <2> HIDE DEF T
  <2> QED BY <1>1, <1>2, ParamGrounded, TreeInduction
<1>4. q \in Param
  BY PathDef DEF OnPath
<1>5. Higher(q, p)
  BY <1>3, <1>4
<1>6. path[q] # <<>> /\ path[p] # <<>>
  <2>1. q \in Param \ Tops /\ Len(path[q]) # 0
    BY <1>5, PathBelow
  <2>2. Len(path[p]) # 0
    BY <1>5, <2>1
  <2> QED BY <2>1, <2>2
<1>7. Head(path[q]) = path[q][1] /\ Head(path[p]) = path[p][1]
  BY <1>4, <1>6, PathDef
<1> QED BY <1>5, <1>7

\* A parameter is not on the way to its parent.
LEMMA NotAbove ==
  ASSUME NEW p \in Param \ Tops
  PROVE  ~OnPath(p, parent[p])
<1> SUFFICES ASSUME OnPath(p, parent[p])
             PROVE  FALSE
  OBVIOUS
<1>1. parent[p] \in Param
  BY PathBelow
<1>2. Len(path[p]) <= Len(path[parent[p]]) /\ Len(path[parent[p]]) \in Nat
  BY <1>1, PathHigher
<1> QED BY <1>2, PathBelow

\* The branch of a parameter is that of its parent, or itself below the root.
LEMMA PathHead ==
  ASSUME NEW p \in Param \ Tops
  PROVE  Head(path[p]) = IF parent[p] \in Tops THEN p ELSE Head(path[parent[p]])
<1>1. path[p] # <<>> /\ Head(path[p]) = path[p][1]
  BY PathBelow
<1>2. CASE parent[p] \in Tops
  <2>1. path[parent[p]] = <<>> /\ parent[p] \in Param
    BY <1>2, PathDef, PathBelow
  <2>2. Len(path[p]) = 1
    <3>1. Len(path[parent[p]]) = 0
      BY <2>1
    <3>2. Len(path[p]) = Len(path[parent[p]]) + 1
      BY PathBelow
    <3> QED BY <3>1, <3>2
  <2> QED BY <1>1, <1>2, <2>2, PathBelow
<1>3. CASE parent[p] \notin Tops
  <2>1. parent[p] \in Param \ Tops
    BY <1>3, PathBelow
  <2>2. path[parent[p]] \in Seq(Param) /\ Len(path[parent[p]]) >= 1
    BY <2>1, PathBelow
  <2>3. Head(path[parent[p]]) = path[parent[p]][1]
    BY <2>2
  <2>4. path[p][1] = path[parent[p]][1]
    BY <2>2, PathBelow
  <2> QED BY <1>1, <1>3, <2>3, <2>4
<1> QED BY <1>2, <1>3

\* The leaves of a parameter lie on the way to it.
LEMMA LeavesOnPath ==
  ASSUME NEW p \in Param, NEW i \in 1 .. Len(LeavesTo[p])
  PROVE  LeavesTo[p][i] \in Leaf /\ OnPath(LeavesTo[p][i], p)
<1> DEFINE T == {y \in Param :
                   \A j \in 1 .. Len(LeavesTo[y]) : OnPath(LeavesTo[y][j], y)}
<1>1. \A y \in Param \cap Tops : y \in T
  BY LeavesToDef
<1>2. ASSUME NEW y \in Param \ Tops, parent[y] \in T
      PROVE  y \in T
  <2> SUFFICES ASSUME NEW j \in 1 .. Len(LeavesTo[y])
               PROVE  OnPath(LeavesTo[y][j], y)
    OBVIOUS
  <2>1. PICK s \in Seq(Leaf) : s = LeavesTo[parent[y]]
    BY PathBelow, LeavesToDef
  <2>2. LeavesTo[y] = IF y \in Leaf THEN Append(s, y) ELSE s
    BY <2>1, LeavesToDef
  <2>3. ASSUME NEW x, OnPath(x, parent[y])
        PROVE  OnPath(x, y)
    BY <2>3, PathBelow, SMTT(30) DEF OnPath
  <2>4. OnPath(y, y)
    <3>1. PICK n \in Nat : n = Len(path[parent[y]])
      BY PathBelow
    <3>2. n + 1 \in 1 .. Len(path[y]) /\ path[y][n + 1] = y
      BY <3>1, PathBelow
    <3> QED BY <3>2 DEF OnPath
  <2>5. CASE j \in 1 .. Len(s)
    <3>1. LeavesTo[y][j] = s[j]
      BY <2>2, <2>5
    <3>2. OnPath(s[j], parent[y])
      BY <1>2, <2>1, <2>5
    <3> QED BY <3>1, <3>2, <2>3
  <2>6. CASE j \notin 1 .. Len(s)
    <3>1. LeavesTo[y][j] = y
      BY <2>2, <2>6
    <3> QED BY <3>1, <2>4
  <2> QED BY <2>5, <2>6
<1>3. p \in T
  <2> HIDE DEF T
  <2> QED BY <1>1, <1>2, ParamGrounded, TreeInduction
<1> QED BY <1>3, LeavesToDef

\* An option of p is below p; a "no" offers its siblings and do_hook some
\* words of the root.
LEMMA OptionPlace ==
  ASSUME NEW p \in Param, NEW q \in options(p)
  PROVE  /\ q \in Param \ Tops
         /\ \/ parent[q] = p
            \/ p \in NoCmd /\ p \notin Tops /\ parent[q] = parent[p]
            \/ p = do_hook /\ parent[q] = root /\ q \in DoOptions
<1>1. p \in NoCmd => p \notin Tops
  BY TreeAssumption DEF Tops
<1>2. CASE p \in NoCmd
  <2>1. parent[p] \in Param
    BY <1>1, <1>2, PathBelow
  <2>2. q \in Param /\ parent[q] = parent[p]
    BY <1>1, <1>2 DEF options, Children, Tops
  <2>3. q \notin Tops
    BY <2>1, <2>2, TreeAssumption DEF Tops
  <2> QED BY <1>1, <1>2, <2>2, <2>3
<1>3. CASE p \notin NoCmd /\ p = do_hook
  <2>1. q \in DoOptions
    BY <1>3 DEF options
  <2>2. q \in Param /\ parent[q] = root
    BY <2>1, TreeAssumption, DoHookAssumption
  <2>3. q \notin Tops
    BY <2>1, <2>2, TreeAssumption DEF Tops
  <2> QED BY <1>3, <2>1, <2>2, <2>3
<1>4. CASE p \notin NoCmd /\ p # do_hook
  <2>1. q \in Param /\ parent[q] = p
    BY <1>4 DEF options, Children
  <2>2. q \notin Tops
    BY <2>1, TreeAssumption DEF Tops
  <2> QED BY <2>1, <2>2
<1> QED BY <1>2, <1>3, <1>4

\* How far the tokens of a line that began with the cursor at c may lead.
Below(p, c) ==
    IF c = do_hook
    THEN p = do_hook \/ (p \notin Tops /\ Head(path[p]) \in DoOptions)
    ELSE \/ p = c
         \/ Len(path[p]) > Len(path[c])
         \/ Len(path[p]) = Len(path[c]) /\ c \in NoCmd

\* Where do comes back to: a parameter in the branch of config.
Back(p) == p \in Param \ Tops /\ Head(path[p]) = config

\* An option of a parameter lies as far from the cursor as the parameter does.
LEMMA OptionBelow ==
  ASSUME NEW c \in Param, NEW p \in Param, Below(p, c), NEW q \in options(p)
  PROVE  Below(q, c)
<1>1. q \in Param \ Tops
  BY OptionPlace
<1>2. CASE c = do_hook
  <2>1. Head(path[q]) = IF parent[q] \in Tops THEN q ELSE Head(path[parent[q]])
    BY <1>1, PathHead
  <2>2. CASE p = do_hook
    <3>1. p \notin NoCmd
      BY <2>2, TreeAssumption
    <3>2. q \in DoOptions
      BY <2>2, <3>1 DEF options
    <3>3. parent[q] \in Tops
      BY <3>2, DoHookAssumption DEF Tops
    <3> QED BY <1>1, <1>2, <2>1, <3>2, <3>3 DEF Below
  <2>3. CASE p # do_hook
    <3>1. p \notin Tops /\ Head(path[p]) \in DoOptions
      BY <1>2, <2>3 DEF Below
    <3>2. Head(path[p]) = IF parent[p] \in Tops THEN p ELSE Head(path[parent[p]])
      BY <3>1, PathHead
    <3>3. p \in NoCmd => parent[p] \notin Tops
      BY <3>1, <3>2, DoHookAssumption
    <3>4. Head(path[q]) = Head(path[p])
      <4>1. CASE parent[q] = p
        BY <4>1, <2>1, <3>1
      <4>2. CASE p \in NoCmd /\ parent[q] = parent[p]
        BY <4>2, <2>1, <3>2, <3>3
      <4> QED BY <4>1, <4>2, <2>3, OptionPlace
    <3> QED BY <1>1, <1>2, <3>1, <3>4 DEF Below
  <2> QED BY <2>2, <2>3
<1>3. CASE c # do_hook
  <2>1. PICK k \in Nat, n \in Nat : k = Len(path[c]) /\ n = Len(path[p])
    BY PathDef
  <2>2. p = c \/ n > k \/ (n = k /\ c \in NoCmd)
    BY <1>3, <2>1 DEF Below
  <2>3. p = c => n = k
    BY <2>1
  <2>4. CASE parent[q] = p
    <3>1. Len(path[q]) = n + 1
      BY <1>1, <2>1, <2>4, PathBelow
    <3>2. Len(path[q]) > k
      BY <2>2, <2>3, <3>1
    <3> QED BY <1>3, <2>1, <3>2 DEF Below
  <2>5. CASE p \in NoCmd /\ p \notin Tops /\ parent[q] = parent[p]
    <3>1. Len(path[q]) = Len(path[parent[q]]) + 1
      BY <1>1, PathBelow
    <3>2. n = Len(path[parent[p]]) + 1
      BY <2>1, <2>5, PathBelow
    <3>3. Len(path[q]) = n
      BY <2>5, <3>1, <3>2
    <3> QED BY <1>3, <2>1, <2>2, <2>3, <2>5, <3>3 DEF Below
  <2>6. p # do_hook
    <3> SUFFICES ASSUME p = do_hook
                 PROVE  FALSE
      OBVIOUS
    <3>1. n = 0
      <4>1. path[p] = <<>>
        BY PathDef DEF Tops
      <4> QED BY <2>1, <4>1
    <3>2. c \in NoCmd /\ k = 0
      BY <1>3, <2>2, <3>1
    <3>3. c \in Param \ Tops
      BY <3>2, TreeAssumption DEF Tops
    <3>4. k = Len(path[parent[c]]) + 1 /\ path[parent[c]] \in Seq(Param)
      BY <2>1, <3>3, PathBelow
    <3> QED BY <3>2, <3>4
  <2> QED BY <2>4, <2>5, <2>6, OptionPlace
<1> QED BY <1>2, <1>3

\* A leaf given in a line is neither on the way to the cursor nor on the way
\* to where do comes back to.
LEMMA OptionNotOnPath ==
  ASSUME NEW c \in Param, NEW p \in Param, Below(p, c),
         NEW l \in options(p) \cap Leaf
  PROVE  /\ c # do_hook => ~OnPath(l, c)
         /\ c = do_hook => \A o : Back(o) => ~OnPath(l, o)
<1>1. l \in Param \ Tops /\ l \notin NoCmd
  BY OptionPlace, TreeAssumption
<1>2. Below(l, c)
  BY OptionBelow
<1>3. ASSUME c # do_hook, OnPath(l, c)
      PROVE  FALSE
  <2>1. PICK k \in Nat, n \in Nat, m \in Nat :
          k = Len(path[c]) /\ n = Len(path[p]) /\ m = Len(path[l])
    BY <1>1, PathDef
  <2>2. m <= k /\ (m = k => l = c)
    BY <1>3, <2>1, PathHigher
  <2>3. l = c \/ m > k \/ (m = k /\ c \in NoCmd)
    BY <1>2, <1>3, <2>1 DEF Below
  <2>4. l = c /\ c \notin NoCmd
    BY <1>1, <2>2, <2>3
  <2>5. p = c \/ n > k
    BY <1>3, <2>1, <2>4 DEF Below
  <2>6. m = k /\ (p = c => n = k)
    BY <2>1, <2>4
  <2>7. parent[l] # p
    <3> SUFFICES ASSUME parent[l] = p
                 PROVE  FALSE
      OBVIOUS
    <3>1. m = n + 1
      BY <1>1, <2>1, PathBelow
    <3> QED BY <2>5, <2>6, <3>1
  <2>8. ~(p \in NoCmd /\ p \notin Tops /\ parent[l] = parent[p])
    <3> SUFFICES ASSUME p \in NoCmd, p \notin Tops, parent[l] = parent[p]
                 PROVE  FALSE
      OBVIOUS
    <3>1. m = Len(path[parent[l]]) + 1 /\ n = Len(path[parent[p]]) + 1
      BY <1>1, <2>1, PathBelow
    <3>2. m = n
      BY <3>1
    <3> QED BY <1>1, <2>4, <2>5, <2>6, <3>2
  <2>9. p # do_hook
    <3> SUFFICES ASSUME p = do_hook
                 PROVE  FALSE
      OBVIOUS
    <3>1. path[p] = <<>>
      BY PathDef DEF Tops
    <3>2. n = 0
      BY <2>1, <3>1
    <3> QED BY <1>3, <2>5, <3>2
  <2> QED BY <2>7, <2>8, <2>9, OptionPlace
<1>4. ASSUME c = do_hook, NEW o, Back(o), OnPath(l, o)
      PROVE  FALSE
  <2>1. Head(path[l]) = config
    BY <1>4, PathHigher DEF Back
  <2>2. Head(path[l]) \in DoOptions
    BY <1>1, <1>2, <1>4 DEF Below, Tops
  <2> QED BY <2>1, <2>2, DoHookAssumption
<1> QED BY <1>3, <1>4

-----------------------------------------------------------------------------
(* The leaves of a parameter with their values, and the prompt.            *)

\* What the tree holds for its leaves and for the "no" parameters.
Values == [Leaf \cup NoCmd -> Value \cup {NULL}]

\* The TLVs of the leaves on the way to p, with the values vh.
Tlvs(vh, p) ==
    [i \in 1 .. Len(LeavesTo[p]) |->
        [id |-> LeavesTo[p][i], val |-> vh[LeavesTo[p][i]]]]

\* The model's leaves of p are those of the values the tree holds now.
LEMMA LeafTlvsIs == \A p : LeafTlvs(p) = Tlvs(value_holder, p)
  BY DEF LeafTlvs, LeafTlv, Tlvs

\* There is one TLV for each leaf.
LEMMA TlvsType ==
  ASSUME NEW vh \in Values, NEW p \in Param
  PROVE  Tlvs(vh, p) \in Seq(Tlv) /\ Len(Tlvs(vh, p)) = Len(LeavesTo[p])
<1>1. PICK n \in Nat : n = Len(LeavesTo[p])
  BY LeavesToDef
<1>2. ASSUME NEW i \in 1 .. n
      PROVE  [id |-> LeavesTo[p][i], val |-> vh[LeavesTo[p][i]]] \in Tlv
  <2>1. LeavesTo[p][i] \in Leaf
    BY <1>1, LeavesToDef
  <2>2. vh[LeavesTo[p][i]] \in Value \cup {NULL}
    BY <2>1 DEF Values
  <2> QED BY <2>1, <2>2 DEF Tlv
<1> QED BY <1>1, <1>2 DEF Tlvs

\* Values that agree on the way to p give the same TLVs.
LEMMA TlvsSame ==
  ASSUME NEW vh, NEW wh, NEW p \in Param,
         \A l \in Leaf : OnPath(l, p) => wh[l] = vh[l]
  PROVE  Tlvs(wh, p) = Tlvs(vh, p)
<1>1. ASSUME NEW i \in 1 .. Len(LeavesTo[p])
      PROVE  wh[LeavesTo[p][i]] = vh[LeavesTo[p][i]]
  BY LeavesOnPath
<1> QED BY <1>1 DEF Tlvs

\* A parameter without leaves has no TLVs.
LEMMA TlvsNone ==
  ASSUME NEW vh, NEW p \in Param, LeavesTo[p] = <<>>
  PROVE  Tlvs(vh, p) = <<>>
  BY DEF Tlvs

\* root and do_hook have none.
LEMMA TlvsTop ==
  ASSUME NEW vh, NEW p \in Tops
  PROVE  Tlvs(vh, p) = <<>>
<1>1. p \in Param
  BY TreeAssumption DEF Tops
<1>2. LeavesTo[p] = <<>>
  BY <1>1, LeavesToDef
<1> QED BY <1>1, <1>2, TlvsNone

\* A leaf adds its own TLV to those of its parent, another parameter none.
LEMMA TlvsBelow ==
  ASSUME NEW vh, NEW p \in Param \ Tops
  PROVE  Tlvs(vh, p) = IF p \in Leaf
                       THEN Append(Tlvs(vh, parent[p]), [id |-> p, val |-> vh[p]])
                       ELSE Tlvs(vh, parent[p])
<1>1. PICK s \in Seq(Leaf) : s = LeavesTo[parent[p]]
  BY PathBelow, LeavesToDef
<1>2. LeavesTo[p] = IF p \in Leaf THEN Append(s, p) ELSE s
  BY <1>1, LeavesToDef
<1>3. CASE p \notin Leaf
  BY <1>1, <1>2, <1>3 DEF Tlvs
<1>4. CASE p \in Leaf
  <2> DEFINE cell(x) == [id |-> x, val |-> vh[x]]
             a == Tlvs(vh, parent[p])
             b == Tlvs(vh, p)
  <2>1. PICK n \in Nat : n = Len(s)
    OBVIOUS
  <2>2. a = [i \in 1 .. n |-> cell(s[i])]
    BY <1>1, <2>1 DEF Tlvs
  <2>3. b = [i \in 1 .. n + 1 |-> cell(Append(s, p)[i])]
    BY <1>2, <1>4, <2>1 DEF Tlvs
  <2>4. ASSUME NEW i \in 1 .. n + 1
        PROVE  b[i] = IF i = n + 1 THEN cell(p) ELSE a[i]
    <3> HIDE DEF a, b, cell
    <3>1. Append(s, p)[i] = IF i = n + 1 THEN p ELSE s[i]
      BY <2>1
    <3>2. b[i] = cell(Append(s, p)[i])
      BY <2>3
    <3>3. i # n + 1 => a[i] = cell(s[i])
      BY <2>1, <2>2
    <3> QED BY <3>1, <3>2, <3>3
  <2> HIDE DEF a, b, cell
  <2>5. Append(a, cell(p)) = [i \in 1 .. n + 1 |-> IF i = n + 1 THEN cell(p) ELSE a[i]]
    BY <2>2
  <2>6. b = Append(a, cell(p))
    BY <2>3, <2>4, <2>5
  <2> QED BY <1>4, <2>6 DEF a, b, cell
<1> QED BY <1>3, <1>4

\* The TLVs before an option of p are those of p.
LEMMA OptionTlvs ==
  ASSUME NEW vh, NEW p \in Param, NEW q \in options(p)
  PROVE  Tlvs(vh, parent[q]) = Tlvs(vh, p)
<1>1. CASE p \in NoCmd /\ p \notin Tops /\ parent[q] = parent[p]
  <2>1. p \notin Leaf
    BY <1>1, TreeAssumption
  <2> QED BY <1>1, <2>1, TlvsBelow
<1>2. CASE p = do_hook /\ parent[q] = root
  BY <1>2, TlvsTop DEF Tops
<1> QED BY <1>1, <1>2, OptionPlace

\* What of the TLVs of p comes after those of c.
Own(vh, c, p) == SubSeq(Tlvs(vh, p), Len(LeavesTo[c]) + 1, Len(LeavesTo[p]))

\* b ends with the TLVs that a line begun at c collects on its way to p.
Ends(b, vh, c, p) ==
    Len(LeavesTo[c]) <= Len(LeavesTo[p]) /\ EndsWith(b, Own(vh, c, p))

\* Every sequence ends with nothing.
LEMMA EndsWithNothing ==
  ASSUME NEW S, NEW s \in Seq(S)
  PROVE  EndsWith(s, <<>>)
<1>1. SubSeq(s, Len(s) + 1, Len(s)) = <<>>
  OBVIOUS
<1>2. Len(<<>>) = 0 /\ Len(s) - 0 + 1 = Len(s) + 1 /\ 0 <= Len(s)
  OBVIOUS
<1> QED BY <1>1, <1>2 DEF EndsWith

\* A sequence and one item more, item by item.
LEMMA AppendItems ==
  ASSUME NEW S, NEW s \in Seq(S), NEW x \in S
  PROVE  /\ Append(s, x) \in Seq(S) /\ Len(Append(s, x)) = Len(s) + 1
         /\ Append(s, x)[Len(s) + 1] = x
         /\ \A i \in 1 .. Len(s) : Append(s, x)[i] = s[i]
<1>1. Append(s, x) \in Seq(S) /\ Len(Append(s, x)) = Len(s) + 1
  OBVIOUS
<1>2. Append(s, x)[Len(s) + 1] = x
  OBVIOUS
<1>3. \A i \in 1 .. Len(s) : Append(s, x)[i] = s[i]
  OBVIOUS
<1> QED BY <1>1, <1>2, <1>3

\* The end of a sequence grows as the sequence does.
LEMMA CutMore ==
  ASSUME NEW S, NEW s \in Seq(S), NEW x \in S, NEW m \in Nat, m <= Len(s)
  PROVE  SubSeq(Append(s, x), m + 1, Len(s) + 1) = Append(SubSeq(s, m + 1, Len(s)), x)
<1>1. PICK n \in Nat : n = Len(s)
  OBVIOUS
<1>2. PICK u \in Seq(S) : /\ u = SubSeq(s, m + 1, n) /\ Len(u) = n - m
                          /\ \A i \in 1 .. n - m : u[i] = s[m + i]
  <2>1. SubSeq(s, m + 1, n) \in Seq(S)
    BY <1>1
  <2>2. Len(SubSeq(s, m + 1, n)) = n - m
    BY <1>1
  <2>3. \A i \in 1 .. n - m : SubSeq(s, m + 1, n)[i] = s[m + i]
    BY <1>1
  <2> QED BY <2>1, <2>2, <2>3
<1>3. PICK w \in Seq(S) : /\ w = Append(s, x) /\ Len(w) = n + 1 /\ w[n + 1] = x
                          /\ \A i \in 1 .. n : w[i] = s[i]
  <2>1. /\ Append(s, x) \in Seq(S) /\ Len(Append(s, x)) = n + 1
        /\ Append(s, x)[n + 1] = x /\ \A i \in 1 .. n : Append(s, x)[i] = s[i]
    BY <1>1, AppendItems
  <2> QED BY <2>1
<1>4. PICK a \in Seq(S) : /\ a = Append(u, x) /\ Len(a) = n - m + 1
                          /\ a[n - m + 1] = x /\ \A i \in 1 .. n - m : a[i] = u[i]
  <2>1. PICK k \in Nat : k = n - m /\ k = Len(u)
    BY <1>2
  <2>2. /\ Append(u, x) \in Seq(S) /\ Len(Append(u, x)) = k + 1
        /\ Append(u, x)[k + 1] = x /\ \A i \in 1 .. k : Append(u, x)[i] = u[i]
    BY <2>1, AppendItems
  <2> QED BY <2>1, <2>2
<1>5. PICK c \in Seq(S) : /\ c = SubSeq(w, m + 1, n + 1) /\ Len(c) = n - m + 1
                          /\ \A i \in 1 .. n - m + 1 : c[i] = w[m + i]
  <2>1. SubSeq(w, m + 1, n + 1) \in Seq(S)
    BY <1>1, <1>3
  <2>2. Len(SubSeq(w, m + 1, n + 1)) = n - m + 1
    BY <1>1, <1>3
  <2>3. \A i \in 1 .. n - m + 1 : SubSeq(w, m + 1, n + 1)[i] = w[m + i]
    BY <1>1, <1>3
  <2> QED BY <2>1, <2>2, <2>3
<1>6. ASSUME NEW i \in 1 .. n - m + 1
      PROVE  c[i] = a[i]
  <2>1. CASE i \in 1 .. n - m
    <3>1. m + i \in 1 .. n
      BY <2>1
    <3>2. c[i] = w[m + i] /\ w[m + i] = s[m + i]
      BY <3>1, <1>3, <1>5
    <3> QED BY <2>1, <3>2, <1>2, <1>4
  <2>2. CASE i \notin 1 .. n - m
    <3>1. i = n - m + 1 /\ m + i = n + 1
      BY <2>2
    <3> QED BY <3>1, <1>3, <1>4, <1>5
  <2> QED BY <2>1, <2>2
<1>7. c = a
  BY <1>4, <1>5, <1>6
<1> QED BY <1>1, <1>2, <1>3, <1>4, <1>5, <1>7

\* What a sequence ends with grows as the sequence does.
LEMMA EndsWithMore ==
  ASSUME NEW S, NEW s \in Seq(S), NEW t \in Seq(S), EndsWith(s, t), NEW x \in S
  PROVE  EndsWith(Append(s, x), Append(t, x))
<1> DEFINE m == Len(s) - Len(t)
<1>1. m \in Nat /\ Len(s) = m + Len(t) /\ SubSeq(s, m + 1, Len(s)) = t
  BY DEF EndsWith
<1>2. Len(Append(s, x)) - Len(Append(t, x)) = m
  BY <1>1
<1>3. Len(Append(t, x)) <= Len(Append(s, x))
  BY <1>1
<1> HIDE DEF m
<1>4. m <= Len(s)
  BY <1>1
<1>5. SubSeq(Append(s, x), m + 1, Len(s) + 1) = Append(t, x)
  BY <1>1, <1>4, CutMore
<1>6. Len(Append(s, x)) = Len(s) + 1
  OBVIOUS
<1>7. SubSeq(Append(s, x), Len(Append(s, x)) - Len(Append(t, x)) + 1,
             Len(Append(s, x))) = Append(t, x)
  BY <1>2, <1>5, <1>6
<1> QED BY <1>3, <1>7 DEF EndsWith

\* A line that begins has collected nothing.
LEMMA EndsStart ==
  ASSUME NEW b \in Seq(Tlv), NEW vh \in Values, NEW c \in Param
  PROVE  Ends(b, vh, c, c)
<1>1. PICK t \in Seq(Tlv) : t = Tlvs(vh, c) /\ Len(t) = Len(LeavesTo[c])
  BY TlvsType
<1>2. SubSeq(t, Len(t) + 1, Len(t)) = <<>> /\ Len(t) \in Nat
  BY <1>1
<1>3. Own(vh, c, c) = <<>>
  BY <1>1, <1>2 DEF Own
<1>4. EndsWith(b, <<>>)
  BY EndsWithNothing
<1> QED BY <1>1, <1>2, <1>3, <1>4 DEF Ends

\* A word collects nothing.
LEMMA EndsWord ==
  ASSUME NEW b, NEW vh \in Values, NEW c \in Param, NEW p \in Param, NEW q \in Param,
         Ends(b, vh, c, p), Tlvs(vh, q) = Tlvs(vh, p)
  PROVE  Ends(b, vh, c, q)
<1>1. Len(LeavesTo[q]) = Len(LeavesTo[p])
  BY TlvsType
<1> QED BY <1>1 DEF Ends, Own

\* A leaf collects its own TLV.
LEMMA EndsLeaf ==
  ASSUME NEW b \in Seq(Tlv), NEW vh \in Values, NEW wh \in Values,
         NEW c \in Param, NEW p \in Param, NEW q \in Param, NEW x \in Tlv,
         Ends(b, vh, c, p), Tlvs(wh, q) = Append(Tlvs(vh, p), x)
  PROVE  Ends(Append(b, x), wh, c, q)
<1>1. PICK t \in Seq(Tlv) : t = Tlvs(vh, p) /\ Len(t) = Len(LeavesTo[p])
  BY TlvsType
<1>2. Len(LeavesTo[q]) = Len(t) + 1
  BY <1>1, TlvsType
<1>3. PICK n \in Nat : n = Len(LeavesTo[c])
  BY LeavesToDef
<1>4. n <= Len(t) /\ EndsWith(b, SubSeq(t, n + 1, Len(t)))
  BY <1>1, <1>3 DEF Ends, Own
<1>5. SubSeq(t, n + 1, Len(t)) \in Seq(Tlv)
  BY <1>1, <1>3
<1>6. SubSeq(Append(t, x), n + 1, Len(t) + 1) = Append(SubSeq(t, n + 1, Len(t)), x)
  BY <1>1, <1>3, <1>4, CutMore
<1>7. EndsWith(Append(b, x), Append(SubSeq(t, n + 1, Len(t)), x))
  BY <1>4, <1>5, EndsWithMore
<1>8. Own(wh, c, q) = Append(SubSeq(t, n + 1, Len(t)), x)
  BY <1>1, <1>2, <1>3, <1>6 DEF Own
<1>9. n <= Len(t) + 1
  BY <1>1, <1>3, <1>4
<1> QED BY <1>2, <1>3, <1>7, <1>8, <1>9 DEF Ends

\* What a line collects is TLVs.
LEMMA OwnType ==
  ASSUME NEW vh \in Values, NEW c \in Param, NEW p \in Param
  PROVE  Own(vh, c, p) \in Seq(Tlv)
<1>1. PICK t \in Seq(Tlv) : t = Tlvs(vh, p) /\ Len(t) = Len(LeavesTo[p])
  BY TlvsType
<1>2. PICK n \in Nat : n = Len(LeavesTo[c])
  BY LeavesToDef
<1>3. SubSeq(t, n + 1, Len(t)) \in Seq(Tlv)
  BY <1>1, <1>2
<1> QED BY <1>1, <1>2, <1>3 DEF Own

\* What a prompt is made of.
NameType == Seq(Param \cup Value \cup {NULL})

\* A prompt is made of words and values.
LEMMA NameIs ==
  ASSUME NEW p \in Param, NEW vh \in Values
  PROVE  build_mode_console_name(p, vh) \in NameType
<1>1. PICK n \in Nat : n = Len(path[p])
  BY PathDef
<1>2. ASSUME NEW i \in 1 .. n
      PROVE  (IF path[p][i] \in Leaf \cup NoCmd THEN vh[path[p][i]] ELSE path[p][i])
                \in Param \cup Value \cup {NULL}
  <2>1. path[p][i] \in Param
    BY <1>1, PathDef
  <2> QED BY <2>1 DEF Values
<1> QED BY <1>1, <1>2 DEF build_mode_console_name, NameType

\* Values that agree on the way to p give the same prompt.
LEMMA NameSame ==
  ASSUME NEW vh, NEW wh, NEW p,
         \A l : OnPath(l, p) => wh[l] = vh[l]
  PROVE  build_mode_console_name(p, wh) = build_mode_console_name(p, vh)
<1>1. ASSUME NEW i \in 1 .. Len(path[p])
      PROVE  wh[path[p][i]] = vh[path[p][i]]
  BY DEF OnPath
<1> QED BY <1>1 DEF build_mode_console_name

\* At the root the prompt names nothing.
LEMMA NameOfRoot ==
  ASSUME NEW vh
  PROVE  build_mode_console_name(root, vh) = <<>>
<1>1. path[root] = <<>>
  BY PathDef, TreeAssumption DEF Tops
<1> QED BY <1>1 DEF build_mode_console_name

-----------------------------------------------------------------------------
(* The buffer.                                                             *)

\* A serialize buffer.
Buf == [b : Seq(Tlv), size : Nat \ {0}, checkpoint : Nat]

\* The indices of the buffer are in order.
Sound(buf) == buf \in Buf /\ buf.checkpoint <= Len(buf.b) /\ Len(buf.b) <= buf.size

\* What a restore keeps.
Kept(buf) == SubSeq(buf.b, 1, buf.checkpoint)

\* The fields of a buffer.
LEMMA BufFields ==
  ASSUME NEW buf, Sound(buf)
  PROVE  \E b \in Seq(Tlv), size \in Nat \ {0}, c \in Nat :
            /\ buf = [b |-> b, size |-> size, checkpoint |-> c]
            /\ buf.b = b /\ buf.size = size /\ buf.checkpoint = c
            /\ c <= Len(b) /\ Len(b) <= size
  BY DEF Sound, Buf

\* The buffer begins empty.
LEMMA SoundInit ==
  LET buf == init_serialized_buffer_of_defined_size(TLV_MAX_BUFFER_SIZE)
  IN  Sound(buf) /\ buf.b = <<>> /\ buf.checkpoint = 0
  BY ParserAssumption DEF init_serialized_buffer_of_defined_size, Sound, Buf

\* Serialising appends, doubling the size as often as it takes.
LEMMA SoundSerialize ==
  ASSUME NEW buf, Sound(buf), NEW data \in Seq(Tlv)
  PROVE  /\ Sound(serialize_string(buf, data))
         /\ serialize_string(buf, data).b = buf.b \o data
         /\ serialize_string(buf, data).checkpoint = buf.checkpoint
<1>1. PICK b \in Seq(Tlv), old \in Nat \ {0}, c \in Nat :
         /\ buf = [b |-> b, size |-> old, checkpoint |-> c]
         /\ buf.b = b /\ buf.size = old /\ buf.checkpoint = c
         /\ c <= Len(b) /\ Len(b) <= old
  BY BufFields
<1> DEFINE size == Doubled(old, Len(b) + Len(data))
           new == serialize_string(buf, data)
<1>2. size \in Nat \ {0} /\ size >= Len(b) + Len(data)
  <2>1. Len(b) + Len(data) \in Nat
    OBVIOUS
  <2> QED BY <2>1, DoubledEnough
<1> HIDE DEF size
<1>4. PICK s \in Seq(Tlv) : s = b \o data /\ Len(s) = Len(b) + Len(data)
  <2>1. b \o data \in Seq(Tlv) /\ Len(b \o data) = Len(b) + Len(data)
    OBVIOUS
  <2> QED BY <2>1
<1>3. new = [b |-> s, size |-> size, checkpoint |-> c]
  <2>1. new = [buf EXCEPT !.b = s, !.size = size]
    BY <1>1, <1>4 DEF serialize_string, size
  <2>2. new = [[buf EXCEPT !.b = s] EXCEPT !.size = size]
    BY <2>1, Zenon
  <2> QED BY <1>1, <2>2
<1> HIDE DEF new
<1>5. new \in Buf /\ new.b = s /\ new.checkpoint = c /\ new.size = size
  BY <1>2, <1>3, <1>4 DEF Buf
<1>6. c <= Len(s) /\ Len(s) <= size
  BY <1>1, <1>2, <1>4
<1> QED BY <1>1, <1>4, <1>5, <1>6 DEF Sound, new

\* Collecting a TLV appends it.
LEMMA SoundCollect ==
  ASSUME NEW buf, Sound(buf), NEW tlv \in Tlv
  PROVE  /\ Sound(collect_tlv(buf, tlv))
         /\ collect_tlv(buf, tlv).b = Append(buf.b, tlv)
         /\ collect_tlv(buf, tlv).checkpoint = buf.checkpoint
         /\ Kept(collect_tlv(buf, tlv)) = Kept(buf)
<1> DEFINE b == buf.b
           c == buf.checkpoint
           new == collect_tlv(buf, tlv)
<1>1. b \in Seq(Tlv) /\ c \in Nat /\ c <= Len(b)
  BY DEF Sound, Buf
<1>2. Sound(new) /\ new.b = b \o <<tlv>> /\ new.checkpoint = c
  <2>1. <<tlv>> \in Seq(Tlv)
    OBVIOUS
  <2> QED BY <2>1, SoundSerialize DEF collect_tlv
<1> HIDE DEF b, c, new
<1>3. b \o <<tlv>> = Append(b, tlv)
  BY <1>1
<1>4. SubSeq(Append(b, tlv), 1, c) = SubSeq(b, 1, c)
  BY <1>1
<1> QED BY <1>2, <1>3, <1>4 DEF Kept, b, c, new

\* A mark puts the checkpoint behind all that is written.
LEMMA SoundMark ==
  ASSUME NEW buf, Sound(buf)
  PROVE  /\ Sound(mark_checkpoint_serialize_buffer(buf))
         /\ mark_checkpoint_serialize_buffer(buf).b = buf.b
         /\ mark_checkpoint_serialize_buffer(buf).checkpoint = Len(buf.b)
         /\ Kept(mark_checkpoint_serialize_buffer(buf)) = buf.b
<1> DEFINE b == buf.b
           new == mark_checkpoint_serialize_buffer(buf)
<1>1. b \in Seq(Tlv) /\ buf.size \in Nat \ {0} /\ Len(b) <= buf.size
  BY DEF Sound, Buf
<1>2. new = [b |-> b, size |-> buf.size, checkpoint |-> Len(b)]
  BY DEF Sound, Buf, mark_checkpoint_serialize_buffer
<1> HIDE DEF b, new
<1>3. Len(b) \in Nat /\ SubSeq(b, 1, Len(b)) = b
  BY <1>1
<1>4. Sound(new)
  BY <1>1, <1>2, <1>3 DEF Sound, Buf
<1> QED BY <1>2, <1>3, <1>4 DEF Kept, b, new

\* A reset empties the buffer and forgets the checkpoint.
LEMMA SoundReset ==
  ASSUME NEW buf, Sound(buf)
  PROVE  /\ Sound(reset_serialize_buffer(buf))
         /\ reset_serialize_buffer(buf).b = <<>>
         /\ reset_serialize_buffer(buf).checkpoint = 0
         /\ Kept(reset_serialize_buffer(buf)) = <<>>
<1>1. PICK b \in Seq(Tlv), size \in Nat \ {0}, c \in Nat :
         buf = [b |-> b, size |-> size, checkpoint |-> c]
  BY BufFields
<1>2. reset_serialize_buffer(buf) = [b |-> <<>>, size |-> size, checkpoint |-> 0]
  <2>1. reset_serialize_buffer(buf) = [[buf EXCEPT !.b = <<>>] EXCEPT !.checkpoint = 0]
    BY Zenon DEF reset_serialize_buffer
  <2> QED BY <1>1, <2>1
<1> QED BY <1>2 DEF Sound, Buf, Kept

\* Moving next back within what is written cuts the buffer there.
LEMMA MoveBack ==
  ASSUME NEW buf, Sound(buf), NEW n \in 0 .. Len(buf.b)
  PROVE  MoveNext(buf, n) = [b |-> SubSeq(buf.b, 1, n), size |-> buf.size,
                             checkpoint |-> buf.checkpoint]
<1> DEFINE b == buf.b
<1>1. b \in Seq(Tlv)
  BY DEF Sound, Buf
<1>2. MoveNext(buf, n) = [b |-> [i \in 1 .. n |-> IF i <= Len(b) THEN b[i] ELSE NULL],
                          size |-> buf.size, checkpoint |-> buf.checkpoint]
  BY SMTT(30) DEF MoveNext, Sound, Buf
<1>3. n \in Nat /\ n <= Len(b) /\ Len(b) \in Nat
  BY <1>1
<1> HIDE DEF b
<1>4. [i \in 1 .. n |-> IF i <= Len(b) THEN b[i] ELSE NULL] = SubSeq(b, 1, n)
  BY <1>1, <1>3
<1> QED BY <1>2, <1>4 DEF b

\* The beginning of a sequence.
LEMMA CutFacts ==
  ASSUME NEW S, NEW s \in Seq(S), NEW n \in 0 .. Len(s)
  PROVE  /\ SubSeq(s, 1, n) \in Seq(S) /\ Len(SubSeq(s, 1, n)) = n
         /\ SubSeq(SubSeq(s, 1, n), 1, n) = SubSeq(s, 1, n)
<1>1. SubSeq(s, 1, n) \in Seq(S) /\ Len(SubSeq(s, 1, n)) = n
  OBVIOUS
<1> QED BY <1>1

\* A restore cuts the buffer at its checkpoint.
LEMMA SoundRestore ==
  ASSUME NEW buf, Sound(buf)
  PROVE  /\ Sound(restore_checkpoint_serialize_buffer(buf))
         /\ Kept(restore_checkpoint_serialize_buffer(buf)) = Kept(buf)
         /\ restore_checkpoint_serialize_buffer(buf).checkpoint
              = Len(restore_checkpoint_serialize_buffer(buf).b)
<1>1. PICK b \in Seq(Tlv), size \in Nat \ {0}, c \in Nat :
         /\ buf = [b |-> b, size |-> size, checkpoint |-> c]
         /\ buf.b = b /\ buf.size = size /\ buf.checkpoint = c
         /\ c <= Len(b) /\ Len(b) <= size
  BY BufFields
<1>2. c \in 0 .. Len(b)
  BY <1>1
<1> DEFINE new == restore_checkpoint_serialize_buffer(buf)
<1>3. PICK s \in Seq(Tlv) : s = SubSeq(b, 1, c) /\ Len(s) = c /\ SubSeq(s, 1, c) = s
  <2>1. /\ SubSeq(b, 1, c) \in Seq(Tlv) /\ Len(SubSeq(b, 1, c)) = c
        /\ SubSeq(SubSeq(b, 1, c), 1, c) = SubSeq(b, 1, c)
    BY <1>2, CutFacts, Zenon
  <2> QED BY <2>1, Zenon
<1>4. new = [b |-> s, size |-> size, checkpoint |-> c]
  <2>1. MoveNext(buf, c) = [b |-> SubSeq(b, 1, c), size |-> size, checkpoint |-> c]
    BY <1>1, <1>2, MoveBack
  <2> QED BY <1>1, <1>3, <2>1 DEF restore_checkpoint_serialize_buffer
<1> HIDE DEF new
<1>5. Sound(new)
  BY <1>1, <1>3, <1>4 DEF Sound, Buf
<1>6. new.b = s /\ new.checkpoint = c
  BY <1>4
<1> QED BY <1>1, <1>3, <1>5, <1>6 DEF Kept, new

\* cd.. takes the last TLV from the buffer and marks what is left.
LEMMA SoundRewind ==
  ASSUME NEW buf, Sound(buf), get_serialize_buffer_size(buf) # 0
  PROVE  /\ Sound(Rewind(buf))
         /\ Rewind(buf).b = SubSeq(buf.b, 1, Len(buf.b) - 1)
         /\ Rewind(buf).checkpoint = Len(Rewind(buf).b)
         /\ Kept(Rewind(buf)) = Rewind(buf).b
<1>1. PICK b \in Seq(Tlv), old \in Nat \ {0}, c \in Nat :
         /\ buf = [b |-> b, size |-> old, checkpoint |-> c]
         /\ buf.b = b /\ buf.size = old /\ buf.checkpoint = c
  BY BufFields
<1>2. PICK n \in Nat : n = Len(b) - 1 /\ n = Len(b) + (-1) /\ n \in 0 .. Len(b)
  <2>1. Len(b) # 0 /\ Len(b) \in Nat
    BY <1>1 DEF get_serialize_buffer_size
  <2>2. Len(b) - 1 \in Nat /\ Len(b) - 1 = Len(b) + (-1) /\ Len(b) - 1 \in 0 .. Len(b)
    BY <2>1
  <2> QED BY <2>2
<1> DEFINE size == Doubled(old, n)
           new == Rewind(buf)
<1>3. size \in Nat \ {0} /\ size >= n
  BY DoubledEnough
<1>4. MoveNext(buf, n) = [b |-> SubSeq(b, 1, n), size |-> old, checkpoint |-> c]
  BY <1>1, <1>2, MoveBack
<1>5. PICK s \in Seq(Tlv) : s = SubSeq(b, 1, n) /\ Len(s) = n /\ SubSeq(s, 1, n) = s
  <2>1. /\ SubSeq(b, 1, n) \in Seq(Tlv) /\ Len(SubSeq(b, 1, n)) = n
        /\ SubSeq(SubSeq(b, 1, n), 1, n) = SubSeq(b, 1, n)
    BY <1>2, CutFacts, Zenon
  <2> QED BY <2>1, Zenon
<1>6. serialize_buffer_skip(buf, -1) = [b |-> s, size |-> size, checkpoint |-> c]
  <2> HIDE DEF size
  <2>1. serialize_buffer_skip(buf, -1)
          = [MoveNext(buf, n) EXCEPT !.size = Doubled(@, n)]
    BY <1>1, <1>2 DEF serialize_buffer_skip
  <2>2. MoveNext(buf, n) = [b |-> s, size |-> old, checkpoint |-> c]
    BY <1>4, <1>5
  <2> QED BY <2>1, <2>2 DEF size
<1>7. new = [b |-> s, size |-> size, checkpoint |-> n]
  <2> HIDE DEF size
  <2>1. Rewind(buf) = [serialize_buffer_skip(buf, -1) EXCEPT
                          !.checkpoint = Len(serialize_buffer_skip(buf, -1).b)]
    BY DEF Rewind, mark_checkpoint_serialize_buffer
  <2> DEFINE t == serialize_buffer_skip(buf, -1)
  <2>2. t = [b |-> s, size |-> size, checkpoint |-> c] /\ t.b = s
    BY <1>6
  <2>3. Rewind(buf) = [t EXCEPT !.checkpoint = Len(t.b)]
    BY <2>1
  <2> HIDE DEF t
  <2>4. [t EXCEPT !.checkpoint = n] = [b |-> s, size |-> size, checkpoint |-> n]
    BY <2>2
  <2> QED BY <1>5, <2>2, <2>3, <2>4
<1> HIDE DEF size, new
<1>8. Sound(new)
  BY <1>2, <1>3, <1>5, <1>7 DEF Sound, Buf
<1>9. new.b = s /\ new.checkpoint = n
  BY <1>7
<1> QED BY <1>1, <1>2, <1>5, <1>8, <1>9 DEF Kept, new

-----------------------------------------------------------------------------
(* The calls under way.                                                    *)

\* A call under way.
Frame == [kind : {"cmd", "do", "file", "line"},
          pc : {"tokens", "lines", "history", "script", "repeat", "tail"},
          param : Param \cup {NULL}, op : {"unknown", "disable"},
          old : Param \cup {NULL}]

\* The last call reads tokens.
Tokens(s) == s # <<>> /\ s[Len(s)].pc = "tokens"

\* Only the last call reads tokens, and not while a line is awaited; what do
\* keeps is a place in config mode; without a call a line is awaited.
Stack(s, waits) ==
    /\ s \in Seq(Frame)
    /\ \A i \in 1 .. Len(s) :
          /\ s[i].pc = "tokens" => i = Len(s) /\ ~waits /\ s[i].param \in Param
          /\ s[i].kind = "do" => Back(s[i].old)
    /\ s = <<>> => waits

\* The i-th call is the innermost do.
LastDo(s, i) == s[i].kind = "do" /\ \A j \in i + 1 .. Len(s) : s[j].kind # "do"

\* The innermost do under way comes back to o.
DoBack(s, o) == \E i \in 1 .. Len(s) : LastDo(s, i) /\ s[i].old = o
\* The innermost do of s comes back to the same place in t.
Carries(s, t) == \A o : DoBack(s, o) => DoBack(t, o)

\* The same calls come back to the same places.
LEMMA CarriesSelf == \A s : Carries(s, s)
  BY DEF Carries

\* A call is begun.
LEMMA PushFrame ==
  ASSUME NEW s, NEW waits, Stack(s, waits), ~Tokens(s), NEW f \in Frame, NEW w,
         f.pc = "tokens" => ~w /\ f.param \in Param,
         f.kind = "do" => Back(f.old),
         NEW t, t = Append(s, f)
  PROVE  /\ Stack(t, w) /\ t # <<>> /\ t[Len(t)] = f
         /\ f.kind # "do" => Carries(s, t)
         /\ f.kind = "do" => DoBack(t, f.old)
<1>1. PICK n \in Nat : n = Len(s)
  BY DEF Stack
<1>2. /\ s \in Seq(Frame)
      /\ t \in Seq(Frame) /\ Len(t) = n + 1 /\ t[n + 1] = f
      /\ \A i \in 1 .. n : t[i] = s[i]
  BY <1>1 DEF Stack
<1>3. t # <<>> /\ t[Len(t)] = f
  BY <1>2
<1>4. ASSUME NEW i \in 1 .. n
      PROVE  s[i].pc # "tokens"
  BY <1>1 DEF Stack, Tokens
<1>5. ASSUME NEW i \in 1 .. Len(t)
      PROVE  /\ t[i].pc = "tokens" => i = Len(t) /\ ~w /\ t[i].param \in Param
             /\ t[i].kind = "do" => Back(t[i].old)
  <2>1. CASE i = n + 1
    BY <1>2, <2>1
  <2>2. CASE i \in 1 .. n
    BY <1>1, <1>2, <1>4, <2>2 DEF Stack
  <2> QED BY <1>2, <2>1, <2>2
<1>6. Stack(t, w)
  BY <1>2, <1>3, <1>5 DEF Stack
<1>7. ASSUME f.kind # "do", NEW o, DoBack(s, o)
      PROVE  DoBack(t, o)
  <2>1. PICK i \in 1 .. n : LastDo(s, i) /\ s[i].old = o
    BY <1>1, <1>7 DEF DoBack
  <2>2. i \in 1 .. Len(t) /\ t[i] = s[i]
    BY <1>2
  <2>3. ASSUME NEW j \in i + 1 .. Len(t)
        PROVE  t[j].kind # "do"
    <3>1. CASE j = n + 1
      BY <1>2, <1>7, <3>1
    <3>2. CASE j # n + 1
      <4>1. j \in i + 1 .. n /\ j \in 1 .. n
        BY <1>2, <3>2
      <4> QED BY <1>1, <1>2, <2>1, <4>1 DEF LastDo
    <3> QED BY <3>1, <3>2
  <2> QED BY <2>1, <2>2, <2>3 DEF LastDo, DoBack
<1>8. f.kind = "do" => DoBack(t, f.old)
  <2>1. n + 1 \in 1 .. Len(t) /\ \A j \in n + 2 .. Len(t) : FALSE
    BY <1>2
  <2> QED BY <1>2, <2>1 DEF LastDo, DoBack
<1> QED BY <1>3, <1>6, <1>7, <1>8 DEF Carries

\* The last call replaced by f.
SetLast(s, f) == [s EXCEPT ![Len(s)] = f]

\* The last call goes on.
LEMMA SetFrame ==
  ASSUME NEW s, NEW waits, Stack(s, waits), s # <<>>, NEW f \in Frame, NEW w,
         f.kind = s[Len(s)].kind, f.old = s[Len(s)].old,
         f.pc = "tokens" => ~w /\ f.param \in Param,
         NEW t, t = SetLast(s, f)
  PROVE  /\ Stack(t, w) /\ t # <<>> /\ t[Len(t)] = f
         /\ Carries(s, t)
<1>1. PICK n \in Nat : n = Len(s) /\ n > 0
  BY DEF Stack
<1>2. /\ s \in Seq(Frame)
      /\ t \in Seq(Frame) /\ Len(t) = n /\ t[n] = f
      /\ \A i \in 1 .. n : i # n => t[i] = s[i]
  BY <1>1 DEF Stack, SetLast
<1>3. t # <<>> /\ t[Len(t)] = f
  BY <1>1, <1>2
<1>4. ASSUME NEW i \in 1 .. n
      PROVE  /\ t[i].pc = "tokens" => i = Len(t) /\ ~w /\ t[i].param \in Param
             /\ t[i].kind = "do" => Back(t[i].old)
  BY <1>1, <1>2 DEF Stack
<1>5. Stack(t, w)
  BY <1>2, <1>3, <1>4 DEF Stack
<1>6. \A i \in 1 .. n : t[i].kind = s[i].kind /\ t[i].old = s[i].old
  BY <1>1, <1>2
<1>7. ASSUME NEW o, DoBack(s, o)
      PROVE  DoBack(t, o)
  <2>1. PICK i \in 1 .. n : LastDo(s, i) /\ s[i].old = o
    BY <1>1, <1>7 DEF DoBack
  <2>2. \A j \in i + 1 .. n : j \in 1 .. n
    OBVIOUS
  <2>3. LastDo(t, i)
    BY <1>1, <1>2, <1>6, <2>1, <2>2 DEF LastDo
  <2> QED BY <1>2, <1>6, <2>1, <2>3 DEF DoBack
<1> QED BY <1>1, <1>3, <1>5, <1>7 DEF Carries

\* The last call returns.
LEMMA DropFrame ==
  ASSUME NEW s, NEW waits, Stack(s, waits), s # <<>>, NEW w,
         Len(s) = 1 => w, NEW t, t = Front(s)
  PROVE  /\ Stack(t, w) /\ ~Tokens(t)
         /\ s[Len(s)].kind # "do" => Carries(s, t)
<1>1. PICK n \in Nat : n = Len(s) /\ n > 0
  BY DEF Stack
<1>2. /\ s \in Seq(Frame)
      /\ t \in Seq(Frame) /\ Len(t) = n - 1
      /\ \A i \in 1 .. n - 1 : t[i] = s[i] /\ i \in 1 .. n
  BY <1>1 DEF Stack, Front
<1>3. ASSUME NEW i \in 1 .. n - 1
      PROVE  t[i].pc # "tokens" /\ (t[i].kind = "do" => Back(t[i].old))
  BY <1>1, <1>2 DEF Stack
<1>4. t = <<>> => w
  <2>1. t = <<>> => n - 1 = 0
    BY <1>2
  <2> QED BY <1>1, <2>1
<1>5. Stack(t, w)
  BY <1>2, <1>3, <1>4 DEF Stack
<1>6. ~Tokens(t)
  <2>1. t # <<>> => Len(t) \in 1 .. n - 1
    BY <1>1, <1>2
  <2> QED BY <1>3, <2>1 DEF Tokens
<1>7. ASSUME s[n].kind # "do", NEW o, DoBack(s, o)
      PROVE  DoBack(t, o)
  <2>1. PICK i \in 1 .. n : LastDo(s, i) /\ s[i].old = o
    BY <1>1, <1>7 DEF DoBack
  <2>2. i \in 1 .. n - 1
    BY <1>7, <2>1 DEF LastDo
  <2>3. \A j \in i + 1 .. n - 1 : j \in i + 1 .. n /\ j \in 1 .. n - 1
    BY <2>2
  <2>4. LastDo(t, i)
    BY <1>1, <1>2, <2>1, <2>2, <2>3 DEF LastDo
  <2> QED BY <1>2, <2>1, <2>2, <2>4 DEF DoBack
<1> QED BY <1>1, <1>5, <1>6, <1>7 DEF Carries

-----------------------------------------------------------------------------
(* The inductive invariant.                                                *)

\* The types of everything but the calls under way.
Kinds(c, buf, vh, name, waits, bad, mix) ==
    /\ c \in Param /\ Sound(buf) /\ vh \in Values /\ name \in NameType
    /\ waits \in BOOLEAN /\ bad \in BOOLEAN /\ mix \in BOOLEAN

\* The tokens read so far lead down from the cursor.
Deeper(s, c) == Tokens(s) => Below(s[Len(s)].param, c)

\* The prompt is that of the cursor, or of where do comes back to.
Shown(s, c, name, vh) ==
    IF c = do_hook
    THEN \E o : DoBack(s, o) /\ name = build_mode_console_name(o, vh)
    ELSE name = build_mode_console_name(c, vh)

\* Up to its checkpoint the buffer holds the leaves of the mode, unless that
\* was spoilt.  If nothing was mixed with it either, there is nothing more when
\* a line is awaited, and while tokens are read the leaves on the way to where
\* they have led.  Whatever the buffer holds, it ends with the leaves of the
\* line, and without a call nothing is mixed with it.
Holds(s, waits, c, buf, vh, bad, mix) ==
    /\ s = <<>> => ~mix
    /\ ~bad => Kept(buf) = Tlvs(vh, c)
    /\ ~bad /\ ~mix /\ waits => buf.checkpoint = Len(buf.b)
    /\ ~bad /\ ~mix /\ Tokens(s) => buf.b = Tlvs(vh, s[Len(s)].param)
    /\ Tokens(s) => Ends(buf.b, vh, c, s[Len(s)].param)

\* The invariant that every step preserves.
IInv ==
    /\ Kinds(cmd_tree_cursor, tlv_buff, value_holder, console_name, reading, stale, mixed)
    /\ Stack(frames, reading)
    /\ Deeper(frames, cmd_tree_cursor)
    /\ Shown(frames, cmd_tree_cursor, console_name, value_holder)
    /\ Holds(frames, reading, cmd_tree_cursor, tlv_buff, value_holder, stale, mixed)

\* The command line starts in the invariant.
LEMMA InitInv == Init => IInv
<1> SUFFICES ASSUME Init
             PROVE  IInv
  OBVIOUS
<1>1. root \in Param /\ root \in Tops /\ root # do_hook
  BY TreeAssumption DEF Tops
<1>2. frames = <<>> /\ ~Tokens(frames)
  BY DEF Init, Tokens
<1>3. Stack(frames, reading)
  BY <1>2 DEF Stack, Init
<1>4. Sound(tlv_buff) /\ tlv_buff.b = <<>> /\ tlv_buff.checkpoint = 0
  BY SoundInit DEF Init
<1>5. value_holder \in Values
  BY DEF Init, Values
<1>6. console_name = <<>> /\ <<>> \in NameType
  BY EmptyInSeq DEF Init, NameType
<1>7. Kept(tlv_buff) = <<>>
  BY <1>4 DEF Kept
<1> QED BY <1>1, <1>2, <1>3, <1>4, <1>5, <1>6, <1>7, TlvsTop, NameOfRoot
        DEF IInv, Kinds, Deeper, Shown, Holds, Init

-----------------------------------------------------------------------------
(* What the steps have in common.                                          *)

\* The fields of a call that reads tokens.
LEMMA ParsingFrame ==
  ASSUME NEW kind \in {"cmd", "do", "line"}, NEW p \in Param,
         NEW old \in Param \cup {NULL}
  PROVE  /\ Parsing(kind, p, old) \in Frame
         /\ Parsing(kind, p, old).kind = kind /\ Parsing(kind, p, old).pc = "tokens"
         /\ Parsing(kind, p, old).param = p /\ Parsing(kind, p, old).old = old
  BY DEF Parsing, Frame

\* The frames of calls that read no tokens.
IdleFrame(f) ==
    f \in Frame /\ f.kind # "do" /\ f.pc # "tokens"

\* A call that finishes, a repeat, a script and a file read no tokens.
LEMMA IdleFrames ==
  /\ IdleFrame(Finishing)
  /\ IdleFrame([Finishing EXCEPT !.pc = "script"])
  /\ IdleFrame([Finishing EXCEPT !.pc = "repeat"])
  /\ IdleFrame([Parsing("file", NULL, NULL) EXCEPT !.pc = "lines"])
<1>1. Finishing = [kind |-> "cmd", pc |-> "tail", param |-> NULL,
                   op |-> "unknown", old |-> NULL]
  BY DEF Finishing, Parsing
<1>2. [Finishing EXCEPT !.pc = "script"]
        = [kind |-> "cmd", pc |-> "script", param |-> NULL,
           op |-> "unknown", old |-> NULL]
  BY <1>1
<1>3. [Finishing EXCEPT !.pc = "repeat"]
        = [kind |-> "cmd", pc |-> "repeat", param |-> NULL,
           op |-> "unknown", old |-> NULL]
  BY <1>1
<1>4. [Parsing("file", NULL, NULL) EXCEPT !.pc = "lines"]
        = [kind |-> "file", pc |-> "lines", param |-> NULL,
           op |-> "unknown", old |-> NULL]
  BY DEF Parsing
<1> QED BY <1>1, <1>2, <1>3, <1>4 DEF IdleFrame, Frame

\* While a line is awaited no call reads tokens.
LEMMA Waiting ==
  ASSUME NEW s, Stack(s, TRUE)
  PROVE  ~Tokens(s)
<1>1. s # <<>> => Len(s) \in 1 .. Len(s)
  BY DEF Stack
<1> QED BY <1>1 DEF Stack, Tokens

\* The last call is a call, and has what Stack says of its kind.
LEMMA LastFrame ==
  ASSUME NEW s, NEW waits, Stack(s, waits), s # <<>>
  PROVE  /\ s[Len(s)] \in Frame
         /\ s[Len(s)].kind = "do" => Back(s[Len(s)].old)
         /\ s[Len(s)].pc = "tokens" => s[Len(s)].param \in Param
<1>1. Len(s) \in 1 .. Len(s) /\ s \in Seq(Frame)
  BY DEF Stack
<1> QED BY <1>1 DEF Stack

\* A buffer with its checkpoint at the end is kept whole.
LEMMA KeptWhole ==
  ASSUME NEW buf, Sound(buf), buf.checkpoint = Len(buf.b)
  PROVE  Kept(buf) = buf.b
  BY DEF Sound, Buf, Kept

\* What the prompt shows stays right while no do returns.
LEMMA ShownCarries ==
  ASSUME NEW s, NEW t, NEW c, NEW name, NEW vh,
         Shown(s, c, name, vh), Carries(s, t)
  PROVE  Shown(t, c, name, vh)
  BY DEF Shown, Carries

\* What Line says of a state of the invariant.
LEMMA LineState ==
  ASSUME IInv, Line
  PROVE  /\ reading /\ Stack(frames, TRUE) /\ ~Tokens(frames) /\ call' = NULL
         /\ ~stale /\ ~mixed =>
               /\ tlv_buff.checkpoint = Len(tlv_buff.b)
               /\ tlv_buff.b = Tlvs(value_holder, cmd_tree_cursor)
<1>1. reading = TRUE /\ call' = NULL
  BY DEF Line, IInv, Kinds
<1>2. Stack(frames, TRUE)
  BY <1>1 DEF IInv
<1>3. ~Tokens(frames)
  BY <1>2, Waiting
<1>4. Sound(tlv_buff)
  BY DEF IInv, Kinds
<1> QED BY <1>1, <1>2, <1>3, <1>4, KeptWhole DEF IInv, Holds

\* A call that reads no tokens is begun from the prompt.
LEMMA IdlePush ==
  ASSUME IInv, Line, NEW f, IdleFrame(f), Push(f)
  PROVE  /\ \A w : Stack(frames', w)
         /\ frames' # <<>> /\ ~Tokens(frames') /\ Carries(frames, frames')
<1>1. Stack(frames, TRUE) /\ ~Tokens(frames)
  BY LineState
<1>2. f \in Frame /\ f.kind # "do" /\ f.pc # "tokens"
  BY DEF IdleFrame
<1>3. ASSUME NEW w
      PROVE  /\ Stack(frames', w) /\ frames' # <<>> /\ frames'[Len(frames')] = f
             /\ Carries(frames, frames')
  BY <1>1, <1>2, PushFrame DEF Push
<1> QED BY <1>2, <1>3 DEF Tokens

\* A step that crashes changes nothing the invariant speaks of.
LEMMA CrashStep ==
  ASSUME IInv, NEW why, Crash(why)
  PROVE  IInv'
<1>1. /\ cmd_tree_cursor' = cmd_tree_cursor /\ console_name' = console_name
      /\ tlv_buff' = tlv_buff /\ value_holder' = value_holder
      /\ frames' = frames /\ reading' = reading
      /\ stale' = stale /\ mixed' = mixed
  BY DEF Crash, cli, spoilt
<1> QED BY <1>1 DEF IInv

-----------------------------------------------------------------------------
(* The steps at a line.                                                    *)

\* The last call reads tokens from p on.
Started(t, p) ==
    Stack(t, FALSE) /\ t # <<>> /\ Tokens(t) /\ t[Len(t)].param = p

\* A call may be begun: a line is awaited, or no call reads tokens.
Ready(s) == Stack(s, TRUE) \/ (~Tokens(s) /\ Stack(s, FALSE))

\* A call that reads tokens may be begun when none does.
LEMMA StartTokens ==
  ASSUME NEW s, Ready(s),
         NEW f \in Frame, f.pc = "tokens", f.param \in Param,
         f.kind = "do" => Back(f.old),
         NEW t, t = Append(s, f)
  PROVE  /\ Started(t, f.param)
         /\ f.kind # "do" => Carries(s, t)
         /\ f.kind = "do" => DoBack(t, f.old)
<1>1. ~Tokens(s)
  BY Waiting DEF Ready
<1>2. PICK waits : Stack(s, waits)
  BY DEF Ready
<1>3. /\ Stack(t, FALSE) /\ t # <<>> /\ t[Len(t)] = f
      /\ f.kind # "do" => Carries(s, t)
      /\ f.kind = "do" => DoBack(t, f.old)
  BY <1>1, <1>2, PushFrame
<1> QED BY <1>3 DEF Started, Tokens

\* A line of the tree, of the user's or of a file's.
LEMMA StartLine ==
  ASSUME NEW s, Ready(s),
         NEW kind \in {"cmd", "line"}, NEW p \in Param,
         NEW t, t = Append(s, Parsing(kind, p, NULL))
  PROVE  Started(t, p) /\ Carries(s, t)
<1> DEFINE f == Parsing(kind, p, NULL)
<1>1. f \in Frame /\ f.kind # "do" /\ f.pc = "tokens" /\ f.param = p
  BY ParsingFrame
<1>2. t = Append(s, f)
  OBVIOUS
<1> HIDE DEF f
<1> QED BY <1>1, <1>2, StartTokens

\* A line after do.
LEMMA StartDo ==
  ASSUME NEW s, Ready(s), NEW p \in Param, NEW old, Back(old),
         NEW t, t = Append(s, Parsing("do", p, old))
  PROVE  Started(t, p) /\ DoBack(t, old)
<1> DEFINE f == Parsing("do", p, old)
<1>1. f \in Frame /\ f.kind = "do" /\ f.pc = "tokens" /\ f.param = p /\ f.old = old
  BY ParsingFrame DEF Back
<1>2. t = Append(s, f)
  OBVIOUS
<1> HIDE DEF f
<1> QED BY <1>1, <1>2, StartTokens

\* A line begins at the cursor.
LEMMA BelowSelf ==
  ASSUME NEW p
  PROVE  Below(p, p)
  BY DEF Below

\* A line of the user's that the tree is walked with.
LEMMA TreeCmdStep ==
  ASSUME IInv, TreeCmd
  PROVE  IInv' /\ call' = NULL
<1> DEFINE c == cmd_tree_cursor
<1>1. /\ Line /\ frames' = Append(frames, Parsing("cmd", c, NULL)) /\ reading' = FALSE
      /\ cmd_tree_cursor' = c /\ console_name' = console_name
      /\ tlv_buff' = tlv_buff /\ value_holder' = value_holder
      /\ stale' = stale /\ mixed' = mixed
  BY DEF TreeCmd, Push, cli, spoilt
<1>2. /\ Stack(frames, TRUE) /\ call' = NULL
      /\ ~stale /\ ~mixed => tlv_buff.b = Tlvs(value_holder, c)
  BY <1>1, LineState
<1>3. c \in Param
  BY DEF IInv, Kinds
<1>4. Started(frames', c) /\ Carries(frames, frames')
  <2>1. Ready(frames)
    BY <1>2 DEF Ready
  <2> QED BY <1>1, <1>3, <2>1, StartLine
<1>5. Deeper(frames', c)
  BY <1>4, BelowSelf DEF Deeper, Started
<1>6. Shown(frames', c, console_name, value_holder)
  BY <1>4, ShownCarries DEF IInv
<1>7. Ends(tlv_buff.b, value_holder, c, c)
  BY EndsStart DEF IInv, Kinds, Sound, Buf
<1>8. Holds(frames', FALSE, c, tlv_buff, value_holder, stale, mixed)
  BY <1>2, <1>4, <1>7 DEF IInv, Holds, Started
<1> QED BY <1>1, <1>2, <1>4, <1>5, <1>6, <1>8 DEF IInv, Kinds, Started

\* A line that begins a call without tokens and leaves buffer, mode and values
\* alone.
LEMMA IdleLine ==
  ASSUME IInv, Line, NEW f, IdleFrame(f), Push(f), reading' \in BOOLEAN,
         UNCHANGED <<cli, tlv_buff, value_holder, spoilt>>
  PROVE  IInv' /\ call' = NULL
<1>1. /\ cmd_tree_cursor' = cmd_tree_cursor /\ console_name' = console_name
      /\ tlv_buff' = tlv_buff /\ value_holder' = value_holder
      /\ stale' = stale /\ mixed' = mixed
  BY DEF cli, spoilt
<1>2. /\ Stack(frames', reading') /\ frames' # <<>> /\ ~Tokens(frames')
      /\ Carries(frames, frames')
  BY IdlePush
<1>3. reading /\ call' = NULL
  BY LineState
<1>4. Shown(frames', cmd_tree_cursor, console_name, value_holder)
  BY <1>2, ShownCarries DEF IInv
<1>5. Holds(frames', reading', cmd_tree_cursor, tlv_buff, value_holder, stale, mixed)
  BY <1>2, <1>3 DEF IInv, Holds
<1> QED BY <1>1, <1>2, <1>3, <1>4, <1>5 DEF IInv, Kinds, Deeper

\* Lines without an effect of their own, repeat and a script begun.
LEMMA IdleLineSteps ==
  ASSUME IInv, NoOpCmd \/ RepeatCmd \/ RunTestCase
  PROVE  IInv' /\ call' = NULL
<1>1. reading \in BOOLEAN
  BY DEF IInv, Kinds
<1>2. CASE NoOpCmd
  BY <1>2, IdleFrames, IdleLine DEF NoOpCmd
<1>3. CASE RepeatCmd
  BY <1>1, <1>3, IdleFrames, IdleLine DEF RepeatCmd
<1>4. CASE RunTestCase
  BY <1>1, <1>4, IdleFrames, IdleLine DEF RunTestCase
<1> QED BY <1>2, <1>3, <1>4

\* No line comes in place of the one awaited.
LEMMA NoLineStep ==
  ASSUME IInv, NoLine
  PROVE  IInv' /\ call' = NULL
<1>1. /\ reading = TRUE /\ reading' = FALSE /\ frames # <<>> /\ call' = NULL
      /\ cmd_tree_cursor' = cmd_tree_cursor /\ console_name' = console_name
      /\ tlv_buff' = tlv_buff /\ value_holder' = value_holder
      /\ frames' = frames /\ stale' = stale /\ mixed' = mixed
  BY DEF NoLine, cli, spoilt, IInv, Kinds
<1>2. Stack(frames, TRUE) /\ ~Tokens(frames)
  BY <1>1, Waiting DEF IInv
<1>3. Stack(frames, FALSE)
  BY <1>1, <1>2 DEF Stack
<1>4. Holds(frames, FALSE, cmd_tree_cursor, tlv_buff, value_holder, stale, mixed)
  BY <1>2 DEF IInv, Holds
<1> QED BY <1>1, <1>3, <1>4 DEF IInv, Kinds

\* The buffer emptied at p: it holds nothing, and that is what it should hold
\* unless there are leaves on the way to p.
LEMMA EmptiedIs ==
  ASSUME IInv, NEW p \in Param, Emptied(p)
  PROVE  /\ Sound(tlv_buff') /\ tlv_buff'.b = <<>> /\ Kept(tlv_buff') = <<>>
         /\ stale' \in BOOLEAN /\ mixed' = FALSE
         /\ ~stale' => \A vh : Tlvs(vh, p) = <<>>
<1>1. /\ tlv_buff' = reset_serialize_buffer(tlv_buff)
      /\ stale' = (LeavesTo[p] # <<>>) /\ mixed' = FALSE
  BY DEF Emptied
<1>2. Sound(tlv_buff') /\ tlv_buff'.b = <<>> /\ Kept(tlv_buff') = <<>>
  BY <1>1, SoundReset DEF IInv, Kinds
<1>3. ~stale' => \A vh : Tlvs(vh, p) = <<>>
  BY <1>1, TlvsNone
<1> QED BY <1>1, <1>2, <1>3

\* A line begun at p with the buffer emptied there.
LEMMA EmptiedHolds ==
  ASSUME IInv, NEW p \in Param, Emptied(p), NEW t, Started(t, p), NEW vh \in Values
  PROVE  Holds(t, FALSE, p, tlv_buff', vh, stale', mixed')
<1>1. /\ tlv_buff'.b = <<>> /\ Kept(tlv_buff') = <<>>
      /\ ~stale' => Tlvs(vh, p) = <<>>
  BY EmptiedIs
<1>2. Ends(<<>>, vh, p, p)
  BY EndsStart, EmptyInSeq
<1> QED BY <1>1, <1>2 DEF Holds, Started

\* do borrows the words of the root and notes where it came from.
LEMMA DoCmdStep ==
  ASSUME IInv, DoCmd
  PROVE  IInv' /\ call' = NULL
<1> DEFINE c == cmd_tree_cursor
<1>1. Line /\ c # root
  BY DEF DoCmd
<1>2. Stack(frames, TRUE) /\ call' = NULL
  BY <1>1, LineState
<1>3. CASE c = do_hook
  BY <1>2, <1>3, CrashStep DEF DoCmd
<1>4. CASE c # do_hook
  <2>1. /\ get_current_branch_hook(c) = config
        /\ frames' = Append(frames, Parsing("do", do_hook, c)) /\ reading' = FALSE
        /\ cmd_tree_cursor' = do_hook /\ console_name' = console_name
        /\ Emptied(do_hook) /\ value_holder' = value_holder
    BY <1>4 DEF DoCmd, Push
  <2>2. c \in Param /\ do_hook \in Param /\ Back(c)
    BY <1>1, <1>4, <2>1, TreeAssumption
       DEF IInv, Kinds, Tops, Back, get_current_branch_hook
  <2>3. Started(frames', do_hook) /\ DoBack(frames', c)
    <3>1. Ready(frames)
      BY <1>2 DEF Ready
    <3> QED BY <2>1, <2>2, <3>1, StartDo
  <2>4. Sound(tlv_buff') /\ stale' \in BOOLEAN /\ mixed' = FALSE
    BY <2>1, <2>2, EmptiedIs
  <2>5. Deeper(frames', do_hook)
    BY <2>3, BelowSelf DEF Deeper, Started
  <2>6. Shown(frames', do_hook, console_name, value_holder)
    BY <1>4, <2>3 DEF Shown, IInv
  <2>7. Holds(frames', FALSE, do_hook, tlv_buff', value_holder, stale', mixed')
    BY <2>1, <2>2, <2>3, EmptiedHolds DEF IInv, Kinds
  <2> QED BY <1>2, <2>1, <2>2, <2>3, <2>4, <2>5, <2>6, <2>7 DEF IInv, Kinds, Started
<1> QED BY <1>3, <1>4

\* config load empties the buffer and reads the file's lines.
LEMMA LoadCmdStep ==
  ASSUME IInv, LoadCmd
  PROVE  IInv' /\ call' = NULL
<1> DEFINE c == cmd_tree_cursor
           f == [Parsing("file", NULL, NULL) EXCEPT !.pc = "lines"]
<1>1. /\ Line /\ Push(f) /\ reading' = FALSE /\ Emptied(c)
      /\ cmd_tree_cursor' = c /\ console_name' = console_name
      /\ value_holder' = value_holder
  BY DEF LoadCmd, cli
<1>2. IdleFrame(f)
  BY IdleFrames
<1> HIDE DEF f
<1>3. Stack(frames', FALSE) /\ ~Tokens(frames') /\ Carries(frames, frames')
  BY <1>1, <1>2, IdlePush
<1>4. call' = NULL
  BY <1>1, LineState
<1>5. c \in Param
  BY DEF IInv, Kinds
<1>6. /\ Sound(tlv_buff') /\ Kept(tlv_buff') = <<>>
      /\ stale' \in BOOLEAN /\ mixed' = FALSE
      /\ ~stale' => Tlvs(value_holder, c) = <<>>
  BY <1>1, <1>5, EmptiedIs
<1>7. Shown(frames', c, console_name, value_holder)
  BY <1>3, ShownCarries DEF IInv
<1>8. Holds(frames', FALSE, c, tlv_buff', value_holder, stale', mixed')
  BY <1>3, <1>6 DEF Holds
<1> QED BY <1>1, <1>3, <1>4, <1>6, <1>7, <1>8 DEF IInv, Kinds, Deeper

\* What the buffer keeps when cd.. leaves c.
LEMMA KeptAbove ==
  ASSUME IInv, cmd_tree_cursor \in Param \ Tops, ~stale,
         reading, ~(mixed /\ cmd_tree_cursor \in Leaf),
         cmd_tree_cursor \in Leaf => get_serialize_buffer_size(tlv_buff) # 0
  PROVE  Kept(IF cmd_tree_cursor \in Leaf THEN Rewind(tlv_buff) ELSE tlv_buff)
            = Tlvs(value_holder, parent[cmd_tree_cursor])
<1> DEFINE c == cmd_tree_cursor
           a == Tlvs(value_holder, parent[c])
           x == [id |-> c, val |-> value_holder[c]]
<1>1. Sound(tlv_buff) /\ value_holder \in Values
  BY DEF IInv, Kinds
<1>2. Tlvs(value_holder, c) = IF c \in Leaf THEN Append(a, x) ELSE a
  BY TlvsBelow
<1>3. CASE c \notin Leaf
  BY <1>2, <1>3 DEF IInv, Holds
<1>4. CASE c \in Leaf
  <2>1. tlv_buff.checkpoint = Len(tlv_buff.b)
    BY <1>4 DEF IInv, Holds
  <2>2. tlv_buff.b = Append(a, x)
    BY <1>1, <1>2, <1>4, <2>1, KeptWhole DEF IInv, Holds
  <2>3. a \in Seq(Tlv)
    BY <1>1, PathBelow, TlvsType
  <2>4. Kept(Rewind(tlv_buff)) = SubSeq(tlv_buff.b, 1, Len(tlv_buff.b) - 1)
    BY <1>1, <1>4, SoundRewind
  <2> HIDE DEF a, x
  <2>5. SubSeq(Append(a, x), 1, Len(Append(a, x)) - 1) = a
    BY <2>3
  <2>6. Kept(Rewind(tlv_buff)) = a
    BY <2>2, <2>4, <2>5
  <2> QED BY <1>4, <2>6 DEF a
<1> QED BY <1>3, <1>4

\* cd.. takes the cursor to its parent, and a leaf's TLV from the buffer.
LEMMA GoOneLevelUpStep ==
  ASSUME IInv, GoOneLevelUp
  PROVE  IInv' /\ call' = NULL
<1> DEFINE c == cmd_tree_cursor
           bare == c \in Leaf /\ get_serialize_buffer_size(tlv_buff) = 0
           up == IF c = root THEN root ELSE parent[c]
           rewound == IF c \in Leaf THEN Rewind(tlv_buff) ELSE tlv_buff
<1>1. Line
  BY DEF GoOneLevelUp
<1>2. reading /\ call' = NULL
  BY <1>1, LineState
<1>3. CASE c = do_hook
  <2>1. Crash("cursor set to NULL")
    BY <1>3, TreeAssumption DEF GoOneLevelUp
  <2> QED BY <1>2, <2>1, CrashStep
<1>4. CASE c # do_hook /\ bare
  <2>1. Crash("rewind before the buffer")
    BY <1>4 DEF GoOneLevelUp
  <2> QED BY <1>2, <2>1, CrashStep
<1>5. CASE c # do_hook /\ ~bare
  <2>1. /\ value_holder' = [l \in Leaf \cup NoCmd |->
                              IF l = c THEN NULL ELSE value_holder[l]]
        /\ cmd_tree_cursor' = up
        /\ IF up = root /\ c # root THEN Emptied(root)
           ELSE /\ tlv_buff' = rewound
                /\ stale' = (stale \/ (mixed /\ c \in Leaf))
                /\ mixed' = mixed
        /\ console_name' = IF c = root THEN console_name
                           ELSE build_mode_console_name(up, value_holder')
        /\ Push(Finishing) /\ reading' = FALSE
    BY <1>5 DEF GoOneLevelUp
  <2>2. /\ c \in Param /\ value_holder \in Values /\ Sound(tlv_buff)
        /\ stale \in BOOLEAN /\ mixed \in BOOLEAN /\ root \in Param
    BY TreeAssumption DEF IInv, Kinds
  <2>3. CASE c = root
    <3>1. c \notin Leaf /\ c \notin NoCmd
      BY <2>3, TreeAssumption
    <3>2. value_holder' = value_holder
      BY <2>1, <2>2, <3>1 DEF Values
    <3>3. /\ cmd_tree_cursor' = cmd_tree_cursor /\ console_name' = console_name
          /\ tlv_buff' = tlv_buff /\ stale' = stale /\ mixed' = mixed
      BY <2>1, <2>2, <2>3, <3>1
    <3>4. UNCHANGED <<cli, tlv_buff, value_holder, spoilt>>
      BY <3>2, <3>3 DEF cli, spoilt
    <3> QED BY <1>1, <2>1, <3>4, IdleFrames, IdleLine
  <2>4. CASE c # root
    <3>1. c \in Param \ Tops
      BY <1>5, <2>2, <2>4 DEF Tops
    <3>2. up = parent[c] /\ up \in Param /\ up # do_hook
      BY <2>4, <3>1, PathBelow, DoHookAssumption
    <3>3. value_holder' \in Values
      BY <2>1, <2>2 DEF Values
    <3>4. Tlvs(value_holder', up) = Tlvs(value_holder, up)
      <4>1. ASSUME NEW l \in Leaf, OnPath(l, up)
            PROVE  value_holder'[l] = value_holder[l]
        <5>1. l # c
          BY <3>1, <3>2, <4>1, NotAbove
        <5> QED BY <2>1, <5>1
      <4> HIDE DEF up
      <4> QED BY <3>2, <4>1, TlvsSame
    <3>5. Sound(rewound)
      BY <1>5, <2>2, SoundRewind
    <3>6. /\ Sound(tlv_buff') /\ stale' \in BOOLEAN /\ mixed' \in BOOLEAN
          /\ ~stale' => Kept(tlv_buff') = Tlvs(value_holder', up)
      <4>1. CASE up = root
        <5>1. Emptied(root)
          BY <2>1, <2>4, <4>1
        <5> QED BY <2>2, <4>1, <5>1, EmptiedIs
      <4>2. CASE up # root
        <5>1. /\ tlv_buff' = rewound /\ mixed' = mixed
              /\ stale' = (stale \/ (mixed /\ c \in Leaf))
          BY <2>1, <4>2
        <5>2. stale' \in BOOLEAN /\ (~stale' => ~stale /\ ~(mixed /\ c \in Leaf))
          BY <2>2, <5>1
        <5>3. ~stale' => Kept(rewound) = Tlvs(value_holder, parent[c])
          BY <1>2, <1>5, <3>1, <5>2, KeptAbove
        <5> HIDE DEF rewound
        <5> QED BY <2>2, <3>2, <3>4, <3>5, <5>1, <5>2, <5>3
      <4> QED BY <4>1, <4>2
    <3>7. Stack(frames', FALSE) /\ frames' # <<>> /\ ~Tokens(frames')
      BY <1>1, <2>1, IdleFrames, IdlePush
    <3>8. console_name' = build_mode_console_name(up, value_holder')
      BY <2>1, <2>4
    <3> HIDE DEF up, rewound
    <3>9. console_name' \in NameType
      BY <3>2, <3>3, <3>8, NameIs
    <3>10. Shown(frames', up, console_name', value_holder')
      BY <3>2, <3>8 DEF Shown
    <3>11. Holds(frames', FALSE, up, tlv_buff', value_holder', stale', mixed')
      BY <3>6, <3>7 DEF Holds
    <3>12. Deeper(frames', up)
      BY <3>7 DEF Deeper
    <3> QED BY <1>2, <2>1, <3>2, <3>3, <3>6, <3>7, <3>9, <3>10, <3>11, <3>12
            DEF IInv, Kinds
  <2> QED BY <2>3, <2>4
<1> QED BY <1>3, <1>4, <1>5

\* cd takes the cursor to the root and empties the buffer.
LEMMA GoToTopStep ==
  ASSUME IInv, GoToTop
  PROVE  IInv' /\ call' = NULL
<1> DEFINE c == cmd_tree_cursor
<1>1. Line
  BY DEF GoToTop
<1>2. reading /\ call' = NULL
  BY <1>1, LineState
<1>3. CASE c = do_hook
  <2>1. Crash("NULL parent followed")
    BY <1>3, TreeAssumption DEF GoToTop
  <2> QED BY <1>2, <2>1, CrashStep
<1>4. CASE c # do_hook /\ c \in NoCmd
  <2>1. Crash("no cleared as a leaf")
    BY <1>4 DEF GoToTop
  <2> QED BY <1>2, <2>1, CrashStep
<1>5. CASE c # do_hook /\ c \notin NoCmd
  <2>1. /\ value_holder' = [l \in Leaf \cup NoCmd |->
                    IF l \in ToSet(path[c]) THEN NULL ELSE value_holder[l]]
        /\ cmd_tree_cursor' = root /\ console_name' = <<>>
        /\ IF c = root THEN tlv_buff' = tlv_buff /\ stale' = stale /\ mixed' = mixed
           ELSE Emptied(root)
        /\ Push(Finishing) /\ reading' = FALSE
    BY <1>5 DEF GoToTop, spoilt
  <2>2. /\ value_holder \in Values /\ Sound(tlv_buff)
        /\ stale \in BOOLEAN /\ mixed \in BOOLEAN
    BY DEF IInv, Kinds
  <2>3. root \in Param /\ root \in Tops /\ root # do_hook
    BY TreeAssumption DEF Tops
  <2>4. value_holder' \in Values
    BY <2>1, <2>2 DEF Values
  <2>5. Stack(frames', FALSE) /\ frames' # <<>> /\ ~Tokens(frames')
    BY <1>1, <2>1, IdleFrames, IdlePush
  <2>6. Tlvs(value_holder', root) = <<>> /\ Tlvs(value_holder, root) = <<>>
    BY <2>3, TlvsTop
  <2>7. /\ Sound(tlv_buff') /\ stale' \in BOOLEAN /\ mixed' \in BOOLEAN
        /\ ~stale' => Kept(tlv_buff') = <<>>
    <3>1. CASE c = root
      BY <2>1, <2>2, <2>6, <3>1 DEF IInv, Holds
    <3>2. CASE c # root
      BY <2>1, <2>3, <3>2, EmptiedIs
    <3> QED BY <3>1, <3>2
  <2>8. console_name' \in NameType
    BY <2>1, EmptyInSeq DEF NameType
  <2>9. Shown(frames', root, console_name', value_holder')
    BY <2>1, <2>3, NameOfRoot DEF Shown
  <2>10. Holds(frames', FALSE, root, tlv_buff', value_holder', stale', mixed')
    BY <2>5, <2>6, <2>7 DEF Holds
  <2>11. Deeper(frames', root)
    BY <2>5 DEF Deeper
  <2> QED BY <1>2, <2>1, <2>2, <2>3, <2>4, <2>5, <2>7, <2>8, <2>9, <2>10, <2>11
          DEF IInv, Kinds
<1> QED BY <1>3, <1>4, <1>5

-----------------------------------------------------------------------------
(* The steps at a token.                                                   *)

\* The call after the token q, and after the line has ended.
MovedOn(g, q, o) == [g EXCEPT !.param = q, !.op = o]
LeftOff(g, pc) == [g EXCEPT !.pc = pc, !.param = NULL, !.op = "unknown"]

\* What an update of several fields leaves of a frame.
LEMMA TokenFrame ==
  ASSUME NEW g \in Frame, NEW q \in Param, NEW o \in {"unknown", "disable"},
         NEW f, f = MovedOn(g, q, o)
  PROVE  f \in Frame /\ f.kind = g.kind /\ f.old = g.old /\ f.pc = g.pc /\ f.param = q
<1>1. f = [[g EXCEPT !.param = q] EXCEPT !.op = o]
  BY Zenon DEF MovedOn
<1>2. PICK h : h = [g EXCEPT !.param = q]
  OBVIOUS
<1>3. /\ h \in Frame /\ h.kind = g.kind /\ h.old = g.old /\ h.pc = g.pc
      /\ h.param = q
  BY <1>2 DEF Frame
<1>4. f = [h EXCEPT !.op = o]
  BY <1>1, <1>2
<1> QED BY <1>3, <1>4 DEF Frame

\* A call that stops reading tokens keeps its kind and its place.
LEMMA LeftFrame ==
  ASSUME NEW g \in Frame, NEW pc \in {"tail", "history", "repeat"},
         NEW f, f = LeftOff(g, pc)
  PROVE  f \in Frame /\ f.kind = g.kind /\ f.old = g.old /\ f.pc = pc
<1>1. f = [[[g EXCEPT !.pc = pc] EXCEPT !.param = NULL] EXCEPT !.op = "unknown"]
  BY Zenon DEF LeftOff
<1>2. PICK h : h = [g EXCEPT !.pc = pc]
  OBVIOUS
<1>3. h \in Frame /\ h.kind = g.kind /\ h.old = g.old /\ h.pc = pc
  BY <1>2 DEF Frame
<1>4. PICK k : k = [h EXCEPT !.param = NULL]
  OBVIOUS
<1>5. k \in Frame /\ k.kind = g.kind /\ k.old = g.old /\ k.pc = pc
  BY <1>3, <1>4 DEF Frame
<1>6. f = [k EXCEPT !.op = "unknown"]
  BY <1>1, <1>2, <1>4
<1> QED BY <1>5, <1>6 DEF Frame

\* What the invariant says of a call that reads tokens.
LEMMA ParseState ==
  ASSUME IInv, Parse
  PROVE  /\ reading = FALSE /\ frames # <<>> /\ Stack(frames, FALSE) /\ Tokens(frames)
         /\ top = frames[Len(frames)] /\ top \in Frame /\ top.pc = "tokens"
         /\ top.param \in Param /\ Below(top.param, cmd_tree_cursor)
         /\ ~stale /\ ~mixed => tlv_buff.b = Tlvs(value_holder, top.param)
         /\ Ends(tlv_buff.b, value_holder, cmd_tree_cursor, top.param)
<1>1. reading = FALSE /\ frames # <<>> /\ top = frames[Len(frames)] /\ top.pc = "tokens"
  BY DEF Parse, IInv, Kinds, top
<1>2. Stack(frames, FALSE) /\ Tokens(frames)
  BY <1>1 DEF IInv, Tokens
<1>3. top \in Frame /\ top.param \in Param
  BY <1>1, <1>2, LastFrame
<1> QED BY <1>1, <1>2, <1>3 DEF IInv, Deeper, Holds

\* The walk goes on to q.
LEMMA NextToken ==
  ASSUME IInv, Parse, NEW f \in Frame, f.kind = top.kind, f.old = top.old,
         f.pc = "tokens", f.param \in Param, SetTop(f)
  PROVE  Started(frames', f.param) /\ Carries(frames, frames')
<1>1. /\ frames # <<>> /\ Stack(frames, FALSE) /\ Tokens(frames)
      /\ top = frames[Len(frames)] /\ top.pc = "tokens"
  BY ParseState
<1>2. frames' = SetLast(frames, f)
  BY DEF SetTop, SetLast
<1>3. /\ Stack(frames', FALSE) /\ frames' # <<>> /\ frames'[Len(frames')] = f
      /\ Carries(frames, frames')
  <2>1. f.kind = frames[Len(frames)].kind /\ f.old = frames[Len(frames)].old
    BY <1>1
  <2>2. f.pc = "tokens" => ~FALSE /\ f.param \in Param
    OBVIOUS
  <2> QED BY <1>1, <1>2, <2>1, <2>2, SetFrame, Zenon
<1> QED BY <1>1, <1>3 DEF Started, Tokens

\* A word of the line.
LEMMA WordStep ==
  ASSUME IInv, Word
  PROVE  IInv' /\ call' = NULL
<1> DEFINE c == cmd_tree_cursor
<1>1. PICK q \in options(top.param) \ Leaf :
         SetTop([top EXCEPT !.param = q,
                            !.op = IF q \in NoCmd THEN "disable" ELSE @])
  BY DEF Word
<1>2. /\ Parse /\ call' = NULL
      /\ cmd_tree_cursor' = c /\ console_name' = console_name /\ reading' = reading
      /\ tlv_buff' = tlv_buff /\ value_holder' = value_holder
      /\ stale' = stale /\ mixed' = mixed
  BY DEF Word, cli, spoilt
<1>3. /\ reading = FALSE /\ top \in Frame /\ top.pc = "tokens"
      /\ top.param \in Param /\ Below(top.param, c)
      /\ ~stale /\ ~mixed => tlv_buff.b = Tlvs(value_holder, top.param)
      /\ Ends(tlv_buff.b, value_holder, c, top.param)
  BY <1>2, ParseState
<1>4. q \in Param
  BY <1>3, OptionPlace
<1>5. PICK o \in {"unknown", "disable"} :
         SetTop(MovedOn(top, q, o))
  <2>1. (IF q \in NoCmd THEN "disable" ELSE top.op) \in {"unknown", "disable"}
    BY <1>3 DEF Frame
  <2> QED BY <1>1, <2>1 DEF MovedOn
<1>6. PICK f : f = MovedOn(top, q, o)
  OBVIOUS
<1>7. /\ f \in Frame /\ f.kind = top.kind /\ f.old = top.old /\ f.pc = "tokens"
      /\ f.param = q
  <2>1. f \in Frame /\ f.kind = top.kind /\ f.old = top.old /\ f.pc = top.pc
        /\ f.param = q
    BY <1>3, <1>4, <1>6, TokenFrame, SMTT(30)
  <2> QED BY <1>3, <2>1
<1>8. Started(frames', q) /\ Carries(frames, frames')
  BY <1>2, <1>4, <1>5, <1>6, <1>7, NextToken
<1>9. c \in Param
  BY DEF IInv, Kinds
<1>10. Deeper(frames', c)
  BY <1>3, <1>8, <1>9, OptionBelow DEF Deeper, Started
<1>11. Shown(frames', c, console_name, value_holder)
  BY <1>8, ShownCarries DEF IInv
<1>12. Tlvs(value_holder, q) = Tlvs(value_holder, top.param)
  <2>1. q \in Param \ Tops /\ q \notin Leaf
    BY <1>1, <1>3, OptionPlace
  <2>2. Tlvs(value_holder, parent[q]) = Tlvs(value_holder, top.param)
    BY <1>3, OptionTlvs
  <2> QED BY <2>1, <2>2, TlvsBelow
<1>13. Ends(tlv_buff.b, value_holder, c, q)
  BY <1>3, <1>4, <1>9, <1>12, EndsWord DEF IInv, Kinds
<1>14. Holds(frames', FALSE, c, tlv_buff, value_holder, stale, mixed)
  BY <1>3, <1>8, <1>12, <1>13 DEF IInv, Holds, Started
<1> QED BY <1>2, <1>3, <1>8, <1>10, <1>11, <1>14 DEF IInv, Kinds, Started

\* A value in the line: collected as the TLV of its leaf.
LEMMA LeafValueStep ==
  ASSUME IInv, LeafValue
  PROVE  IInv' /\ call' = NULL
<1> DEFINE c == cmd_tree_cursor
<1>1. PICK l \in options(top.param) \cap Leaf, v \in Value :
         /\ SetTop([top EXCEPT !.param = l])
         /\ value_holder' = [value_holder EXCEPT ![l] = v]
         /\ tlv_buff' = collect_tlv(tlv_buff, [id |-> l, val |-> v])
  BY DEF LeafValue
<1>2. /\ Parse /\ call' = NULL
      /\ cmd_tree_cursor' = c /\ console_name' = console_name /\ reading' = reading
      /\ stale' = stale /\ mixed' = mixed
  BY DEF LeafValue, cli, spoilt
<1>3. /\ reading = FALSE /\ top \in Frame /\ top.pc = "tokens"
      /\ top.param \in Param /\ Below(top.param, c)
      /\ ~stale /\ ~mixed => tlv_buff.b = Tlvs(value_holder, top.param)
      /\ Ends(tlv_buff.b, value_holder, c, top.param)
  BY <1>2, ParseState
<1>4. l \in Param \ Tops
  BY <1>3, OptionPlace
<1>5. PICK f : f = [top EXCEPT !.param = l]
  OBVIOUS
<1>6. /\ f \in Frame /\ f.kind = top.kind /\ f.old = top.old /\ f.pc = "tokens"
      /\ f.param = l
  BY <1>3, <1>4, <1>5 DEF Frame
<1>7. Started(frames', l) /\ Carries(frames, frames')
  BY <1>1, <1>2, <1>4, <1>5, <1>6, NextToken
<1>8. c \in Param /\ value_holder \in Values /\ Sound(tlv_buff)
  BY DEF IInv, Kinds
<1>9. Deeper(frames', c)
  BY <1>3, <1>7, <1>8, OptionBelow DEF Deeper, Started
<1>10. /\ value_holder' \in Values /\ value_holder'[l] = v
       /\ \A m : m # l => value_holder'[m] = value_holder[m]
  BY <1>1, <1>8 DEF Values
<1>11. /\ c # do_hook => ~OnPath(l, c)
       /\ c = do_hook => \A o : Back(o) => ~OnPath(l, o)
  BY <1>3, <1>8, OptionNotOnPath
<1>12. Shown(frames', c, console_name, value_holder')
  <2>1. Shown(frames', c, console_name, value_holder)
    BY <1>7, ShownCarries DEF IInv
  <2>2. CASE c = do_hook
    <3>1. PICK o : /\ DoBack(frames', o)
                   /\ console_name = build_mode_console_name(o, value_holder)
      BY <2>1, <2>2 DEF Shown
    <3>2. Back(o)
      BY <1>7, <3>1 DEF DoBack, LastDo, Started, Stack
    <3>3. \A m : OnPath(m, o) => value_holder'[m] = value_holder[m]
      BY <1>10, <1>11, <2>2, <3>2
    <3>4. console_name = build_mode_console_name(o, value_holder')
      BY <3>1, <3>3, NameSame
    <3> QED BY <2>2, <3>1, <3>4 DEF Shown
  <2>3. CASE c # do_hook
    <3>1. \A m : OnPath(m, c) => value_holder'[m] = value_holder[m]
      BY <1>10, <1>11, <2>3
    <3>2. build_mode_console_name(c, value_holder')
            = build_mode_console_name(c, value_holder)
      BY <3>1, NameSame
    <3> QED BY <2>1, <2>3, <3>2 DEF Shown
  <2> QED BY <2>2, <2>3
<1>13. [id |-> l, val |-> v] \in Tlv
  BY DEF Tlv
<1>14. /\ Sound(tlv_buff') /\ Kept(tlv_buff') = Kept(tlv_buff)
       /\ tlv_buff'.b = Append(tlv_buff.b, [id |-> l, val |-> v])
  BY <1>1, <1>8, <1>13, SoundCollect
<1>15. Tlvs(value_holder', c) = Tlvs(value_holder, c)
  <2>1. CASE c = do_hook
    BY <2>1, TlvsTop DEF Tops
  <2>2. CASE c # do_hook
    <3>1. \A m \in Leaf : OnPath(m, c) => value_holder'[m] = value_holder[m]
      BY <1>10, <1>11, <2>2
    <3> QED BY <1>8, <3>1, TlvsSame
  <2> QED BY <2>1, <2>2
<1>16. Tlvs(value_holder', l)
         = Append(Tlvs(value_holder, top.param), [id |-> l, val |-> v])
  <2>1. \A m \in Leaf : OnPath(m, parent[l]) => value_holder'[m] = value_holder[m]
    BY <1>4, <1>10, NotAbove
  <2>2. Tlvs(value_holder', parent[l]) = Tlvs(value_holder, parent[l])
    BY <1>4, <2>1, PathBelow, TlvsSame
  <2>3. Tlvs(value_holder', l)
          = Append(Tlvs(value_holder', parent[l]), [id |-> l, val |-> value_holder'[l]])
    BY <1>4, TlvsBelow
  <2>4. Tlvs(value_holder, parent[l]) = Tlvs(value_holder, top.param)
    BY <1>3, OptionTlvs
  <2> QED BY <1>10, <2>2, <2>3, <2>4
<1>17. Ends(tlv_buff'.b, value_holder', c, l)
  <2>1. tlv_buff.b \in Seq(Tlv)
    BY <1>8 DEF Sound, Buf
  <2> QED BY <1>3, <1>4, <1>8, <1>10, <1>13, <1>14, <1>16, <2>1, EndsLeaf
<1>18. Holds(frames', FALSE, c, tlv_buff', value_holder', stale, mixed)
  BY <1>3, <1>7, <1>14, <1>15, <1>16, <1>17 DEF IInv, Holds, Started
<1> QED BY <1>2, <1>3, <1>7, <1>8, <1>9, <1>10, <1>12, <1>14, <1>18
        DEF IInv, Kinds, Started

-----------------------------------------------------------------------------
(* The steps at the end of a line.                                         *)

\* The last call reads no more tokens.
Ended(s, t, w) ==
    w \in BOOLEAN /\ Stack(t, w) /\ t # <<>> /\ ~Tokens(t) /\ Carries(s, t)

\* A call that stops reading tokens has ended its line.
LEMMA LeaveEnds ==
  ASSUME IInv, frames # <<>>, NEW pc \in {"tail", "history", "repeat"},
         Leave(pc), reading' \in BOOLEAN
  PROVE  Ended(frames, frames', reading')
<1>1. PICK f : f = LeftOff(top, pc)
  OBVIOUS
<1>2. PICK w \in BOOLEAN : w = reading'
  OBVIOUS
<1>3. Stack(frames, reading) /\ top = frames[Len(frames)]
  BY DEF IInv, top
<1>4. top \in Frame
  BY <1>3, LastFrame
<1>5. f \in Frame /\ f.kind = top.kind /\ f.old = top.old /\ f.pc = pc
  BY <1>1, <1>4, LeftFrame
<1>6. frames' = SetLast(frames, f)
  BY <1>1 DEF Leave, SetTop, SetLast, LeftOff
<1>7. f.pc # "tokens"
  BY <1>5
<1>8. f.kind = frames[Len(frames)].kind /\ f.old = frames[Len(frames)].old
  BY <1>3, <1>5
<1>9. /\ Stack(frames', w) /\ frames' # <<>> /\ frames'[Len(frames')] = f
      /\ Carries(frames, frames')
  BY <1>3, <1>5, <1>6, <1>7, <1>8, SetFrame
<1> QED BY <1>2, <1>7, <1>9 DEF Ended, Tokens

\* The command ends in the mode it began in: if it goes on with a line, what is
\* kept is all there is, or it is mixed.
LEMMA SameMode ==
  ASSUME IInv, Ended(frames, frames', reading'), UNCHANGED <<cli, value_holder>>,
         Sound(tlv_buff'), Kept(tlv_buff') = Kept(tlv_buff),
         stale' = stale, mixed' \in BOOLEAN,
         ~stale /\ ~mixed' /\ reading' => tlv_buff'.checkpoint = Len(tlv_buff'.b)
  PROVE  IInv'
<1>1. /\ cmd_tree_cursor' = cmd_tree_cursor /\ console_name' = console_name
      /\ value_holder' = value_holder
  BY DEF cli
<1>2. Shown(frames', cmd_tree_cursor, console_name, value_holder)
  BY ShownCarries DEF IInv, Ended
<1>3. Holds(frames', reading', cmd_tree_cursor, tlv_buff', value_holder, stale, mixed')
  BY DEF IInv, Ended, Holds
<1> QED BY <1>1, <1>2, <1>3 DEF IInv, Kinds, Deeper, Ended

\* The command ends in the mode of p.
LEMMA NewMode ==
  ASSUME IInv, Ended(frames, frames', reading'), NEW p \in Param \ {do_hook},
         EnterMode(p), value_holder' = value_holder, Sound(tlv_buff'),
         stale' \in BOOLEAN, ~stale' => Kept(tlv_buff') = Tlvs(value_holder, p),
         mixed' \in BOOLEAN, reading' => mixed'
  PROVE  IInv'
<1>1. /\ cmd_tree_cursor' = p
      /\ console_name' = build_mode_console_name(p, value_holder)
  BY DEF EnterMode
<1>2. value_holder \in Values
  BY DEF IInv, Kinds
<1>3. console_name' \in NameType
  BY <1>1, <1>2, NameIs
<1>4. Shown(frames', p, console_name', value_holder)
  BY <1>1 DEF Shown
<1>5. Holds(frames', reading', p, tlv_buff', value_holder, stale', mixed')
  BY DEF Ended, Holds
<1> QED BY <1>1, <1>2, <1>3, <1>4, <1>5 DEF IInv, Kinds, Deeper, Ended

\* The record of a call of p's handler with b.
Called(p, b, op) ==
    [param |-> p, tlvs |-> b, op |-> op, from |-> cmd_tree_cursor,
     exact |-> ~stale /\ ~mixed]

\* What a call of a handler leaves: if it asks for a line, the buffer is mixed.
LEMMA InvokeEnds ==
  ASSUME IInv, Parse, NEW p, NEW buf, NEW op, Invoke(p, buf, op)
  PROVE  /\ Ended(frames, frames', reading')
         /\ mixed' \in BOOLEAN /\ (reading' => mixed')
         /\ call' = Called(p, buf.b, op)
         /\ tlv_buff' = IF p = config THEN mark_checkpoint_serialize_buffer(buf)
                        ELSE buf
<1>1. reading = FALSE /\ frames # <<>>
  BY ParseState
<1>2. mixed' = (mixed \/ p \in History) /\ mixed \in BOOLEAN
  BY DEF Invoke, IInv, Kinds
<1>3. PICK pc \in {"tail", "history", "repeat"} :
         Leave(pc) /\ reading' \in BOOLEAN /\ (reading' => p \in History)
  <2>1. CASE p \in History
    BY <2>1 DEF Invoke
  <2>2. CASE p \notin History
    BY <1>1, <2>2 DEF Invoke
  <2> QED BY <2>1, <2>2
<1>4. Ended(frames, frames', reading')
  BY <1>1, <1>3, LeaveEnds
<1> QED BY <1>2, <1>3, <1>4 DEF Invoke, Called

\* A step that calls no handler shows it nothing wrong.
LEMMA NoCall ==
  ASSUME call' = NULL
  PROVE  HandlerSeesPath'
  BY DEF HandlerSeesPath

\* What the handler of p must be given in b, in a line begun at c.
Sees(b, vh, c, p, exact) ==
    \E tail \in Tails(p) :
       /\ EndsWith(b, Own(vh, c, p) \o tail)
       /\ exact => b = Tlvs(vh, p) \o tail

\* A handler that is given what Sees says sees its path.
LEMMA HandlerCall ==
  ASSUME NEW p, NEW b, NEW op, call' = Called(p, b, op),
         value_holder' = value_holder,
         Sees(b, value_holder, cmd_tree_cursor, p, ~stale /\ ~mixed)
  PROVE  HandlerSeesPath'
<1>1. /\ call'.param = p /\ call'.tlvs = b /\ call'.from = cmd_tree_cursor
      /\ call'.exact = (~stale /\ ~mixed)
  BY DEF Called
<1>2. LeafTlvs(call.param)' = Tlvs(value_holder, p)
  BY <1>1 DEF LeafTlvs, LeafTlv, Tlvs
<1>3. PICK tail \in Tails(p) :
         /\ EndsWith(b, Own(value_holder, cmd_tree_cursor, p) \o tail)
         /\ ~stale /\ ~mixed => b = Tlvs(value_holder, p) \o tail
  BY DEF Sees
<1> QED BY <1>1, <1>2, <1>3 DEF HandlerSeesPath, Own

\* A sequence and one cell more.
LEMMA AppendIs ==
  ASSUME NEW S, NEW s \in Seq(S), NEW x \in S
  PROVE  Append(s, x) = s \o <<x>>
  OBVIOUS

\* The handler of p is given what was collected, and the command code.
LEMMA SeesCode ==
  ASSUME NEW b \in Seq(Tlv), NEW vh \in Values, NEW c \in Param, NEW p \in Param,
         Ends(b, vh, c, p), NEW exact, exact => b = Tlvs(vh, p)
  PROVE  Sees(Append(b, CodeTlv(p)), vh, c, p, exact)
<1> DEFINE code == CodeTlv(p)
           own == Own(vh, c, p)
           all == Tlvs(vh, p)
<1>1. code \in Tlv
  BY DEF Tlv
<1>2. own \in Seq(Tlv) /\ all \in Seq(Tlv)
  BY OwnType, TlvsType
<1>3. EndsWith(b, own)
  BY DEF Ends
<1>4. <<code>> \in Tails(p)
  BY DEF Tails
<1> HIDE DEF code, own, all
<1>5. EndsWith(Append(b, code), Append(own, code))
  BY <1>1, <1>2, <1>3, EndsWithMore
<1>6. Append(own, code) = own \o <<code>> /\ Append(all, code) = all \o <<code>>
  BY <1>1, <1>2, AppendIs
<1>7. EndsWith(Append(b, code), own \o <<code>>)
  BY <1>5, <1>6
<1>8. exact => Append(b, code) = all \o <<code>>
  BY <1>6 DEF all
<1> QED BY <1>4, <1>7, <1>8 DEF Sees, code, own, all

\* Or "brief" and the code.
LEMMA SeesBrief ==
  ASSUME NEW b \in Seq(Tlv), NEW vh \in Values, NEW c \in Param, NEW p \in Param,
         Ends(b, vh, c, p), NEW exact, exact => b = Tlvs(vh, p)
  PROVE  Sees(Append(Append(b, BriefTlv), CodeTlv(p)), vh, c, p, exact)
<1> DEFINE code == CodeTlv(p)
           brief == BriefTlv
           own == Own(vh, c, p)
           all == Tlvs(vh, p)
<1>1. code \in Tlv /\ brief \in Tlv
  BY DEF Tlv
<1>2. own \in Seq(Tlv) /\ all \in Seq(Tlv)
  BY OwnType, TlvsType
<1>3. EndsWith(b, own)
  BY DEF Ends
<1>4. <<brief, code>> \in Tails(p)
  BY DEF Tails
<1> HIDE DEF code, brief, own, all
<1>5. EndsWith(Append(b, brief), Append(own, brief))
  BY <1>1, <1>2, <1>3, EndsWithMore
<1>6. EndsWith(Append(Append(b, brief), code), Append(Append(own, brief), code))
  <2>1. Append(b, brief) \in Seq(Tlv) /\ Append(own, brief) \in Seq(Tlv)
    BY <1>1, <1>2
  <2> QED BY <1>1, <1>5, <2>1, EndsWithMore
<1>7. ASSUME NEW s \in Seq(Tlv)
      PROVE  Append(Append(s, brief), code) = s \o <<brief, code>>
  BY <1>1
<1>8. EndsWith(Append(Append(b, brief), code), own \o <<brief, code>>)
  BY <1>2, <1>6, <1>7
<1>9. exact => Append(Append(b, brief), code) = all \o <<brief, code>>
  BY <1>2, <1>7 DEF all
<1> QED BY <1>4, <1>8, <1>9 DEF Sees, code, brief, own, all

\* config's own is given what was collected.
LEMMA SeesConfig ==
  ASSUME NEW b \in Seq(Tlv), NEW vh \in Values, NEW c \in Param, config \in Param,
         Ends(b, vh, c, config), NEW exact, exact => b = Tlvs(vh, config)
  PROVE  Sees(b, vh, c, config, exact)
<1>1. <<>> \in Tails(config)
  BY DEF Tails
<1>2. ASSUME NEW s \in Seq(Tlv)
      PROVE  s \o <<>> = s
  OBVIOUS
<1>3. Own(vh, c, config) \o <<>> = Own(vh, c, config)
  BY <1>2, OwnType
<1>4. Tlvs(vh, config) \o <<>> = Tlvs(vh, config)
  BY <1>2, TlvsType
<1> QED BY <1>1, <1>3, <1>4 DEF Sees, Ends

\* A line that ends without a handler called and the mode left as it is.
LEMMA Nothing ==
  ASSUME IInv, frames # <<>>, reading = FALSE, Leave("tail"), reading' = reading,
         UNCHANGED <<cli, tlv_buff, value_holder, spoilt>>
  PROVE  IInv'
<1>1. /\ tlv_buff' = tlv_buff /\ stale' = stale /\ mixed' = mixed /\ reading' = FALSE
      /\ UNCHANGED <<cli, value_holder>>
  BY DEF spoilt
<1>2. Ended(frames, frames', reading')
  <2>1. PICK pc \in {"tail", "history", "repeat"} : pc = "tail"
    OBVIOUS
  <2> QED BY <1>1, <2>1, LeaveEnds
<1>3. Sound(tlv_buff) /\ mixed \in BOOLEAN
  BY DEF IInv, Kinds
<1> QED BY <1>1, <1>2, <1>3, SameMode

\* A line that is not understood.
LEMMA IncompleteEnds ==
  ASSUME IInv, Parse, Incomplete
  PROVE  IInv'
<1>1. reading = FALSE /\ frames # <<>>
  BY ParseState
<1>2. CASE InScript(Len(frames))
  BY <1>2, CrashStep DEF Incomplete
<1>3. CASE ~InScript(Len(frames))
  BY <1>1, <1>3, Nothing DEF Incomplete
<1> QED BY <1>2, <1>3

\* A word that is not offered.
LEMMA RefusedStep ==
  ASSUME IInv, Refused
  PROVE  IInv' /\ call' = NULL
  BY IncompleteEnds DEF Refused

\* A line ends: its parameter has a handler, which is called, or is incomplete.
LEMMA EndOfLineStep ==
  ASSUME IInv, EndOfLine
  PROVE  IInv' /\ HandlerSeesPath'
<1> DEFINE c == cmd_tree_cursor
           p == top.param
           code == CodeTlv(p)
           b == tlv_buff.b
<1>1. Parse
  BY DEF EndOfLine
<1>2. /\ p \in Param /\ (~stale /\ ~mixed => b = Tlvs(value_holder, p))
      /\ Ends(b, value_holder, c, p)
  BY <1>1, ParseState
<1>3. /\ Sound(tlv_buff) /\ value_holder \in Values /\ stale \in BOOLEAN
      /\ mixed \in BOOLEAN /\ c \in Param /\ b \in Seq(Tlv)
  BY DEF IInv, Kinds, Sound, Buf
<1>4. CASE p \notin Handler
  <2>1. call' = NULL /\ Incomplete
    BY <1>4 DEF EndOfLine
  <2> QED BY <1>1, <2>1, IncompleteEnds, NoCall
<1>5. CASE p \in Handler /\ p # config
  <2> DEFINE buf == collect_tlv(tlv_buff, code)
  <2>1. /\ Invoke(p, buf, Op(p)) /\ UNCHANGED cli
        /\ stale' = stale /\ value_holder' = value_holder
    BY <1>3, <1>5 DEF EndOfLine
  <2>2. code \in Tlv
    BY <1>2 DEF Tlv
  <2>3. Sound(buf) /\ buf.b = Append(b, code) /\ Kept(buf) = Kept(tlv_buff)
    BY <1>3, <2>2, SoundCollect
  <2> HIDE DEF buf, code, p, b
  <2>4. /\ Ended(frames, frames', reading')
        /\ mixed' \in BOOLEAN /\ (reading' => mixed')
        /\ call' = Called(p, buf.b, Op(p))
        /\ tlv_buff' = buf
    BY <1>1, <1>5, <2>1, InvokeEnds
  <2>5. IInv'
    BY <2>1, <2>3, <2>4, SameMode
  <2>6. Sees(buf.b, value_holder, c, p, ~stale /\ ~mixed)
    BY <1>2, <1>3, <2>3, SeesCode DEF code
  <2>7. HandlerSeesPath'
    BY <2>1, <2>4, <2>6, HandlerCall
  <2> QED BY <2>5, <2>7
<1>6. CASE p \in Handler /\ p = config
  <2>1. /\ Invoke(config, tlv_buff, Op(config)) /\ EnterMode(config)
        /\ stale' = (stale \/ mixed) /\ value_holder' = value_holder
    BY <1>6 DEF EndOfLine
  <2>2. config \in Param \ {do_hook}
    BY TreeAssumption
  <2>3. /\ Ended(frames, frames', reading')
        /\ mixed' \in BOOLEAN /\ (reading' => mixed')
        /\ call' = Called(config, b, Op(config))
        /\ tlv_buff' = mark_checkpoint_serialize_buffer(tlv_buff)
    BY <1>1, <2>1, InvokeEnds
  <2>4. Sound(tlv_buff') /\ Kept(tlv_buff') = b
    BY <1>3, <2>3, SoundMark
  <2>5. stale' \in BOOLEAN /\ (~stale' => ~stale /\ ~mixed)
    BY <1>3, <2>1
  <2> HIDE DEF b
  <2>6. IInv'
    BY <1>2, <1>6, <2>1, <2>2, <2>3, <2>4, <2>5, NewMode
  <2>7. Sees(b, value_holder, c, config, ~stale /\ ~mixed)
    BY <1>2, <1>3, <1>6, <2>2, SeesConfig
  <2>8. HandlerSeesPath'
    BY <2>1, <2>3, <2>7, HandlerCall
  <2> QED BY <2>6, <2>8
<1> QED BY <1>4, <1>5, <1>6

\* "repeat" in a file, at the root: nothing was collected, so that the line it
\* runs finds the buffer as it should be.
LEMMA RepeatLineStep ==
  ASSUME IInv, RepeatLine
  PROVE  IInv' /\ call' = NULL
<1>1. /\ Parse /\ call' = NULL /\ top.param = root /\ Leave("repeat")
      /\ reading' = TRUE /\ UNCHANGED <<cli, value_holder>>
      /\ tlv_buff' = tlv_buff /\ stale' = stale /\ mixed' = mixed
  BY DEF RepeatLine, spoilt
<1>2. /\ frames # <<>>
      /\ ~stale /\ ~mixed => tlv_buff.b = Tlvs(value_holder, root)
  BY <1>1, ParseState
<1>3. Sound(tlv_buff) /\ mixed \in BOOLEAN
  BY DEF IInv, Kinds
<1>4. ~stale /\ ~mixed => tlv_buff.checkpoint = Len(tlv_buff.b)
  <2>1. Tlvs(value_holder, root) = <<>>
    BY TlvsTop DEF Tops
  <2> QED BY <1>2, <1>3, <2>1 DEF Sound, Buf
<1>5. Ended(frames, frames', reading')
  <2>1. PICK pc \in {"tail", "history", "repeat"} : pc = "repeat"
    OBVIOUS
  <2> QED BY <1>1, <1>2, <2>1, LeaveEnds
<1>6. IInv'
  BY <1>1, <1>3, <1>4, <1>5, SameMode
<1> QED BY <1>1, <1>6

\* "brief" after a command.
LEMMA EndWithBriefStep ==
  ASSUME IInv, EndWithBrief
  PROVE  IInv' /\ HandlerSeesPath'
<1> DEFINE c == cmd_tree_cursor
           p == top.param
           code == CodeTlv(p)
           b == tlv_buff.b
           buf == collect_tlv(tlv_buff, BriefTlv)
           full == collect_tlv(buf, code)
<1>1. /\ Parse /\ p \in Brief /\ Invoke(p, full, "operational")
      /\ UNCHANGED cli /\ value_holder' = value_holder /\ stale' = stale
  BY DEF EndWithBrief
<1>2. /\ p \in Param /\ (~stale /\ ~mixed => b = Tlvs(value_holder, p))
      /\ Ends(b, value_holder, c, p)
  BY <1>1, ParseState
<1>3. Sound(tlv_buff) /\ value_holder \in Values /\ c \in Param /\ b \in Seq(Tlv)
  BY DEF IInv, Kinds, Sound, Buf
<1>4. p # config
  BY <1>1, TreeAssumption
<1>5. code \in Tlv /\ BriefTlv \in Tlv
  BY <1>2 DEF Tlv
<1>6. Sound(buf) /\ buf.b = Append(b, BriefTlv) /\ Kept(buf) = Kept(tlv_buff)
  BY <1>3, <1>5, SoundCollect
<1> HIDE DEF buf
<1>7. Sound(full) /\ full.b = Append(buf.b, code) /\ Kept(full) = Kept(buf)
  BY <1>5, <1>6, SoundCollect
<1> HIDE DEF full, code, p, b
<1>8. /\ Ended(frames, frames', reading')
      /\ mixed' \in BOOLEAN /\ (reading' => mixed')
      /\ call' = Called(p, full.b, "operational")
      /\ tlv_buff' = full
  BY <1>1, <1>4, InvokeEnds
<1>9. IInv'
  BY <1>1, <1>6, <1>7, <1>8, SameMode
<1>10. Sees(full.b, value_holder, c, p, ~stale /\ ~mixed)
  BY <1>2, <1>3, <1>6, <1>7, SeesBrief DEF code
<1>11. HandlerSeesPath'
  BY <1>1, <1>8, <1>10, HandlerCall
<1> QED BY <1>9, <1>11

\* Only do_hook of the parameters of the root has nothing below it.
LEMMA ModeIsNotDoHook ==
  ASSUME NEW p \in Param, HasMode(p)
  PROVE  p # do_hook
  BY TreeAssumption, DoHookAssumption DEF HasMode, Children

\* A mode is entered: the leaves are marked before the handler is called.
LEMMA EndWithModeStep ==
  ASSUME IInv, EndWithMode
  PROVE  IInv' /\ HandlerSeesPath'
<1> DEFINE c == cmd_tree_cursor
           p == top.param
           code == CodeTlv(p)
           b == tlv_buff.b
           marked == mark_checkpoint_serialize_buffer(tlv_buff)
           buf == MarkAndCode(p)
<1>1. Parse /\ HasMode(p)
  BY DEF EndWithMode
<1>2. /\ p \in Param /\ (~stale /\ ~mixed => b = Tlvs(value_holder, p))
      /\ Ends(b, value_holder, c, p)
      /\ reading = FALSE /\ frames # <<>>
  BY <1>1, ParseState
<1>3. /\ Sound(tlv_buff) /\ value_holder \in Values /\ stale \in BOOLEAN
      /\ mixed \in BOOLEAN /\ c \in Param /\ b \in Seq(Tlv)
  BY DEF IInv, Kinds, Sound, Buf
<1>4. CASE p = root
  BY <1>4, CrashStep, NoCall DEF EndWithMode
<1>5. CASE p # root
  <2>1. /\ EnterMode(p) /\ value_holder' = value_holder
        /\ stale' = (stale \/ mixed \/ p = config)
        /\ p \in Handler => Invoke(p, buf, Op(p))
        /\ p \notin Handler =>
              /\ tlv_buff' = buf /\ Leave("tail") /\ call' = NULL
              /\ reading' = reading /\ mixed' = mixed
    BY <1>5 DEF EndWithMode
  <2>2. p \in Param \ {do_hook}
    BY <1>1, <1>2, ModeIsNotDoHook
  <2>3. code \in Tlv
    BY <1>2 DEF Tlv
  <2>4. Sound(marked) /\ marked.b = b /\ Kept(marked) = b
    BY <1>3, SoundMark
  <2>5. buf = collect_tlv(marked, code)
    BY DEF MarkAndCode
  <2> HIDE DEF marked
  <2>6. Sound(buf) /\ buf.b = Append(b, code) /\ Kept(buf) = b
    BY <2>3, <2>4, <2>5, SoundCollect
  <2>7. /\ stale' \in BOOLEAN
        /\ ~stale' => ~stale /\ ~mixed /\ p # config
    BY <1>3, <2>1
  <2> HIDE DEF buf, code, p, b
  <2>8. CASE p \in Handler
    <3>1. /\ Ended(frames, frames', reading')
          /\ mixed' \in BOOLEAN /\ (reading' => mixed')
          /\ call' = Called(p, buf.b, Op(p))
          /\ tlv_buff' = IF p = config THEN mark_checkpoint_serialize_buffer(buf)
                         ELSE buf
      BY <1>1, <2>1, <2>8, InvokeEnds
    <3>2. Sound(tlv_buff')
      BY <2>6, <3>1, SoundMark
    <3>3. ~stale' => Kept(tlv_buff') = Tlvs(value_holder, p)
      BY <1>2, <2>6, <2>7, <3>1
    <3>4. IInv'
      BY <2>1, <2>2, <2>7, <3>1, <3>2, <3>3, NewMode
    <3>5. Sees(buf.b, value_holder, c, p, ~stale /\ ~mixed)
      BY <1>2, <1>3, <2>6, SeesCode DEF code
    <3>6. HandlerSeesPath'
      BY <2>1, <3>1, <3>5, HandlerCall
    <3> QED BY <3>4, <3>6
  <2>9. CASE p \notin Handler
    <3>1. Ended(frames, frames', reading') /\ reading' = FALSE /\ mixed' \in BOOLEAN
      <4>1. PICK pc \in {"tail", "history", "repeat"} : pc = "tail"
        OBVIOUS
      <4> QED BY <1>2, <1>3, <2>1, <2>9, <4>1, LeaveEnds
    <3>2. Sound(tlv_buff') /\ (~stale' => Kept(tlv_buff') = Tlvs(value_holder, p))
      BY <1>2, <2>1, <2>6, <2>7, <2>9
    <3>3. IInv'
      BY <2>1, <2>2, <2>7, <3>1, <3>2, NewMode
    <3> QED BY <2>1, <2>9, <3>3, NoCall
  <2> QED BY <2>8, <2>9
<1> QED BY <1>4, <1>5

\* "?": a mode is entered and no handler called.
LEMMA EndWithSuboptionsStep ==
  ASSUME IInv, EndWithSuboptions
  PROVE  IInv' /\ call' = NULL
<1> DEFINE p == top.param
           marked == mark_checkpoint_serialize_buffer(tlv_buff)
<1>1. Parse /\ call' = NULL
  BY DEF EndWithSuboptions
<1>2. /\ p \in Param /\ (~stale /\ ~mixed => tlv_buff.b = Tlvs(value_holder, p))
      /\ reading = FALSE /\ frames # <<>>
  BY <1>1, ParseState
<1>3. Sound(tlv_buff) /\ stale \in BOOLEAN /\ mixed \in BOOLEAN
  BY DEF IInv, Kinds
<1>4. CASE p = do_hook
  BY <1>1, <1>4, CrashStep DEF EndWithSuboptions
<1>5. CASE p # do_hook
  <2>1. /\ EnterMode(p) /\ value_holder' = value_holder
        /\ stale' = (stale \/ mixed) /\ mixed' = mixed
        /\ tlv_buff' = IF p \in Lister THEN collect_tlv(marked, DummyTlv) ELSE marked
        /\ Leave("tail") /\ reading' = reading
    BY <1>5 DEF EndWithSuboptions
  <2>2. Sound(marked) /\ Kept(marked) = tlv_buff.b
    BY <1>3, SoundMark
  <2>3. DummyTlv \in Tlv
    BY DEF Tlv
  <2> HIDE DEF marked
  <2>4. Sound(tlv_buff') /\ Kept(tlv_buff') = tlv_buff.b
    BY <2>1, <2>2, <2>3, SoundCollect
  <2>5. stale' \in BOOLEAN /\ (~stale' => ~stale /\ ~mixed)
    BY <1>3, <2>1
  <2>6. Ended(frames, frames', reading') /\ reading' = FALSE
    <3>1. PICK pc \in {"tail", "history", "repeat"} : pc = "tail"
      OBVIOUS
    <3> QED BY <1>2, <2>1, <3>1, LeaveEnds
  <2>7. p \in Param \ {do_hook}
    BY <1>2, <1>5
  <2>8. mixed' \in BOOLEAN /\ (~stale' => Kept(tlv_buff') = Tlvs(value_holder, p))
    BY <1>2, <1>3, <2>1, <2>4, <2>5
  <2> HIDE DEF p
  <2> QED BY <1>1, <2>1, <2>4, <2>5, <2>6, <2>7, <2>8, NewMode
<1> QED BY <1>4, <1>5

\* "." and the end of a file change nothing but the call that ends.
LEMMA LeaveStep ==
  ASSUME IInv, EndWithExpansion \/ EndOfFile
  PROVE  IInv' /\ call' = NULL
<1>1. /\ Leave("tail") /\ reading' = reading /\ call' = NULL
      /\ UNCHANGED <<cli, tlv_buff, value_holder, spoilt>>
  BY DEF EndWithExpansion, EndOfFile, InFile
<1>2. reading = FALSE /\ frames # <<>>
  <2>1. CASE EndWithExpansion
    BY <2>1, ParseState DEF EndWithExpansion
  <2>2. CASE EndOfFile
    BY <2>2 DEF EndOfFile, InFile, IInv, Kinds
  <2> QED BY <2>1, <2>2
<1> QED BY <1>1, <1>2, Nothing

\* The next line of a file.
LEMMA FileLineStep ==
  ASSUME IInv, FileLine
  PROVE  IInv' /\ call' = NULL
<1> DEFINE c == cmd_tree_cursor
<1>1. /\ frames' = Append(frames, Parsing("line", c, NULL)) /\ Emptied(c)
      /\ cmd_tree_cursor' = c /\ console_name' = console_name
      /\ value_holder' = value_holder /\ reading' = reading /\ call' = NULL
      /\ reading = FALSE /\ frames # <<>> /\ top.pc = "lines"
  BY DEF FileLine, InFile, Push, cli, IInv, Kinds
<1>2. c \in Param /\ value_holder \in Values
  BY DEF IInv, Kinds
<1>3. Ready(frames)
  BY <1>1 DEF IInv, Ready, Tokens, top
<1>4. Started(frames', c) /\ Carries(frames, frames')
  BY <1>1, <1>2, <1>3, StartLine
<1>5. Sound(tlv_buff') /\ stale' \in BOOLEAN /\ mixed' = FALSE
  BY <1>1, <1>2, EmptiedIs
<1>6. Deeper(frames', c)
  BY <1>4, BelowSelf DEF Deeper, Started
<1>7. Shown(frames', c, console_name, value_holder)
  BY <1>4, ShownCarries DEF IInv
<1>8. Holds(frames', FALSE, c, tlv_buff', value_holder, stale', mixed')
  BY <1>1, <1>2, <1>4, EmptiedHolds
<1> QED BY <1>1, <1>4, <1>5, <1>6, <1>7, <1>8 DEF IInv, Kinds, Started

-----------------------------------------------------------------------------
(* The steps at the end of a call.                                         *)

\* A call that returns leaves the calls below it.
LEMMA ReturnState ==
  ASSUME IInv, frames # <<>>, Return
  PROVE  /\ Stack(frames', reading') /\ ~Tokens(frames') /\ reading' \in BOOLEAN
         /\ top.kind # "do" => Carries(frames, frames')
<1>1. /\ frames' = Front(frames)
      /\ reading' = (Len(frames) = 1 \/ InScript(Len(frames)))
  BY DEF Return
<1>2. PICK w \in BOOLEAN : w = reading'
  BY <1>1
<1>3. Len(frames) = 1 => w
  BY <1>1, <1>2
<1>4. Stack(frames, reading)
  BY DEF IInv
<1>5. /\ Stack(frames', w) /\ ~Tokens(frames')
      /\ frames[Len(frames)].kind # "do" => Carries(frames, frames')
  BY <1>1, <1>3, <1>4, DropFrame
<1> QED BY <1>2, <1>5 DEF top

\* After a command the buffer is cut back to the leaves of the mode.
LEMMA RestoreOrResetStep ==
  ASSUME IInv, frames # <<>>, RestoreOrReset, Return, UNCHANGED <<cli, value_holder>>,
         top.kind # "do" \/ cmd_tree_cursor # do_hook
  PROVE  IInv'
<1> DEFINE c == cmd_tree_cursor
<1>1. /\ tlv_buff' = IF c # root THEN restore_checkpoint_serialize_buffer(tlv_buff)
                     ELSE reset_serialize_buffer(tlv_buff)
      /\ stale' = (stale /\ c # root) /\ mixed' = FALSE
      /\ c' = c /\ console_name' = console_name /\ value_holder' = value_holder
  BY DEF RestoreOrReset, cli
<1>2. Sound(tlv_buff) /\ stale \in BOOLEAN
  BY DEF IInv, Kinds
<1>3. /\ Sound(tlv_buff') /\ stale' \in BOOLEAN
      /\ tlv_buff'.checkpoint = Len(tlv_buff'.b)
      /\ ~stale' => Kept(tlv_buff') = Tlvs(value_holder, c)
  <2>1. CASE c # root
    BY <1>1, <1>2, <2>1, SoundRestore DEF IInv, Holds
  <2>2. CASE c = root
    <3>1. Tlvs(value_holder, c) = <<>>
      BY <2>2, TlvsTop DEF Tops
    <3>2. /\ Sound(tlv_buff') /\ tlv_buff'.b = <<>> /\ tlv_buff'.checkpoint = 0
          /\ Kept(tlv_buff') = <<>>
      BY <1>1, <1>2, <2>2, SoundReset
    <3> QED BY <1>1, <1>2, <2>2, <3>1, <3>2
  <2> QED BY <2>1, <2>2
<1>4. /\ Stack(frames', reading') /\ ~Tokens(frames') /\ reading' \in BOOLEAN
      /\ top.kind # "do" => Carries(frames, frames')
  BY ReturnState
<1>5. Shown(frames', c, console_name, value_holder)
  <2>1. CASE top.kind # "do"
    BY <1>4, <2>1, ShownCarries DEF IInv
  <2>2. CASE c # do_hook
    BY <2>2 DEF IInv, Shown
  <2> QED BY <2>1, <2>2
<1>6. Holds(frames', reading', c, tlv_buff', value_holder, stale', mixed')
  BY <1>1, <1>3, <1>4 DEF Holds
<1> QED BY <1>1, <1>3, <1>4, <1>5, <1>6 DEF IInv, Kinds, Deeper

\* The end of a command.
LEMMA EndCmdStep ==
  ASSUME IInv, EndCmd
  PROVE  IInv' /\ call' = NULL
<1>1. /\ frames # <<>> /\ top.kind # "do" /\ RestoreOrReset /\ Return
      /\ UNCHANGED <<cli, value_holder>> /\ call' = NULL
  BY DEF EndCmd, Finish
<1> QED BY <1>1, RestoreOrResetStep

\* The end of a do: the buffer is built anew from where it came from, unless
\* the command has left do_hook.
LEMMA EndDoStep ==
  ASSUME IInv, EndDo
  PROVE  IInv' /\ call' = NULL
<1> DEFINE c == cmd_tree_cursor
<1>1. frames # <<>> /\ top.kind = "do" /\ call' = NULL
  BY DEF EndDo, Finish
<1>2. Back(top.old) /\ Stack(frames, reading)
  BY <1>1, LastFrame DEF IInv, top
<1>3. CASE c = do_hook /\ top.old \in NoCmd
  BY <1>1, <1>3, CrashStep DEF EndDo
<1>4. CASE c = do_hook /\ top.old \notin NoCmd
  <2> DEFINE o == top.old
             empty == reset_serialize_buffer(tlv_buff)
             built == serialize_string(empty, Tlvs(value_holder, o))
  <2>0. DoneInConfig
    <3>1. IF top.old \in NoCmd THEN Crash("no read as a leaf") ELSE DoneInConfig
      BY <1>4, TreeAssumption DEF EndDo
    <3> QED BY <1>4, <3>1, Zenon
  <2>1. /\ cmd_tree_cursor' = o
        /\ tlv_buff' = mark_checkpoint_serialize_buffer(
                          build_cmd_tree_leaves_data(tlv_buff, o))
        /\ Return /\ stale' = FALSE /\ mixed' = FALSE
        /\ console_name' = console_name /\ value_holder' = value_holder
    BY <2>0 DEF DoneInConfig
  <2>2. tlv_buff' = mark_checkpoint_serialize_buffer(built)
    BY <2>1, LeafTlvsIs DEF build_cmd_tree_leaves_data
  <2>3. o \in Param /\ o # do_hook
    BY <1>2 DEF Back, Tops
  <2>4. Sound(tlv_buff) /\ value_holder \in Values
    BY DEF IInv, Kinds
  <2>5. Sound(empty) /\ empty.b = <<>>
    BY <2>4, SoundReset
  <2>6. Tlvs(value_holder, o) \in Seq(Tlv)
    BY <2>3, <2>4, TlvsType
  <2> HIDE DEF empty
  <2>7. Sound(built) /\ built.b = Tlvs(value_holder, o)
    <3>1. Sound(built) /\ built.b = empty.b \o Tlvs(value_holder, o)
      BY <2>5, <2>6, SoundSerialize
    <3>2. <<>> \o Tlvs(value_holder, o) = Tlvs(value_holder, o)
      BY <2>6
    <3> QED BY <2>5, <3>1, <3>2
  <2> HIDE DEF built
  <2>8. /\ Sound(tlv_buff') /\ tlv_buff'.b = built.b
        /\ tlv_buff'.checkpoint = Len(built.b) /\ Kept(tlv_buff') = built.b
    BY <2>2, <2>7, SoundMark
  <2>9. Stack(frames', reading') /\ ~Tokens(frames') /\ reading' \in BOOLEAN
    BY <1>1, <2>1, ReturnState
  <2>10. console_name = build_mode_console_name(o, value_holder)
    <3>1. PICK n \in Nat : n = Len(frames) /\ n > 0 /\ top = frames[n]
      BY <1>1, <1>2 DEF Stack, top
    <3>2. PICK i \in 1 .. n :
            /\ LastDo(frames, i)
            /\ console_name = build_mode_console_name(frames[i].old, value_holder)
      BY <1>4, <3>1 DEF IInv, Shown, DoBack
    <3>3. i = n
      BY <1>1, <3>1, <3>2 DEF LastDo
    <3> QED BY <3>1, <3>2, <3>3
  <2>11. Shown(frames', o, console_name, value_holder)
    BY <2>3, <2>10 DEF Shown
  <2>12. Holds(frames', reading', o, tlv_buff', value_holder, FALSE, FALSE)
    BY <2>7, <2>8, <2>9 DEF Holds
  <2> QED BY <1>1, <2>1, <2>3, <2>8, <2>9, <2>11, <2>12 DEF IInv, Kinds, Deeper
<1>5. CASE c # do_hook
  <2>1. \/ Crash("branch of the root after do") \/ Crash("impossible case")
        \/ RestoreOrReset /\ Return /\ UNCHANGED <<cli, value_holder, fault>>
    BY <1>5 DEF EndDo
  <2> QED BY <1>1, <1>5, <2>1, CrashStep, RestoreOrResetStep
<1> QED BY <1>3, <1>4, <1>5

-----------------------------------------------------------------------------
(* The theorems.                                                           *)

\* Every step preserves the invariant and shows a handler its path.
LEMMA NextInv ==
  ASSUME IInv, Next
  PROVE  IInv' /\ HandlerSeesPath'
<1>1. CASE TreeCmd
  BY <1>1, TreeCmdStep, NoCall
<1>2. CASE NoOpCmd \/ RepeatCmd \/ RunTestCase
  BY <1>2, IdleLineSteps, NoCall
<1>3. CASE NoLine
  BY <1>3, NoLineStep, NoCall
<1>4. CASE DoCmd
  BY <1>4, DoCmdStep, NoCall
<1>5. CASE GoOneLevelUp
  BY <1>5, GoOneLevelUpStep, NoCall
<1>6. CASE GoToTop
  BY <1>6, GoToTopStep, NoCall
<1>7. CASE LoadCmd
  BY <1>7, LoadCmdStep, NoCall
<1>8. CASE Word
  BY <1>8, WordStep, NoCall
<1>9. CASE LeafValue
  BY <1>9, LeafValueStep, NoCall
<1>10. CASE Refused
  BY <1>10, RefusedStep, NoCall
<1>11. CASE EndOfLine
  BY <1>11, EndOfLineStep
<1>12. CASE EndWithBrief
  BY <1>12, EndWithBriefStep
<1>13. CASE EndWithMode
  BY <1>13, EndWithModeStep
<1>14. CASE EndWithSuboptions
  BY <1>14, EndWithSuboptionsStep, NoCall
<1>15. CASE EndWithExpansion \/ EndOfFile
  BY <1>15, LeaveStep, NoCall
<1>16. CASE EndCmd
  BY <1>16, EndCmdStep, NoCall
<1>17. CASE EndDo
  BY <1>17, EndDoStep, NoCall
<1>18. CASE FileLine
  BY <1>18, FileLineStep, NoCall
<1>19. CASE RepeatLine
  BY <1>19, RepeatLineStep, NoCall
<1> QED BY <1>1, <1>2, <1>3, <1>4, <1>5, <1>6, <1>7, <1>8, <1>9, <1>10, <1>11,
           <1>12, <1>13, <1>14, <1>15, <1>16, <1>17, <1>18, <1>19 DEF Next

\* A step that changes nothing preserves both.
LEMMA StutterInv ==
  ASSUME IInv, HandlerSeesPath, UNCHANGED vars
  PROVE  IInv' /\ HandlerSeesPath'
<1>1. /\ cmd_tree_cursor' = cmd_tree_cursor /\ console_name' = console_name
      /\ tlv_buff' = tlv_buff /\ value_holder' = value_holder
      /\ frames' = frames /\ reading' = reading /\ stale' = stale
      /\ mixed' = mixed /\ call' = call
  BY DEF vars, cli, spoilt
<1>2. IInv'
  BY <1>1 DEF IInv
<1>3. HandlerSeesPath'
  BY <1>1 DEF HandlerSeesPath, LeafTlvs, LeafTlv
<1> QED BY <1>2, <1>3

\* The invariant holds in every state of every behaviour.
LEMMA Inductive == Spec => [](IInv /\ HandlerSeesPath)
<1>1. Init => IInv /\ HandlerSeesPath
  BY InitInv DEF Init, HandlerSeesPath
<1>2. IInv /\ HandlerSeesPath /\ [Next]_vars => (IInv /\ HandlerSeesPath)'
  BY NextInv, StutterInv
<1> QED BY <1>1, <1>2, PTL DEF Spec

\* Every variable of the command line always has its type, and the checkpoint
\* and the size of tlv_buff are never passed by what they bound.
THEOREM TypesHold == Spec => []TypeOK
<1>1. IInv => TypeOK
  <2> SUFFICES ASSUME IInv
               PROVE  TypeOK
    OBVIOUS
  <2>1. tlv_buff.b \in Seq(Tlv) /\ tlv_buff.checkpoint \in 0 .. Len(tlv_buff.b)
        /\ Len(tlv_buff.b) <= tlv_buff.size
    BY DEF IInv, Kinds, Sound, Buf
  <2>2. \A i \in 1 .. Len(frames) : frames[i] \in Frame
    BY DEF IInv, Stack
  <2> QED BY <2>1, <2>2 DEF TypeOK, IInv, Kinds, Values, NameType, Frame
<1> QED BY <1>1, Inductive, PTL

\* At the prompt the buffer holds the leaves of the mode and nothing else,
\* unless one of the three known ways has spoilt it: restore, reset and the
\* rebuild of do put back what the checkpoint, the cursor and the tree say.
THEOREM PromptBufferHolds == Spec => []PromptBuffer
<1>1. IInv => PromptBuffer
  <2> SUFFICES ASSUME IInv, Prompt, ~stale
               PROVE  /\ tlv_buff.b = LeafTlvs(cmd_tree_cursor)
                      /\ tlv_buff.checkpoint = Len(tlv_buff.b)
    BY DEF PromptBuffer
  <2>1. reading /\ ~mixed
    BY DEF IInv, Stack, Holds, Prompt
  <2>2. Sound(tlv_buff) /\ tlv_buff.checkpoint = Len(tlv_buff.b)
        /\ Kept(tlv_buff) = Tlvs(value_holder, cmd_tree_cursor)
    BY <2>1 DEF IInv, Holds, Kinds
  <2> QED BY <2>2, KeptWhole, LeafTlvsIs
<1> QED BY <1>1, Inductive, PTL

\* A handler is given the leaves of its own line, once and in order, and the
\* command code behind them, in any line of any call; and the leaves of the mode
\* before those and nothing else, if tlv_buff was neither stale nor mixed when
\* the line ended.  After "config /", and in a line of the history, it may be
\* given more TLVs than its path has: of those the theorem says nothing.
THEOREM HandlersSeeTheirPath == Spec => []HandlerSeesPath
<1> QED BY Inductive, PTL

\* At the prompt the user is never left at do_hook, and the prompt names the
\* cursor with the values the handlers will be given.
THEOREM PromptIsTheCursors == Spec => []PromptShowsCursor
<1>1. IInv => PromptShowsCursor
  BY DEF IInv, Shown, DoBack, PromptShowsCursor, Prompt
<1> QED BY <1>1, Inductive, PTL
=============================================================================
