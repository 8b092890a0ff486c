--------------------------- MODULE SequenceLemmas ---------------------------
(***************************************************************************)
(* Induction over the natural numbers, in a form that speaks of a set and  *)
(* not of an operator, and from it what FlattenSeq makes of one sequence   *)
(* more.  The proofs about byte streams and lists rest on these facts and  *)
(* on those about cutting and joining sequences.                           *)
(***************************************************************************)
EXTENDS SequencesExt, SequenceTheorems, WellFoundedInduction, TLAPS

-----------------------------------------------------------------------------
(* Induction.                                                              *)

Less == {ss \in Nat \X Nat : ss[1] < ss[2]}

\* The library's well-founded order on Nat, as a set of pairs.
LEMMA LessWellFounded == IsWellFoundedOn(Less, Nat)
<1> DEFINE R == OpToRel(<, Nat)
<1>1. R = Less
  BY Zenon DEF OpToRel, Less
<1>2. IsWellFoundedOn(R, Nat)
  BY NatLessThanWellFounded, Zenon
<1> HIDE DEF R
<1> QED BY <1>1, <1>2

\* A set that contains 0 and is closed under successor contains every
\* natural number.
LEMMA SetInduction ==
  ASSUME NEW T, 0 \in T, \A n \in Nat : n \in T => n + 1 \in T
  PROVE  \A n \in Nat : n \in T
<1> SUFFICES ASSUME Nat \ T # {}
             PROVE  FALSE
  OBVIOUS
<1>1. Nat \ T \subseteq Nat
  OBVIOUS
<1>2. PICK n \in Nat \ T : \A m \in Nat \ T : <<m, n>> \notin Less
  BY <1>1, WFMin, LessWellFounded
<1>3. n # 0 /\ n - 1 \in Nat
  OBVIOUS
<1>4. <<n - 1, n>> \in Less
  BY <1>3 DEF Less
<1>5. n - 1 \in T
  BY <1>2, <1>3, <1>4
<1>6. (n - 1) + 1 \in T
  BY <1>3, <1>5
<1> QED BY <1>6

-----------------------------------------------------------------------------
(* Cutting.                                                                *)

\* Concatenation under a name, which the provers match as a whole and do
\* not take apart.
Cat(a, b) == a \o b

\* The concatenation of two sequences over S is one.
LEMMA CatType ==
  ASSUME NEW S, NEW a \in Seq(S), NEW b \in Seq(S)
  PROVE  Cat(a, b) \in Seq(S)
  BY DEF Cat

\* The empty sequence is a sequence over any set.
LEMMA EmptyInSeq ==
  ASSUME NEW S
  PROVE  <<>> \in Seq(S)
  OBVIOUS

\* Concatenations may be regrouped.
LEMMA CatAssociative ==
  ASSUME NEW S, NEW a \in Seq(S), NEW b \in Seq(S), NEW c \in Seq(S)
  PROVE  Cat(Cat(a, b), c) = Cat(a, Cat(b, c))
  BY ConcatAssociative DEF Cat

\* The empty sequence adds nothing at either end.
LEMMA CatEmpty ==
  ASSUME NEW S, NEW a \in Seq(S)
  PROVE  Cat(a, <<>>) = a /\ Cat(<<>>, a) = a
  BY ConcatEmptySeq DEF Cat

\* What follows the same beginning is the same.
LEMMA CatCancel ==
  ASSUME NEW S, NEW a \in Seq(S), NEW b \in Seq(S), NEW c \in Seq(S),
         Cat(a, b) = Cat(a, c)
  PROVE  b = c
  BY ConcatSimplifications DEF Cat

\* A concatenation, item by item.
LEMMA IsConcat ==
  ASSUME NEW S, NEW x \in Seq(S), NEW y \in Seq(S), NEW w \in Seq(S),
         Len(w) = Len(x) + Len(y),
         \A k \in 1 .. Len(w) : w[k] = IF k <= Len(x) THEN x[k] ELSE y[k - Len(x)]
  PROVE  w = x \o y
<1>1. x \o y \in Seq(S) /\ Len(x \o y) = Len(w)
  OBVIOUS
<1>2. \A k \in 1 .. Len(w) : (x \o y)[k] = w[k]
  OBVIOUS
<1> QED BY <1>1, <1>2, SeqEqual

\* A sequence cut after its first n items.
LEMMA CutInTwo ==
  ASSUME NEW S, NEW c \in Seq(S), NEW n \in Nat, n <= Len(c)
  PROVE  /\ SubSeq(c, 1, n) \in Seq(S) /\ Len(SubSeq(c, 1, n)) = n
         /\ SubSeq(c, n + 1, Len(c)) \in Seq(S)
         /\ SubSeq(c, 1, n) \o SubSeq(c, n + 1, Len(c)) = c
<1>0. SubSeq(c, 1, n) \in Seq(S) /\ SubSeq(c, n + 1, Len(c)) \in Seq(S)
  OBVIOUS
<1>1. PICK h \in Seq(S) : h = SubSeq(c, 1, n)
  BY <1>0, Zenon
<1>2. PICK d \in Seq(S) : d = SubSeq(c, n + 1, Len(c))
  BY <1>0, Zenon
<1>3. Len(h) = n /\ Len(d) = Len(c) - n /\ Len(c) \in Nat
  BY <1>1, <1>2
<1>4. (\A i \in 1 .. n : h[i] = c[i]) /\ (\A i \in 1 .. Len(c) - n : d[i] = c[n + i])
  BY <1>1, <1>2
<1>5. h \o d \in Seq(S) /\ Len(h \o d) = Len(c)
  BY <1>3
<1>6. ASSUME NEW i \in 1 .. Len(c)
      PROVE  (h \o d)[i] = c[i]
  <2>1. CASE i <= n
    BY <1>3, <1>4, <2>1
  <2>2. CASE i > n
    <3>1. PICK j \in 1 .. Len(c) - n : n + j = i
      <4>1. i - n \in 1 .. Len(c) - n /\ n + (i - n) = i
        BY <1>3, <2>2
      <4> QED BY <4>1
    <3>2. (h \o d)[i] = d[j]
      BY <1>3, <3>1
    <3> QED BY <1>4, <3>1, <3>2
  <2> QED BY <2>1, <2>2, <1>3
<1>7. h \o d = c
  BY <1>5, <1>6, SeqEqual
<1> QED BY <1>1, <1>2, <1>3, <1>7

\* Equal sequences that begin with sequences of the same length.
LEMMA SameBeginning ==
  ASSUME NEW S, NEW h \in Seq(S), NEW e \in Seq(S), NEW x \in Seq(S), NEW w \in Seq(S),
         Len(h) = Len(x), h \o e = x \o w
  PROVE  h = x /\ e = w
<1>1. ASSUME NEW i \in 1 .. Len(h)
      PROVE  h[i] = x[i]
  <2>1. h[i] = (h \o e)[i]
    OBVIOUS
  <2>2. x[i] = (x \o w)[i]
    OBVIOUS
  <2> QED BY <2>1, <2>2
<1>2. h = x
  BY <1>1, SeqEqual
<1> QED BY <1>2, ConcatSimplifications

\* x, followed by w, reads h, then d, then u.  (A predicate, so that the
\* provers match it as a whole.)
ReadsAs(x, w, h, d, u) == (h \o d) \o u = x \o w

\* c, then u, reads x, then w.
Same(c, u, x, w) == c \o u = x \o w

\* w reads d, then u.
Joins(w, d, u) == d \o u = w

\* The same, when the first beginning was cut off a longer one.
LEMMA SameBeginningCut ==
  ASSUME NEW S, NEW h \in Seq(S), NEW d \in Seq(S), NEW u \in Seq(S),
         NEW x \in Seq(S), NEW w \in Seq(S),
         Len(h) = Len(x), ReadsAs(x, w, h, d, u)
  PROVE  h = x /\ Joins(w, d, u)
<1>1. Cat(Cat(h, d), u) = Cat(h, Cat(d, u))
  BY CatAssociative
<1>2. d \o u \in Seq(S)
  OBVIOUS
<1>3. PICK e \in Seq(S) : e = d \o u
  BY <1>2, Zenon
<1>4. h \o e = x \o w
  BY <1>1, <1>3 DEF ReadsAs, Cat
<1> QED BY <1>3, <1>4, SameBeginning DEF Joins

\* A sequence of n + 1 items is one of n items and a last one.
LEMMA LastCut ==
  ASSUME NEW S, NEW u \in Seq(S), NEW n \in Nat, Len(u) = n + 1
  PROVE  \E front \in Seq(S), last \in S : u = Append(front, last) /\ Len(front) = n
<1>0. SubSeq(u, 1, n) \in Seq(S)
  OBVIOUS
<1>1. PICK front \in Seq(S) : front = SubSeq(u, 1, n)
  BY <1>0, Zenon
<1>2. PICK last \in S : last = u[n + 1]
  OBVIOUS
<1>3. Append(front, last) \in Seq(S) /\ Len(Append(front, last)) = Len(u) /\ Len(front) = n
  BY <1>1
<1>4. \A i \in 1 .. Len(u) : Append(front, last)[i] = u[i]
  BY <1>1, <1>2
<1>5. Append(front, last) = u
  BY <1>3, <1>4, SeqEqual
<1> QED BY <1>3, <1>5

\* Appending to a concatenation is appending to its second part.
LEMMA ConcatAppend ==
  ASSUME NEW S, NEW s \in Seq(S), NEW front \in Seq(S), NEW last \in S
  PROVE  /\ s \o Append(front, last) = Append(s \o front, last)
         /\ s \o front \in Seq(S)
<1>0. s \o Append(front, last) \in Seq(S) /\ Append(s \o front, last) \in Seq(S)
  OBVIOUS
<1>1. PICK a \in Seq(S) : a = s \o Append(front, last)
  BY <1>0, Zenon
<1>2. PICK b \in Seq(S) : b = Append(s \o front, last)
  BY <1>0, Zenon
<1>3. Len(a) = Len(b)
  BY <1>1, <1>2
<1>4. \A i \in 1 .. Len(a) : a[i] = b[i]
  BY <1>1, <1>2
<1> QED BY <1>1, <1>2, <1>3, <1>4, SeqEqual

\* Two ways to cut the same items: the shorter beginning is a beginning of
\* the longer one, and what follows it is the same.
LEMMA PrefixTaken ==
  ASSUME NEW S, NEW c \in Seq(S), NEW u \in Seq(S), NEW x \in Seq(S), NEW w \in Seq(S),
         Same(c, u, x, w), Len(x) <= Len(c)
  PROVE  /\ SubSeq(c, 1, Len(x)) = x
         /\ SubSeq(c, Len(x) + 1, Len(c)) \in Seq(S)
         /\ Joins(w, SubSeq(c, Len(x) + 1, Len(c)), u)
<1>1. PICK n \in Nat : n = Len(x) /\ n <= Len(c)
  OBVIOUS
<1>2. /\ SubSeq(c, 1, n) \in Seq(S) /\ Len(SubSeq(c, 1, n)) = n
      /\ SubSeq(c, n + 1, Len(c)) \in Seq(S)
      /\ SubSeq(c, 1, n) \o SubSeq(c, n + 1, Len(c)) = c
  BY <1>1, CutInTwo
<1>3. PICK h \in Seq(S) : h = SubSeq(c, 1, n)
  BY <1>2, Zenon
<1>4. PICK d \in Seq(S) : d = SubSeq(c, n + 1, Len(c))
  BY <1>2, Zenon
<1>5. Len(h) = Len(x) /\ ReadsAs(x, w, h, d, u)
  BY <1>1, <1>2, <1>3, <1>4 DEF ReadsAs, Same
<1>6. h = x /\ Joins(w, d, u)
  BY <1>5, SameBeginningCut, Zenon
<1> QED BY <1>1, <1>2, <1>3, <1>4, <1>6 DEF Joins

-----------------------------------------------------------------------------
(* FlattenSeq.                                                             *)

\* f is the concatenation of the first i sequences of s, for i up to n.
Flattens(f, s, n) ==
  f = [i \in 1 .. n |-> IF i = 1 THEN s[i] ELSE f[i-1] \o s[i]]

\* The same, item by item.
LEMMA FlattensItems ==
  ASSUME NEW s, NEW n \in Nat, NEW f
  PROVE  Flattens(f, s, n) <=>
           /\ f = [i \in 1 .. n |-> f[i]]
           /\ \A i \in 1 .. n : f[i] = IF i = 1 THEN s[i] ELSE f[i-1] \o s[i]
  BY DEF Flattens

\* The concatenations of the first i sequences, one sequence more.
OneMore(f, s, n) ==
  [i \in 1 .. n + 1 |-> IF i # n + 1 THEN f[i]
                        ELSE IF n = 0 THEN s[1] ELSE f[n] \o s[n + 1]]

\* If f concatenates the first n of s, then so does OneMore the first n + 1.
LEMMA FlattensMore ==
  ASSUME NEW s, NEW n \in Nat, NEW f, Flattens(f, s, n)
  PROVE  Flattens(OneMore(f, s, n), s, n + 1)
<1> DEFINE g == OneMore(f, s, n)
<1>1. \A i \in 1 .. n : f[i] = IF i = 1 THEN s[i] ELSE f[i-1] \o s[i]
  BY FlattensItems
<1>2. ASSUME NEW i \in 1 .. n + 1
      PROVE  g[i] = IF i = 1 THEN s[i] ELSE g[i-1] \o s[i]
  <2>1. CASE i # n + 1
    <3>1. i \in 1 .. n /\ (i # 1 => i - 1 \in 1 .. n)
      BY <2>1
    <3>2. g[i] = f[i] /\ (i # 1 => g[i-1] = f[i-1])
      BY <3>1 DEF OneMore
    <3> QED BY <1>1, <3>1, <3>2
  <2>2. CASE i = n + 1 /\ n = 0
    BY <2>2 DEF OneMore
  <2>3. CASE i = n + 1 /\ n # 0
    <3>1. g[i] = f[n] \o s[n + 1]
      BY <2>3 DEF OneMore
    <3>2. g[i - 1] = f[n] /\ i # 1
      BY <2>3 DEF OneMore
    <3> QED BY <3>1, <3>2, <2>3
  <2> QED BY <2>1, <2>2, <2>3
<1>3. g = [i \in 1 .. n + 1 |-> g[i]]
  BY DEF OneMore
<1> HIDE DEF g
<1>4. PICK m \in Nat : m = n + 1
  OBVIOUS
<1>5. Flattens(g, s, m)
  BY <1>2, <1>3, <1>4, FlattensItems
<1> QED BY <1>4, <1>5 DEF g

\* There is such an f for every n, so the recursive definition is met.
LEMMA FlattensExists ==
  ASSUME NEW s, NEW n \in Nat
  PROVE  \E f : Flattens(f, s, n)
<1> DEFINE T == {m \in Nat : \E f : Flattens(f, s, m)}
<1>1. 0 \in T
  <2>1. Flattens([i \in 1 .. 0 |-> 0], s, 0)
    BY DEF Flattens
  <2> QED BY <2>1
<1>2. ASSUME NEW m \in Nat, m \in T
      PROVE  m + 1 \in T
  BY <1>2, FlattensMore
<1> HIDE DEF T
<1>3. n \in T
  BY <1>1, <1>2, SetInduction
<1> QED BY <1>3 DEF T

\* Two concatenations agree as far as the sequences concatenated do.
LEMMA FlattensUnique ==
  ASSUME NEW s, NEW t, NEW k \in Nat, NEW m \in Nat, NEW f, NEW g,
         Flattens(f, s, k), Flattens(g, t, m),
         k <= m, \A i \in 1 .. k : s[i] = t[i]
  PROVE  \A i \in 1 .. k : f[i] = g[i]
<1> DEFINE T == {i \in Nat : i \in 1 .. k => f[i] = g[i]}
<1>1. 0 \in T
  OBVIOUS
<1>2. ASSUME NEW i \in Nat, i \in T
      PROVE  i + 1 \in T
  <2>1. SUFFICES ASSUME i + 1 \in 1 .. k
                 PROVE  f[i + 1] = g[i + 1]
    OBVIOUS
  <2>2. f[i + 1] = IF i = 0 THEN s[i + 1] ELSE f[i] \o s[i + 1]
    BY <2>1, FlattensItems
  <2>3. g[i + 1] = IF i = 0 THEN t[i + 1] ELSE g[i] \o t[i + 1]
    BY <2>1, FlattensItems
  <2>4. i # 0 => f[i] = g[i]
    BY <1>2, <2>1
  <2> QED BY <2>1, <2>2, <2>3, <2>4
<1> HIDE DEF T
<1>3. \A i \in Nat : i \in T
  BY <1>1, <1>2, SetInduction
<1> QED BY <1>3 DEF T

\* v is the concatenation of the first n sequences of s.
IsFlat(v, s, n) == \E f : Flattens(f, s, n) /\ v = f[n]

\* t begins with the first n items of s.
Extends(t, s, n) == \A i \in 1 .. n : s[i] = t[i]

\* The concatenation of one more.
LEMMA FlattensLast ==
  ASSUME NEW s, NEW t, NEW n \in Nat, n # 0, NEW v, NEW w,
         IsFlat(v, s, n), IsFlat(w, t, n + 1), Extends(t, s, n)
  PROVE  w = v \o t[n + 1]
<1> PICK f : Flattens(f, s, n) /\ v = f[n]
  BY DEF IsFlat
<1> PICK g : Flattens(g, t, n + 1) /\ w = g[n + 1]
  BY DEF IsFlat
<1>1. PICK m \in Nat : m = n + 1
  OBVIOUS
<1>2. m \in 1 .. m /\ m # 1 /\ m - 1 = n /\ n <= m
  BY <1>1
<1>3. g[m] = g[n] \o t[m]
  <2>1. \A i \in 1 .. m : g[i] = IF i = 1 THEN t[i] ELSE g[i - 1] \o t[i]
    BY <1>1, FlattensItems
  <2>2. g[m] = g[m - 1] \o t[m]
    BY <1>2, <2>1
  <2> QED BY <1>2, <2>2
<1>4. \A i \in 1 .. n : f[i] = g[i]
  BY <1>1, <1>2, FlattensUnique DEF Extends
<1>5. f[n] = g[n]
  BY <1>4
<1> QED BY <1>1, <1>3, <1>5

\* FlattenSeq is the last of the concatenations.
LEMMA FlattenSeqDef ==
  ASSUME NEW S, NEW s \in Seq(S), s # <<>>
  PROVE  IsFlat(FlattenSeq(s), s, Len(s))
<1> DEFINE f == CHOOSE h : Flattens(h, s, Len(s))
<1>1. Len(s) \in Nat /\ Len(s) # 0
  OBVIOUS
<1>2. Flattens(f, s, Len(s))
  BY <1>1, FlattensExists
<1>3. FlattenSeq(s) = f[Len(s)]
  BY <1>1 DEF FlattenSeq, Flattens
<1> QED BY <1>2, <1>3 DEF IsFlat

\* The concatenation of sequences over S is one.
LEMMA FlattenSeqType ==
  ASSUME NEW S, NEW s \in Seq(Seq(S))
  PROVE  FlattenSeq(s) \in Seq(S)
<1>1. CASE s = <<>>
  BY <1>1 DEF FlattenSeq
<1>2. CASE s # <<>>
  <2>1. PICK f : Flattens(f, s, Len(s)) /\ FlattenSeq(s) = f[Len(s)]
    BY <1>2, FlattenSeqDef DEF IsFlat
  <2>2. Len(s) \in Nat /\ Len(s) # 0
    BY <1>2
  <2> DEFINE T == {i \in Nat : i \in 1 .. Len(s) => f[i] \in Seq(S)}
  <2>3. 0 \in T
    OBVIOUS
  <2>4. ASSUME NEW i \in Nat, i \in T
        PROVE  i + 1 \in T
    <3>1. SUFFICES ASSUME i + 1 \in 1 .. Len(s)
                   PROVE  f[i + 1] \in Seq(S)
      OBVIOUS
    <3>2. f[i + 1] = IF i = 0 THEN s[i + 1] ELSE f[i] \o s[i + 1]
      <4>1. i + 1 = 1 <=> i = 0
        OBVIOUS
      <4>2. \A n \in Nat : Flattens(f, s, n) =>
              \A j \in 1 .. n : f[j] = IF j = 1 THEN s[j] ELSE f[j - 1] \o s[j]
        BY FlattensItems
      <4>3. \A j \in 1 .. Len(s) : f[j] = IF j = 1 THEN s[j] ELSE f[j - 1] \o s[j]
        BY <2>1, <2>2, <4>2
      <4> QED BY <3>1, <4>1, <4>3
    <3>3. s[i + 1] \in Seq(S)
      BY <3>1
    <3>4. i # 0 => f[i] \in Seq(S)
      BY <2>4, <3>1
    <3> QED BY <3>2, <3>3, <3>4
  <2> HIDE DEF T
  <2>5. Len(s) \in T
    BY <2>2, <2>3, <2>4, SetInduction
  <2> QED BY <2>1, <2>2, <2>5 DEF T
<1> QED BY <1>1, <1>2

\* Only the empty sequence has length 0.
LEMMA EmptyByLen ==
  ASSUME NEW S, NEW s \in Seq(S), Len(s) = 0
  PROVE  s = <<>>
  OBVIOUS

\* The concatenation of a single sequence.
LEMMA FlattenSingle ==
  ASSUME NEW S, NEW s \in Seq(Seq(S)), Len(s) = 1
  PROVE  FlattenSeq(s) = s[1] /\ s[1] \in Seq(S) /\ Tail(s) = <<>>
<1>1. s # <<>> /\ 1 \in 1 .. 1 /\ 1 \in Nat
  OBVIOUS
<1>2. PICK f : Flattens(f, s, 1) /\ FlattenSeq(s) = f[1]
  BY <1>1, FlattenSeqDef DEF IsFlat
<1>3. f[1] = s[1]
  BY <1>1, <1>2, FlattensItems
<1>4. Tail(s) \in Seq(Seq(S)) /\ Len(Tail(s)) = 0
  BY <1>1, HeadTailProperties
<1>5. Tail(s) = <<>>
  BY <1>4, EmptyByLen, Zenon
<1>6. s[1] \in Seq(S)
  <2>1. 1 \in 1 .. Len(s)
    OBVIOUS
  <2> QED BY <2>1, ElementOfSeq
<1> QED BY <1>2, <1>3, <1>5, <1>6

\* One sequence more at the end.
LEMMA FlattenAppend ==
  ASSUME NEW S, NEW s \in Seq(Seq(S)), NEW x \in Seq(S)
  PROVE  FlattenSeq(Append(s, x)) = FlattenSeq(s) \o x
<1> DEFINE t == Append(s, x)
           n == Len(s)
<1>1. /\ t \in Seq(Seq(S)) /\ t # <<>> /\ Len(t) = n + 1
      /\ \A i \in 1 .. n : s[i] = t[i]
      /\ t[n + 1] = x
      /\ n \in Nat
  BY AppendProperties, LenProperties
<1> HIDE DEF t
<1>2. CASE n = 0
  <2>1. Len(t) = 1 /\ t[1] = x
    BY <1>1, <1>2
  <2>2. FlattenSeq(t) = x
    BY <1>1, <2>1, FlattenSingle
  <2>3. FlattenSeq(s) = <<>>
    BY <1>2 DEF FlattenSeq
  <2> QED BY <2>2, <2>3 DEF t
<1>3. CASE n # 0
  <2>1. s # <<>>
    BY <1>3
  <2>2. IsFlat(FlattenSeq(s), s, n) /\ IsFlat(FlattenSeq(t), t, n + 1)
    BY <1>1, <2>1, FlattenSeqDef
  <2>3. Extends(t, s, n)
    BY <1>1 DEF Extends
  <2> HIDE DEF n
  <2>4. FlattenSeq(t) = FlattenSeq(s) \o t[n + 1]
    BY <1>1, <1>3, <2>2, <2>3, FlattensLast
  <2> QED BY <1>1, <2>4 DEF t
<1> QED BY <1>2, <1>3

\* The concatenation of two sequences of sequences.
LEMMA FlattenConcat ==
  ASSUME NEW S, NEW s \in Seq(Seq(S)), NEW t \in Seq(Seq(S))
  PROVE  FlattenSeq(s \o t) = FlattenSeq(s) \o FlattenSeq(t)
<1> DEFINE T == {n \in Nat : \A u \in Seq(Seq(S)) : Len(u) = n =>
                               FlattenSeq(s \o u) = FlattenSeq(s) \o FlattenSeq(u)}
<1>1. FlattenSeq(s) \in Seq(S)
  BY FlattenSeqType
<1>2. 0 \in T
  <2> SUFFICES ASSUME NEW u \in Seq(Seq(S)), Len(u) = 0
               PROVE  FlattenSeq(s \o u) = FlattenSeq(s) \o FlattenSeq(u)
    OBVIOUS
  <2>1. u = <<>>
    BY EmptyByLen, Zenon
  <2>2. s \o u = s /\ FlattenSeq(u) = <<>>
    BY <2>1, ConcatEmptySeq DEF FlattenSeq
  <2>3. FlattenSeq(s) \o <<>> = FlattenSeq(s)
    BY <1>1, ConcatEmptySeq
  <2> QED BY <2>2, <2>3
<1>3. ASSUME NEW n \in Nat, n \in T
      PROVE  n + 1 \in T
  <2> SUFFICES ASSUME NEW u \in Seq(Seq(S)), Len(u) = n + 1
               PROVE  FlattenSeq(s \o u) = FlattenSeq(s) \o FlattenSeq(u)
    OBVIOUS
  <2>1. PICK front \in Seq(Seq(S)), last \in Seq(S) :
           u = Append(front, last) /\ Len(front) = n
    BY LastCut
  <2>2. FlattenSeq(s \o front) = FlattenSeq(s) \o FlattenSeq(front)
    BY <1>3, <2>1
  <2>3. s \o u = Append(s \o front, last) /\ s \o front \in Seq(Seq(S))
    BY <2>1, ConcatAppend
  <2>4. FlattenSeq(s \o u) = FlattenSeq(s \o front) \o last
    BY <2>3, FlattenAppend
  <2>5. FlattenSeq(u) = FlattenSeq(front) \o last
    BY <2>1, FlattenAppend
  <2>6. PICK f \in Seq(S), g \in Seq(S) :
           f = FlattenSeq(s) /\ g = FlattenSeq(front)
    BY <1>1, FlattenSeqType
  <2>7. (f \o g) \o last = f \o (g \o last)
    <3>1. Cat(Cat(f, g), last) = Cat(f, Cat(g, last))
      BY CatAssociative
    <3> QED BY <3>1 DEF Cat
  <2> QED BY <2>2, <2>4, <2>5, <2>6, <2>7
<1> HIDE DEF T
<1>4. \A n \in Nat : n \in T
  BY <1>2, <1>3, SetInduction
<1>5. Len(t) \in Nat
  OBVIOUS
<1> QED BY <1>4, <1>5 DEF T

-----------------------------------------------------------------------------
(* A stream on its way: a is what was put in, d what has come out, and the *)
(* rest is in c, then b, then r, but for l, which is lost.                 *)

InTransit(a, d, c, b, r, l) == a = d \o (c \o (b \o (r \o l)))

\* InTransit in terms of Cat.
LEMMA TransitCat ==
  ASSUME NEW a, NEW d, NEW c, NEW b, NEW r, NEW l
  PROVE  InTransit(a, d, c, b, r, l) <=> a = Cat(d, Cat(c, Cat(b, Cat(r, l))))
  BY DEF InTransit, Cat

\* Nothing is lost: the places one after the other.
LEMMA TransitWhole ==
  ASSUME NEW S, NEW d \in Seq(S), NEW c \in Seq(S), NEW b \in Seq(S), NEW r \in Seq(S),
         NEW a, InTransit(a, d, c, b, r, <<>>)
  PROVE  a = d \o c \o b \o r
<1>1. a = Cat(d, Cat(c, Cat(b, r)))
  BY TransitCat, CatEmpty, Zenon
<1>2. Cat(c, Cat(b, r)) = Cat(Cat(c, b), r)
  BY CatAssociative
<1>3. Cat(d, Cat(Cat(c, b), r)) = Cat(Cat(d, Cat(c, b)), r)
  BY CatAssociative, CatType
<1>4. Cat(d, Cat(c, b)) = Cat(Cat(d, c), b)
  BY CatAssociative
<1>5. a = Cat(Cat(Cat(d, c), b), r)
  BY <1>1, <1>2, <1>3, <1>4, Zenon
<1> QED BY <1>5 DEF Cat

\* Items put in join r.
LEMMA TransitPut ==
  ASSUME NEW S, NEW d \in Seq(S), NEW c \in Seq(S), NEW b \in Seq(S), NEW r \in Seq(S),
         NEW w \in Seq(S), NEW a, InTransit(a, d, c, b, r, <<>>)
  PROVE  InTransit(Cat(a, w), d, c, b, Cat(r, w), <<>>)
<1>1. a = Cat(d, Cat(c, Cat(b, r)))
  BY TransitCat, CatEmpty, Zenon
<1>2. Cat(b, r) \in Seq(S) /\ Cat(c, Cat(b, r)) \in Seq(S) /\ Cat(r, w) \in Seq(S)
  BY CatType, Zenon
<1>3. Cat(a, w) = Cat(d, Cat(Cat(c, Cat(b, r)), w))
  BY <1>1, <1>2, CatAssociative
<1>4. Cat(Cat(c, Cat(b, r)), w) = Cat(c, Cat(Cat(b, r), w))
  BY <1>2, CatAssociative
<1>5. Cat(Cat(b, r), w) = Cat(b, Cat(r, w))
  BY CatAssociative
<1>6. Cat(Cat(r, w), <<>>) = Cat(r, w)
  BY <1>2, CatEmpty, Zenon
<1> QED BY <1>3, <1>4, <1>5, <1>6, TransitCat, Zenon

\* A beginning of r moves to the empty b.
LEMMA TransitMove ==
  ASSUME NEW S, NEW a, NEW d, NEW c, NEW r \in Seq(S), NEW l \in Seq(S),
         NEW n \in Nat, n <= Len(r), InTransit(a, d, c, <<>>, r, l)
  PROVE  InTransit(a, d, c, SubSeq(r, 1, n), SubSeq(r, n + 1, Len(r)), l)
<1> DEFINE h == SubSeq(r, 1, n)
           t == SubSeq(r, n + 1, Len(r))
<1>1. h \in Seq(S) /\ t \in Seq(S) /\ h \o t = r
  BY CutInTwo
<1> HIDE DEF h, t
<1>2. Cat(h, t) = r
  BY <1>1 DEF Cat
<1>3. Cat(Cat(h, t), l) = Cat(h, Cat(t, l))
  BY <1>1, CatAssociative
<1>4. Cat(<<>>, Cat(r, l)) = Cat(r, l)
  BY CatEmpty, CatType, Zenon
<1>5. InTransit(a, d, c, h, t, l)
  BY <1>2, <1>3, <1>4, TransitCat, Zenon
<1> QED BY <1>5 DEF h, t

\* All of b joins c.
LEMMA TransitStore ==
  ASSUME NEW S, NEW a, NEW d, NEW c \in Seq(S), NEW b \in Seq(S), NEW r \in Seq(S),
         NEW l \in Seq(S), InTransit(a, d, c, b, r, l)
  PROVE  InTransit(a, d, Cat(c, b), <<>>, r, l)
<1>1. Cat(r, l) \in Seq(S)
  BY CatType, Zenon
<1>2. Cat(Cat(c, b), Cat(r, l)) = Cat(c, Cat(b, Cat(r, l)))
  BY <1>1, CatAssociative
<1>3. Cat(<<>>, Cat(r, l)) = Cat(r, l)
  BY <1>1, CatEmpty, Zenon
<1> QED BY <1>2, <1>3, TransitCat, Zenon

\* r is lost.
LEMMA TransitLose ==
  ASSUME NEW S, NEW a, NEW d, NEW c, NEW b, NEW r \in Seq(S), NEW l \in Seq(S),
         InTransit(a, d, c, b, r, l)
  PROVE  Cat(r, l) \in Seq(S) /\ InTransit(a, d, c, b, <<>>, Cat(r, l))
<1>1. Cat(r, l) \in Seq(S)
  BY CatType, Zenon
<1>2. Cat(<<>>, Cat(r, l)) = Cat(r, l)
  BY <1>1, CatEmpty, Zenon
<1> QED BY <1>1, <1>2, TransitCat, Zenon

\* When c is not empty, not all has come out.
LEMMA TransitPending ==
  ASSUME NEW S, NEW d \in Seq(S), NEW c \in Seq(S), NEW b \in Seq(S), NEW r \in Seq(S),
         NEW l \in Seq(S), NEW a, InTransit(a, d, c, b, r, l), Len(c) > 0
  PROVE  a # d
<1>1. /\ Cat(b, Cat(r, l)) \in Seq(S)
      /\ Cat(c, Cat(b, Cat(r, l))) \in Seq(S)
  BY CatType, Zenon
<1>2. SUFFICES ASSUME d = Cat(d, Cat(c, Cat(b, Cat(r, l))))
               PROVE  FALSE
  BY TransitCat, Zenon
<1>3. PICK e \in Seq(S) : e = <<>>
  BY EmptyInSeq, Zenon
<1>4. Cat(c, Cat(b, Cat(r, l))) = e
  <2>1. Cat(d, e) = d
    BY <1>3, CatEmpty, Zenon
  <2>2. PICK f \in Seq(S) : f = Cat(c, Cat(b, Cat(r, l)))
    BY <1>1, Zenon
  <2>3. Cat(d, f) = Cat(d, e)
    BY <1>2, <2>1, <2>2, Zenon
  <2>4. f = e
    BY <2>3, CatCancel
  <2> QED BY <2>2, <2>4
<1>5. c = <<>>
  BY <1>1, <1>3, <1>4, ConcatSimplifications DEF Cat
<1> QED BY <1>5

\* If w is the next to come out, it is at the beginning of c and the rest.
LEMMA TransitNext ==
  ASSUME NEW S, NEW d \in Seq(S), NEW c \in Seq(S), NEW b \in Seq(S), NEW r \in Seq(S),
         NEW l \in Seq(S), NEW w \in Seq(S), NEW z \in Seq(S), NEW a,
         InTransit(a, d, c, b, r, l), a = Cat(d, Cat(w, z))
  PROVE  Cat(b, Cat(r, l)) \in Seq(S) /\ Same(c, Cat(b, Cat(r, l)), w, z)
<1>1. /\ Cat(b, Cat(r, l)) \in Seq(S)
      /\ Cat(c, Cat(b, Cat(r, l))) \in Seq(S)
      /\ Cat(w, z) \in Seq(S)
  BY CatType, Zenon
<1>2. Cat(d, Cat(c, Cat(b, Cat(r, l)))) = Cat(d, Cat(w, z))
  BY TransitCat, Zenon
<1>3. Cat(c, Cat(b, Cat(r, l))) = Cat(w, z)
  BY <1>1, <1>2, CatCancel
<1> QED BY <1>1, <1>3 DEF Same, Cat

\* w comes out of c, of which c2 is left.
LEMMA TransitTake ==
  ASSUME NEW S, NEW d \in Seq(S), NEW w \in Seq(S), NEW z \in Seq(S),
         NEW b, NEW r, NEW l, NEW c2, NEW a,
         a = Cat(d, Cat(w, z)), Joins(z, c2, Cat(b, Cat(r, l)))
  PROVE  InTransit(a, Cat(d, w), c2, b, r, l)
<1>1. Cat(Cat(d, w), z) = Cat(d, Cat(w, z))
  BY CatAssociative
<1>2. z = Cat(c2, Cat(b, Cat(r, l)))
  BY DEF Joins, Cat
<1> QED BY <1>1, <1>2, TransitCat, Zenon
=============================================================================
