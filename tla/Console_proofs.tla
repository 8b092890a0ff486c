--------------------------- MODULE Console_proofs ---------------------------
(***************************************************************************)
(* Proofs about Console: its types; that "repeat" runs the line typed      *)
(* last; and that the history file is the log of the lines typed and       *)
(* completed.  Both of the latter are facts about the whole log.  The      *)
(* proof carries them, with the counter and the switch of the recording,   *)
(* as one relation (Kept) between the first n lines of a log and what the  *)
(* loop keeps of them.  Kept changes only where a line ends; everywhere    *)
(* else the log changes, if at all, at the line under way.                 *)
(***************************************************************************)
EXTENDS Console, SequenceLemmas, FiniteSetTheorems

-----------------------------------------------------------------------------
(* The inductive invariant.                                                *)

\* What the properties say of the log, for any sequence l of entries.
RepeatAt(l, k) == l[k].line.kind = "repeat"
MutedAt(l, k) == \E j \in 1 .. k : l[j].file /\ \A i \in j .. k - 1 : RepeatAt(l, i)
RecordableAt(l, k) == l[k].done /\ ~RepeatAt(l, k) /\ ~MutedAt(l, k)
RecordableTo(l, n) == {k \in 1 .. n : RecordableAt(l, k)}
RecordedAt(l, k) ==
    RecordableAt(l, k) /\ Cardinality(RecordableTo(l, k)) <= MAX_SAVED_CMDS
EntryAt(l, k) == IF l[k].asked THEN <<l[k].answer, Blank>> ELSE <<l[k].line>>
RecordAt(l, k) == IF RecordedAt(l, k) THEN EntryAt(l, k) ELSE <<>>
Records(l, n) == FlattenSeq([k \in 1 .. n |-> RecordAt(l, k)])

\* A file was loaded in the first n lines, and only repeats came after it.
MutedAfter(l, n) == \E j \in 1 .. n : l[j].file /\ \A i \in j .. n : RepeatAt(l, i)

\* What the buffer holds when entry e has ended, and whether x is what it
\* held when the last of the first n lines ended that is not a repeat.
Left(e) == IF e.asked THEN e.answer ELSE e.line
IsLastOf(l, n, x) ==
    \/ x = Blank /\ \A k \in 1 .. n : RepeatAt(l, k)
    \/ \E k \in 1 .. n : /\ ~RepeatAt(l, k) /\ x = Left(l[k])
                         /\ \A i \in k + 1 .. n : RepeatAt(l, i)

\* cmd_counter counts the lines recorded.
Counts(c, l, n) ==
    LET recordable == Cardinality(RecordableTo(l, n))
    IN  c = IF recordable < MAX_SAVED_CMDS THEN recordable ELSE MAX_SAVED_CMDS

\* What is kept of the first n lines: e tells whether to record, c how many
\* lines were, h is the file, which began as p, and b the last line.
\* "loading" is that the line under way has loaded a file.
Kept(l, n, loading, e, c, h, p, b) ==
    /\ e = ~(MutedAfter(l, n) \/ loading)
    /\ Counts(c, l, n)
    /\ h = p \o Records(l, n)
    /\ IsLastOf(l, n, b)

Loading == frames # <<>> /\ log[Len(log)].file
KeepsLog ==
    Kept(log, Finished, Loading, cmd_recording_enabled, cmd_counter,
         history_file, past, last_command_input_buffer.line)

\* While a line is run, the log ends with it and the buffer holds it, or what
\* was left of the answer to a choice.
RunsLast ==
    frames # <<>> =>
        /\ log # <<>> /\ frames[1].line = log[Len(log)].line
        /\ cons_input_buffer = [line |-> Left(log[Len(log)]),
                                newline |-> log[Len(log)].asked]

IInv == TypeOK /\ RunsLast /\ KeepsLog

-----------------------------------------------------------------------------
(* What is kept of one line more.                                          *)

\* A line is muted by those before it or by its own file.
LEMMA MutedNext ==
  ASSUME NEW l, NEW n \in Nat
  PROVE  /\ MutedAt(l, n + 1) <=> MutedAfter(l, n) \/ l[n + 1].file
         /\ MutedAfter(l, n + 1) <=> MutedAt(l, n + 1) /\ RepeatAt(l, n + 1)
<1>1. (n + 1) - 1 = n /\ n + 1 \in 1 .. n + 1
  OBVIOUS
<1>2. ASSUME NEW j \in 1 .. n + 1
      PROVE  j \in 1 .. n \/ j = n + 1
  OBVIOUS
<1>3. \A j \in 1 .. n : j \in 1 .. n + 1
  OBVIOUS
<1>4. \A j \in 1 .. n + 1 : n + 1 \in j .. n + 1
  OBVIOUS
<1>5. \A j \in 1 .. n : \A i \in j .. n + 1 : i \in j .. n \/ i = n + 1
  OBVIOUS
<1>6. \A i \in n + 1 .. n : FALSE
  OBVIOUS
<1>7. \A i \in n + 1 .. n + 1 : i = n + 1
  OBVIOUS
<1>8. \A j \in 1 .. n + 1 : \A i \in j .. n : i \in j .. n + 1
  OBVIOUS
<1>9. MutedAt(l, n + 1) <=> MutedAfter(l, n) \/ l[n + 1].file
  BY <1>1, <1>2, <1>3, <1>6, Zenon DEF MutedAt, MutedAfter
<1>10. MutedAfter(l, n + 1) => MutedAt(l, n + 1) /\ RepeatAt(l, n + 1)
  BY <1>1, <1>2, <1>3, <1>4, <1>6, <1>7, <1>8, Zenon DEF MutedAt, MutedAfter
<1>11. MutedAt(l, n + 1) /\ RepeatAt(l, n + 1) => MutedAfter(l, n + 1)
  BY <1>1, <1>2, <1>3, <1>5, <1>6, <1>7, Zenon DEF MutedAt, MutedAfter
<1> QED BY <1>9, <1>10, <1>11

\* One line more is one recordable line more, or none.
LEMMA RecordableNext ==
  ASSUME NEW l, NEW n \in Nat
  PROVE  /\ IsFiniteSet(RecordableTo(l, n)) /\ Cardinality(RecordableTo(l, n)) \in Nat
         /\ Cardinality(RecordableTo(l, n + 1)) =
              Cardinality(RecordableTo(l, n)) + IF RecordableAt(l, n + 1) THEN 1 ELSE 0
<1> DEFINE R == RecordableTo(l, n)
<1>1. IsFiniteSet(1 .. n) /\ R \subseteq 1 .. n
  BY FS_Interval DEF RecordableTo
<1>2. IsFiniteSet(R) /\ Cardinality(R) \in Nat
  BY <1>1, FS_Subset, FS_CardinalityType
<1>3. n + 1 \notin R
  BY DEF RecordableTo
<1>4. CASE RecordableAt(l, n + 1)
  <2>1. RecordableTo(l, n + 1) = R \cup {n + 1}
    BY <1>4 DEF RecordableTo
  <2> QED BY <1>2, <1>3, <1>4, <2>1, FS_AddElement
<1>5. CASE ~RecordableAt(l, n + 1)
  <2>1. \A k \in 1 .. n + 1 : k \in 1 .. n \/ k = n + 1
    OBVIOUS
  <2>2. \A k \in 1 .. n : k \in 1 .. n + 1
    OBVIOUS
  <2>3. RecordableTo(l, n + 1) = R
    BY <1>5, <2>1, <2>2, Zenon DEF RecordableTo
  <2> QED BY <1>2, <1>5, <2>3
<1> QED BY <1>2, <1>4, <1>5

\* An entry that can be recorded.
IsRan(e) == e.line \in Line /\ e.answer \in Line

\* A blank line is a line.
LEMMA BlankIsLine == Blank \in Line /\ Blank.kind = "blank"
<1>1. "blank" \in Kind \ {"tree", "number"}
  BY DEF Kind
<1> QED BY <1>1 DEF Blank, Line, Text

\* What is recorded of a line is one line or two.
LEMMA RecordType ==
  ASSUME NEW l, NEW k, IsRan(l[k])
  PROVE  RecordAt(l, k) \in Seq(Line) /\ EntryAt(l, k) \in Seq(Line)
<1>1. <<l[k].answer, Blank>> \in Seq(Line) /\ <<l[k].line>> \in Seq(Line) /\ <<>> \in Seq(Line)
  BY BlankIsLine DEF IsRan
<1> QED BY <1>1, Zenon DEF RecordAt, EntryAt

\* The records of one line more.
LEMMA RecordsNext ==
  ASSUME NEW l, NEW n \in Nat, \A k \in 1 .. n + 1 : IsRan(l[k])
  PROVE  /\ Records(l, n) \in Seq(Line)
         /\ Records(l, n + 1) = Records(l, n) \o RecordAt(l, n + 1)
<1>1. \A k \in 1 .. n + 1 : RecordAt(l, k) \in Seq(Line)
  BY RecordType
<1> DEFINE s == [k \in 1 .. n |-> RecordAt(l, k)]
           t == [k \in 1 .. n + 1 |-> RecordAt(l, k)]
<1>2. PICK S : S = Seq(Line)
  OBVIOUS
<1>3. n + 1 \in 1 .. n + 1 /\ \A k \in 1 .. n : k \in 1 .. n + 1
  OBVIOUS
<1>4. s \in Seq(S) /\ Len(s) = n
  BY <1>1, <1>2, <1>3
<1>5. t \in Seq(S) /\ Len(t) = n + 1
  BY <1>1, <1>2
<1>6. PICK x \in S : x = RecordAt(l, n + 1)
  BY <1>1, <1>2, <1>3, Zenon
<1>7. t = Append(s, x)
  <2>1. Append(s, x) \in Seq(S) /\ Len(Append(s, x)) = n + 1
    BY <1>4, <1>6
  <2>2. \A k \in 1 .. n + 1 : Append(s, x)[k] = t[k]
    BY <1>4, <1>6
  <2> QED BY <1>5, <2>1, <2>2
<1>8. FlattenSeq(t) = FlattenSeq(s) \o x /\ FlattenSeq(s) \in Seq(Line)
  <2> HIDE DEF s, t
  <2>1. s \in Seq(Seq(Line)) /\ x \in Seq(Line)
    BY <1>2, <1>4, <1>6, Zenon
  <2> QED BY <1>7, <2>1, FlattenAppend, FlattenSeqType, Zenon
<1> QED BY <1>6, <1>8, Zenon DEF Records

\* No lines, no records.
LEMMA RecordsNone ==
  ASSUME NEW l
  PROVE  Records(l, 0) = <<>> /\ RecordableTo(l, 0) = {} /\ ~MutedAfter(l, 0)
<1>1. 1 .. 0 = {}
  OBVIOUS
<1>2. [k \in 1 .. 0 |-> RecordAt(l, k)] = <<>>
  OBVIOUS
<1>3. FlattenSeq(<<>>) = <<>>
  BY DEF FlattenSeq
<1> QED BY <1>1, <1>2, <1>3, Zenon DEF Records, RecordableTo, MutedAfter

-----------------------------------------------------------------------------
(* Kept, as the log grows.                                                 *)

\* Two logs that agree on their first n lines.
Agree(l, m, n) == \A k \in 1 .. n : m[k] = l[k]

\* What is kept of the lines they agree on is the same.
LEMMA KeptSame ==
  ASSUME NEW l, NEW m, NEW n \in Nat, Agree(l, m, n)
  PROVE  /\ MutedAfter(l, n) = MutedAfter(m, n)
         /\ RecordableTo(l, n) = RecordableTo(m, n)
         /\ Records(l, n) = Records(m, n)
         /\ \A x : IsLastOf(l, n, x) <=> IsLastOf(m, n, x)
<1>1. \A j \in 1 .. n : \A i \in j .. n : i \in 1 .. n
  OBVIOUS
<1>2. \A j \in 1 .. n : \A i \in j + 1 .. n : i \in 1 .. n
  OBVIOUS
<1>3. \A k \in 1 .. n : \A j \in 1 .. k : j \in 1 .. n /\ \A i \in j .. k - 1 : i \in 1 .. n
  OBVIOUS
<1>4. \A k \in 1 .. n : m[k] = l[k] /\ (RepeatAt(l, k) <=> RepeatAt(m, k))
  BY DEF Agree, RepeatAt
<1>5. MutedAfter(l, n) <=> MutedAfter(m, n)
  BY <1>1, <1>4, Zenon DEF MutedAfter
<1>6. \A x : IsLastOf(l, n, x) <=> IsLastOf(m, n, x)
  BY <1>2, <1>4, Zenon DEF IsLastOf
<1>7. \A k \in 1 .. n : MutedAt(l, k) <=> MutedAt(m, k)
  BY <1>3, <1>4, Zenon DEF MutedAt
<1>8. \A k \in 1 .. n : RecordableAt(l, k) <=> RecordableAt(m, k)
  BY <1>4, <1>7, Zenon DEF RecordableAt
<1>9. \A k \in 1 .. n : RecordableTo(l, k) = RecordableTo(m, k)
  BY <1>3, <1>8, Zenon DEF RecordableTo
<1>10. RecordableTo(l, n) = RecordableTo(m, n)
  BY <1>8, Zenon DEF RecordableTo
<1>11. \A k \in 1 .. n : RecordAt(l, k) = RecordAt(m, k)
  BY <1>4, <1>8, <1>9, Zenon DEF RecordAt, RecordedAt, EntryAt
<1>12. [k \in 1 .. n |-> RecordAt(l, k)] = [k \in 1 .. n |-> RecordAt(m, k)]
  BY <1>11
<1>13. Records(l, n) = Records(m, n)
  BY <1>12, Zenon DEF Records
<1>14. MutedAfter(l, n) = MutedAfter(m, n)
  BY <1>5, Zenon DEF MutedAfter
<1> QED BY <1>6, <1>10, <1>13, <1>14, Zenon

\* So a log that agrees may be put in the place of another.
LEMMA KeptElsewhere ==
  ASSUME NEW l, NEW m, NEW n \in Nat, Agree(l, m, n),
         NEW f, NEW e, NEW c, NEW h, NEW p, NEW b, Kept(l, n, f, e, c, h, p, b)
  PROVE  Kept(m, n, f, e, c, h, p, b)
  BY KeptSame, Zenon DEF Kept, Counts

\* The last line typed, when one line more has ended.
LEMMA LastNext ==
  ASSUME NEW l, NEW n \in Nat, NEW x
  PROVE  /\ RepeatAt(l, n + 1) /\ IsLastOf(l, n, x) => IsLastOf(l, n + 1, x)
         /\ ~RepeatAt(l, n + 1) => IsLastOf(l, n + 1, Left(l[n + 1]))
<1>1. \A k \in 1 .. n + 1 : k \in 1 .. n \/ k = n + 1
  OBVIOUS
<1>2. \A k \in 1 .. n :
         k \in 1 .. n + 1 /\ \A i \in k + 1 .. n + 1 : i \in k + 1 .. n \/ i = n + 1
  OBVIOUS
<1>3. n + 1 \in 1 .. n + 1 /\ \A i \in (n + 1) + 1 .. n + 1 : FALSE
  OBVIOUS
<1> QED BY <1>1, <1>2, <1>3, Zenon DEF IsLastOf

\* AfterRepeat: the line is not recorded and nothing else is kept of it.
LEMMA KeptRepeat ==
  ASSUME NEW l, NEW n \in Nat, \A k \in 1 .. n + 1 : IsRan(l[k]), RepeatAt(l, n + 1),
         NEW e, NEW c, NEW h, NEW p \in Seq(Line), NEW b,
         Kept(l, n, l[n + 1].file, e, c, h, p, b)
  PROVE  Kept(l, n + 1, FALSE, e, c, h, p, b)
<1>1. ~RecordableAt(l, n + 1) /\ RecordAt(l, n + 1) = <<>>
  BY DEF RecordableAt, RecordedAt, RecordAt
<1>2. Cardinality(RecordableTo(l, n + 1)) = Cardinality(RecordableTo(l, n))
  BY <1>1, RecordableNext
<1>3. Records(l, n + 1) = Records(l, n)
  BY <1>1, RecordsNext, ConcatEmptySeq
<1>4. e = ~(MutedAfter(l, n + 1) \/ FALSE)
  BY MutedNext, Zenon DEF Kept
<1> QED BY <1>2, <1>3, <1>4, LastNext, Zenon DEF Kept, Counts

\* AfterLine: the line is recorded if it was completed and recording is on,
\* recording is on, and the buffer becomes the last line.
LEMMA KeptLine ==
  ASSUME MAX_SAVED_CMDS \in Nat,
         NEW l, NEW n \in Nat, \A k \in 1 .. n + 1 : IsRan(l[k]), ~RepeatAt(l, n + 1),
         NEW e, NEW c, NEW h, NEW p \in Seq(Line), NEW b, NEW c2, NEW h2,
         Kept(l, n, l[n + 1].file, e, c, h, p, b),
         IF l[n + 1].done /\ e /\ c # MAX_SAVED_CMDS
         THEN h2 = h \o EntryAt(l, n + 1) /\ c2 = c + 1
         ELSE h2 = h /\ c2 = c
  PROVE  Kept(l, n + 1, FALSE, TRUE, c2, h2, p, Left(l[n + 1]))
<1> DEFINE r == Cardinality(RecordableTo(l, n))
           r2 == Cardinality(RecordableTo(l, n + 1))
<1>1. r \in Nat /\ r2 = r + IF RecordableAt(l, n + 1) THEN 1 ELSE 0
  BY RecordableNext
<1>2. RecordableAt(l, n + 1) <=> l[n + 1].done /\ e
  BY MutedNext, Zenon DEF Kept, RecordableAt
<1>3. c = IF r < MAX_SAVED_CMDS THEN r ELSE MAX_SAVED_CMDS
  BY Zenon DEF Kept, Counts
<1>4. c # MAX_SAVED_CMDS <=> r < MAX_SAVED_CMDS
  BY <1>1, <1>3
<1>5. c2 = IF r2 < MAX_SAVED_CMDS THEN r2 ELSE MAX_SAVED_CMDS
  <2> HIDE DEF r, r2
  <2> QED BY <1>1, <1>2, <1>3, <1>4
<1>6. RecordedAt(l, n + 1) <=> l[n + 1].done /\ e /\ c # MAX_SAVED_CMDS
  <2>1. RecordedAt(l, n + 1) <=> RecordableAt(l, n + 1) /\ r2 <= MAX_SAVED_CMDS
    BY DEF RecordedAt
  <2>2. RecordableAt(l, n + 1) => (r2 <= MAX_SAVED_CMDS <=> r < MAX_SAVED_CMDS)
    <3> HIDE DEF r, r2
    <3> QED BY <1>1
  <2> QED BY <1>2, <1>4, <2>1, <2>2, Zenon
<1>7. /\ Records(l, n) \in Seq(Line) /\ RecordAt(l, n + 1) \in Seq(Line)
      /\ Records(l, n + 1) = Records(l, n) \o RecordAt(l, n + 1)
  BY RecordsNext, RecordType
<1>8. h2 = h \o RecordAt(l, n + 1)
  <2>1. h \in Seq(Line)
    BY <1>7 DEF Kept
  <2>2. h \o <<>> = h
    BY <2>1, ConcatEmptySeq
  <2> QED BY <1>6, <2>2, Zenon DEF RecordAt
<1>9. h2 = p \o Records(l, n + 1)
  <2>1. h = p \o Records(l, n)
    BY DEF Kept
  <2>2. ASSUME NEW x \in Seq(Line), NEW y \in Seq(Line) PROVE (p \o x) \o y = p \o (x \o y)
    BY ConcatAssociative
  <2>3. (p \o Records(l, n)) \o RecordAt(l, n + 1) = p \o (Records(l, n) \o RecordAt(l, n + 1))
    BY <1>7, <2>2
  <2> QED BY <1>7, <1>8, <2>1, <2>3
<1>10. ~MutedAfter(l, n + 1)
  BY MutedNext
<1> QED BY <1>5, <1>9, <1>10, LastNext, Zenon DEF Kept, Counts

-----------------------------------------------------------------------------
(* stdin.                                                                  *)

\* A set of positions that is not empty has a first one.
LEMMA FirstPosition ==
  ASSUME NEW n \in Nat, NEW I, I \subseteq 1 .. n, I # {}
  PROVE  Min(I) \in I
<1>1. I \subseteq Nat
  OBVIOUS
<1>2. PICK x \in I : \A y \in I : <<y, x>> \notin Less
  BY <1>1, WFMin, LessWellFounded
<1>3. ASSUME NEW y \in I
      PROVE  x =< y
  <2>1. x \in Nat /\ y \in Nat
    BY <1>1
  <2>2. y < x => <<y, x>> \in Less
    BY <2>1 DEF Less
  <2>3. ~(y < x)
    BY <1>2, <2>2
  <2> QED BY <2>1, <2>3
<1> QED BY <1>3, Zenon DEF Min

\* What scanf("%d") looks at is a position of stdin, if there is any.
LEMMA WrittenPosition ==
  ASSUME stdin \in Seq(Line), Written > 0
  PROVE  /\ Written \in 1 .. Len(stdin)
         /\ AfterBlanks \in Seq(Line) /\ AfterBlanks # <<>>
<1> DEFINE I == {i \in 1 .. Len(stdin) : stdin[i].kind # "blank"}
<1>1. Written = IF I # {} THEN Min(I) ELSE 0
  BY DEF Written, SelectInSeq
<1>2. I # {}
  BY <1>1
<1>3. Min(I) \in I
  <2>1. Len(stdin) \in Nat /\ I \subseteq 1 .. Len(stdin)
    OBVIOUS
  <2> HIDE DEF I
  <2> QED BY <1>2, <2>1, FirstPosition
<1>4. Written \in 1 .. Len(stdin)
  BY <1>1, <1>2, <1>3
<1>5. PICK w \in 1 .. Len(stdin) : w = Written
  BY <1>4
<1>6. AfterBlanks = SubSeq(stdin, w, Len(stdin))
  BY <1>5 DEF AfterBlanks
<1>7. /\ SubSeq(stdin, w, Len(stdin)) \in Seq(Line)
      /\ Len(SubSeq(stdin, w, Len(stdin))) = Len(stdin) - w + 1
  OBVIOUS
<1>8. Len(SubSeq(stdin, w, Len(stdin))) > 0
  BY <1>7
<1>9. AfterBlanks \in Seq(Line) /\ Len(AfterBlanks) > 0
  BY <1>6, <1>7, <1>8, Zenon
<1>10. AfterBlanks # <<>>
  BY <1>9
<1> QED BY <1>4, <1>9, <1>10

\* The first of a sequence of lines, and the others.
LEMMA HeadIsLine ==
  ASSUME NEW s \in Seq(Line), s # <<>>
  PROVE  Head(s) \in Line /\ Tail(s) \in Seq(Line)
  OBVIOUS

\* A junk line is a line.
LEMMA JunkIsLine == Text("junk", 0) \in Line
<1>1. "junk" \in Kind \ {"tree", "number"}
  BY DEF Kind
<1> QED BY <1>1 DEF Line, Text

\* A line before others.
LEMMA LineBefore ==
  ASSUME NEW line \in Line, NEW s \in Seq(Line)
  PROVE  <<line>> \o s \in Seq(Line)
  OBVIOUS

\* TakeChar leaves lines.
LEMMA TakeCharType ==
  ASSUME stdin \in Seq(Line), TakeChar
  PROVE  stdin' \in Seq(Line)
<1>1. Tail(stdin) \in Seq(Line)
  BY HeadIsLine DEF TakeChar
<1>2. \/ stdin' = Tail(stdin)
      \/ stdin' = <<Blank>> \o Tail(stdin)
      \/ stdin' = <<Text("junk", 0)>> \o Tail(stdin)
  BY Zenon DEF TakeChar
<1> QED BY <1>1, <1>2, LineBefore, BlankIsLine, JunkIsLine, Zenon

-----------------------------------------------------------------------------
(* The stack of calls.                                                     *)

Stack(f) == f \in Seq(Frame) /\ \A i \in DOMAIN f : f[i].pc = "calls" <=> i < Len(f)

\* g is the stack of the same line as f.
SameRun(f, g) == f # <<>> /\ g # <<>> /\ Stack(g) /\ g[1].line = f[1].line

\* The innermost call goes on.
LEMMA LastGoesOn ==
  ASSUME NEW f, Stack(f), f # <<>>,
         NEW x \in Frame, x.line = f[Len(f)].line, x.pc # "calls"
  PROVE  SameRun(f, Append(SubSeq(f, 1, Len(f) - 1), x))
<1> DEFINE g == Append(SubSeq(f, 1, Len(f) - 1), x)
<1>1. PICK n \in Nat : n = Len(f) /\ n # 0
  BY DEF Stack
<1>2. f \in Seq(Frame) /\ g \in Seq(Frame) /\ Len(g) = n
  BY <1>1 DEF Stack
<1>3. \A i \in 1 .. n : g[i] = IF i < n THEN f[i] ELSE x
  BY <1>1, <1>2
<1>4. \A i \in 1 .. n : f[i].pc = "calls" <=> i < n
  BY <1>1, <1>2 DEF Stack
<1>5. \A i \in 1 .. n : g[i].pc = "calls" <=> i < n
  BY <1>3, <1>4
<1> HIDE DEF g
<1>6. g[1].line = f[1].line /\ g # <<>>
  BY <1>1, <1>2, <1>3
<1>7. SameRun(f, g)
  BY <1>1, <1>2, <1>5, <1>6 DEF SameRun, Stack
<1> QED BY <1>7 DEF g

\* The innermost call makes another.
LEMMA LastCalls ==
  ASSUME NEW f, Stack(f), f # <<>>,
         NEW x \in Frame, x.line = f[Len(f)].line, x.pc = "calls",
         NEW y \in Frame, y.pc # "calls"
  PROVE  SameRun(f, Append(Append(SubSeq(f, 1, Len(f) - 1), x), y))
<1> DEFINE h == Append(SubSeq(f, 1, Len(f) - 1), x)
           g == Append(h, y)
<1>1. PICK n \in Nat : n = Len(f) /\ n # 0
  BY DEF Stack
<1>2. f \in Seq(Frame) /\ h \in Seq(Frame) /\ Len(h) = n
  BY <1>1 DEF Stack
<1>3. \A i \in 1 .. n : h[i] = IF i < n THEN f[i] ELSE x
  BY <1>1, <1>2
<1>4. \A i \in 1 .. n : f[i].pc = "calls" <=> i < n
  BY <1>1, <1>2 DEF Stack
<1>5. \A i \in 1 .. n : h[i].pc = "calls"
  BY <1>3, <1>4
<1>6. h[1].line = f[1].line
  BY <1>1, <1>3
<1> HIDE DEF h
<1>7. g \in Seq(Frame) /\ Len(g) = n + 1 /\ g # <<>>
  <2>1. g \in Seq(Frame) /\ Len(g) = n + 1
    BY <1>2
  <2> HIDE DEF g
  <2> QED BY <1>1, <2>1
<1>8. \A i \in 1 .. n + 1 : g[i] = IF i < n + 1 THEN h[i] ELSE y
  BY <1>2
<1>9. \A i \in 1 .. n + 1 : g[i].pc = "calls" <=> i < n + 1
  BY <1>5, <1>8
<1>10. g[1].line = f[1].line
  BY <1>1, <1>6, <1>8
<1> HIDE DEF g
<1>11. SameRun(f, g)
  BY <1>7, <1>9, <1>10 DEF SameRun, Stack
<1> QED BY <1>11 DEF g, h

\* The innermost call returns to the one that made it.
LEMMA LastReturns ==
  ASSUME NEW f, Stack(f), Len(f) > 1,
         NEW x \in Frame, x.line = f[Len(f) - 1].line, x.pc # "calls"
  PROVE  SameRun(f, Append(SubSeq(f, 1, Len(f) - 2), x))
<1> DEFINE g == Append(SubSeq(f, 1, Len(f) - 2), x)
<1>1. PICK n \in Nat : n = Len(f) - 1 /\ n # 0 /\ Len(f) = n + 1 /\ Len(f) - 2 = n - 1
  BY DEF Stack
<1>2. f \in Seq(Frame) /\ g \in Seq(Frame) /\ Len(g) = n /\ f # <<>>
  BY <1>1 DEF Stack
<1>3. \A i \in 1 .. n : g[i] = IF i < n THEN f[i] ELSE x
  BY <1>1, <1>2
<1>4. \A i \in 1 .. n : f[i].pc = "calls"
  BY <1>1, <1>2 DEF Stack
<1>5. \A i \in 1 .. n : g[i].pc = "calls" <=> i < n
  BY <1>3, <1>4
<1> HIDE DEF g
<1>6. g[1].line = f[1].line /\ g # <<>>
  BY <1>1, <1>2, <1>3
<1>7. SameRun(f, g)
  BY <1>1, <1>2, <1>5, <1>6 DEF SameRun, Stack
<1> QED BY <1>7 DEF g

\* What TypeOK says of the stack.
LEMMA StackType ==
  ASSUME TypeOK
  PROVE  /\ Stack(frames)
         /\ frames # <<>> => /\ top \in Frame /\ Len(frames) \in Nat /\ Len(frames) # 0
                             /\ \A i \in 1 .. Len(frames) - 1 : frames[i] \in Frame
<1>1. Stack(frames)
  BY DEF TypeOK, Stack
<1>2. frames \in Seq(Frame)
  BY <1>1 DEF Stack
<1>3. ASSUME frames # <<>> PROVE Len(frames) \in Nat /\ Len(frames) # 0
  BY <1>2, <1>3
<1>4. ASSUME frames # <<>> PROVE top \in Frame
  BY <1>2, <1>3, <1>4 DEF top
<1>5. \A i \in 1 .. Len(frames) - 1 : frames[i] \in Frame
  BY <1>2
<1> QED BY <1>1, <1>3, <1>4, <1>5

\* Return leaves the stack of the same line.
LEMMA ReturnStack ==
  ASSUME TypeOK, frames # <<>>, NEW status \in {"COMPLETE", "refused"}, Return(status)
  PROVE  SameRun(frames, frames')
<1> DEFINE x == [top EXCEPT !.pc = "return", !.status = status]
<1>1. x \in Frame /\ x.line = top.line /\ x.pc # "calls"
  BY StackType DEF Frame
<1>2. frames' = Append(SubSeq(frames, 1, Len(frames) - 1), x)
  BY DEF Return, Returned, Below
<1> HIDE DEF x
<1> QED BY <1>1, <1>2, StackType, LastGoesOn, Zenon DEF top

\* So does Nest.
LEMMA NestStack ==
  ASSUME TypeOK, frames # <<>>, NEW fn \in Function, NEW line \in Line, Nest(fn, line)
  PROVE  SameRun(frames, frames')
<1> DEFINE x == [top EXCEPT !.pc = "calls"]
           y == Call(fn, line)
<1>1. x \in Frame /\ x.line = top.line /\ x.pc = "calls"
  BY StackType DEF Frame
<1>2. y \in Frame /\ y.pc # "calls"
  BY DEF Call, Frame
<1>3. frames' = Append(Append(SubSeq(frames, 1, Len(frames) - 1), x), y)
  BY DEF Nest, Below
<1> HIDE DEF x, y
<1> QED BY <1>1, <1>2, <1>3, StackType, LastCalls, Zenon DEF top

-----------------------------------------------------------------------------
(* The steps that leave the log alone.                                     *)

recorded == <<history_file, past, cmd_counter, cmd_recording_enabled,
              last_command_input_buffer>>
Fault == {"none", "write past tokens", "write past cmd_offset"}

\* The parts of TypeOK.
LEMMA Types ==
  TypeOK <=>
    /\ stdin \in Seq(Line) /\ keyed \in 0 .. MaxTyped
    /\ history_file \in Seq(Line) /\ past \in Seq(Line)
    /\ cons_input_buffer \in Buffer /\ last_command_input_buffer \in Buffer
    /\ cmd_recording_enabled \in BOOLEAN
    /\ cmd_counter \in 0 .. MAX_SAVED_CMDS
    /\ Stack(frames) /\ fault \in Fault /\ restarts \in 0 .. MaxRestarts
    /\ log \in Seq(Ran)
  BY Zenon DEF TypeOK, Stack, Fault

\* And of TypeOK after a step.
LEMMA TypesNext ==
  TypeOK' <=>
    /\ stdin' \in Seq(Line) /\ keyed' \in 0 .. MaxTyped
    /\ history_file' \in Seq(Line) /\ past' \in Seq(Line)
    /\ cons_input_buffer' \in Buffer /\ last_command_input_buffer' \in Buffer
    /\ cmd_recording_enabled' \in BOOLEAN
    /\ cmd_counter' \in 0 .. MAX_SAVED_CMDS
    /\ Stack(frames') /\ fault' \in Fault /\ restarts' \in 0 .. MaxRestarts
    /\ log' \in Seq(Ran)
  BY Zenon DEF TypeOK, Stack, Fault

\* A line under way goes on: stdin and the stack change, and nothing that is
\* kept.
LEMMA GoesOn ==
  ASSUME IInv, SameRun(frames, frames'), stdin' \in Seq(Line), fault' \in Fault,
         UNCHANGED <<userVars, recorded, cons_input_buffer, log>>
  PROVE  IInv'
<1>1. TypeOK'
  BY Types, TypesNext, Zenon DEF IInv, userVars, recorded, SameRun
<1>2. RunsLast'
  BY Zenon DEF IInv, RunsLast, SameRun
<1>3. Finished' = Finished /\ Loading' = Loading
  BY Zenon DEF SameRun, Finished, Loading
<1>4. KeepsLog'
  BY <1>3, Zenon DEF IInv, KeepsLog, recorded
<1> QED BY <1>1, <1>2, <1>4, Zenon DEF IInv

\* The entry of the line under way is changed: the lines that have ended, and
\* what is kept of them, stay.
LEMMA NotesStep ==
  ASSUME IInv, frames # <<>>, NEW e \in Ran, log' = [log EXCEPT ![Len(log)] = e]
  PROVE  /\ log' \in Seq(Ran) /\ Len(log') = Len(log) /\ log' # <<>>
         /\ Len(log) \in Nat /\ Len(log) # 0 /\ Finished = Len(log) - 1
         /\ log'[Len(log)] = e
         /\ Agree(log, log', Len(log) - 1)
<1>1. log \in Seq(Ran) /\ log # <<>>
  BY Types DEF IInv, RunsLast
<1>2. PICK n \in Nat : n = Len(log) /\ n # 0
  BY <1>1
<1>3. log' \in Seq(Ran) /\ Len(log') = n /\ log'[n] = e
  BY <1>1, <1>2
<1>4. \A k \in 1 .. n - 1 : log'[k] = log[k]
  BY <1>1, <1>2
<1>5. log' # <<>>
  BY <1>2, <1>3
<1>6. Finished = Len(log) - 1
  BY DEF Finished
<1> QED BY <1>2, <1>3, <1>4, <1>5, <1>6 DEF Agree

-----------------------------------------------------------------------------
(* The steps, one by one.                                                  *)

\* Init.
LEMMA InitStep == Init => IInv
<1> SUFFICES ASSUME Init
             PROVE  IInv
  OBVIOUS
<1>1. Empty \in Buffer /\ Empty.line = Blank
  BY BlankIsLine DEF Empty, Buffer
<1>2. /\ <<>> \in Seq(Line) /\ <<>> \in Seq(Ran) /\ Stack(<<>>)
  BY DEF Stack
<1>3. 0 \in 0 .. MaxTyped /\ 0 \in 0 .. MAX_SAVED_CMDS /\ 0 \in 0 .. MaxRestarts
  BY ConsoleAssumption
<1>4. "none" \in Fault
  BY DEF Fault
<1>5. history_file \in Seq(Line) /\ past = history_file
  BY ConsoleAssumption DEF Init
<1>6. TypeOK
  BY <1>1, <1>2, <1>3, <1>4, <1>5, Types, Zenon DEF Init
<1>7. Finished = 0 /\ Loading = FALSE
  BY DEF Init, Finished, Loading
<1>8. Counts(0, log, 0)
  <2>1. Cardinality(RecordableTo(log, 0)) = 0
    BY RecordsNone, FS_EmptySet, Zenon
  <2>2. 0 = IF 0 < MAX_SAVED_CMDS THEN 0 ELSE MAX_SAVED_CMDS
    BY ConsoleAssumption
  <2> QED BY <2>1, <2>2, Zenon DEF Counts
<1>9. history_file = past \o Records(log, 0)
  BY <1>5, RecordsNone, ConcatEmptySeq
<1>10. IsLastOf(log, 0, Blank)
  BY DEF IsLastOf
<1>11. KeepsLog
  BY <1>1, <1>7, <1>8, <1>9, <1>10, RecordsNone DEF KeepsLog, Kept, Init
<1>12. RunsLast
  BY DEF RunsLast, Init
<1> QED BY <1>6, <1>11, <1>12 DEF IInv

\* Type.
LEMMA TypeStep == IInv /\ Type => IInv'
<1> SUFFICES ASSUME IInv, Type
             PROVE  IInv'
  OBVIOUS
<1>1. stdin' \in Seq(Line)
  <2>1. PICK line \in Typed : stdin' = Append(stdin, line)
    BY DEF Type
  <2>2. line \in Line
    BY ConsoleAssumption
  <2>3. stdin \in Seq(Line)
    BY Types DEF IInv
  <2> QED BY <2>1, <2>2, <2>3
<1>2. keyed' \in 0 .. MaxTyped
  <2>1. keyed \in 0 .. MaxTyped /\ MaxTyped \in Nat
    BY ConsoleAssumption, Types DEF IInv
  <2> QED BY <2>1 DEF Type
<1>3. UNCHANGED <<restarts, recorded, cons_input_buffer, frames, fault, log>>
  BY DEF Type, recorded, recordVars, bufferVars
<1>4. TypeOK'
  BY <1>1, <1>2, <1>3, Types, TypesNext, Zenon DEF IInv, recorded
<1>5. Finished' = Finished /\ Loading' = Loading
  BY <1>3, Zenon DEF Finished, Loading
<1>6. RunsLast' /\ KeepsLog'
  BY <1>3, <1>5, Zenon DEF IInv, RunsLast, KeepsLog, recorded
<1> QED BY <1>4, <1>6 DEF IInv

\* Restart.
LEMMA RestartStep == IInv /\ Restart => IInv'
<1> SUFFICES ASSUME IInv, Restart
             PROVE  IInv'
  OBVIOUS
<1>1. Empty \in Buffer /\ Empty.line = Blank
  BY BlankIsLine DEF Empty, Buffer
<1>2. <<>> \in Seq(Line) /\ <<>> \in Seq(Ran) /\ Stack(<<>>)
  BY DEF Stack
<1>3. 0 \in 0 .. MAX_SAVED_CMDS /\ "none" \in Fault /\ TRUE \in BOOLEAN
  BY ConsoleAssumption DEF Fault
<1>4. restarts' \in 0 .. MaxRestarts
  <2>1. restarts \in 0 .. MaxRestarts /\ MaxRestarts \in Nat
    BY ConsoleAssumption, Types DEF IInv
  <2> QED BY <2>1 DEF Restart
<1>5. history_file \in Seq(Line) /\ past' = history_file /\ history_file' = history_file
  BY Types DEF IInv, Restart
<1>6. TypeOK'
  BY <1>1, <1>2, <1>3, <1>4, <1>5, Types, TypesNext, Zenon DEF IInv, Restart
<1>7. Finished' = 0 /\ Loading' = FALSE
  BY DEF Restart, Finished, Loading
<1>8. Counts(0, log', 0)
  <2>1. Cardinality(RecordableTo(log', 0)) = 0
    BY RecordsNone, FS_EmptySet, Zenon
  <2>2. 0 = IF 0 < MAX_SAVED_CMDS THEN 0 ELSE MAX_SAVED_CMDS
    BY ConsoleAssumption
  <2> QED BY <2>1, <2>2, Zenon DEF Counts
<1>9. history_file' = past' \o Records(log', 0)
  BY <1>5, RecordsNone, ConcatEmptySeq
<1>10. IsLastOf(log', 0, Blank)
  BY DEF IsLastOf
<1>11. KeepsLog'
  BY <1>1, <1>7, <1>8, <1>9, <1>10, RecordsNone DEF KeepsLog, Kept, Restart
<1>12. RunsLast'
  BY DEF RunsLast, Restart
<1> QED BY <1>6, <1>11, <1>12 DEF IInv

\* What the parse of a line knows: it is a line of the stack.
LEMMA UnderWay ==
  ASSUME IInv, frames # <<>>
  PROVE  /\ TypeOK /\ Stack(frames) /\ top \in Frame
         /\ stdin \in Seq(Line) /\ fault \in Fault
         /\ history_file \in Seq(Line) /\ log \in Seq(Ran)
         /\ last_command_input_buffer \in Buffer /\ cons_input_buffer \in Buffer
  BY Types, StackType, Zenon DEF IInv

\* A line ends the parse with an outcome and changes nothing that is kept.
LEMMA ReturnStep ==
  ASSUME IInv, frames # <<>>, stdin' \in Seq(Line), fault' \in Fault,
         NEW status \in {"COMPLETE", "refused"}, Return(status),
         UNCHANGED <<userVars, bufferVars, recordVars, log>>
  PROVE  IInv'
<1>1. SameRun(frames, frames')
  BY UnderWay, ReturnStack, Zenon
<1>2. UNCHANGED <<userVars, recorded, cons_input_buffer, log>>
  BY DEF userVars, bufferVars, recordVars, recorded
<1> QED BY <1>1, <1>2, GoesOn, Zenon

\* A line makes a call and changes nothing that is kept.
LEMMA NestStep ==
  ASSUME IInv, frames # <<>>, stdin' \in Seq(Line),
         NEW fn \in Function, NEW line \in Line, Nest(fn, line),
         UNCHANGED <<userVars, bufferVars, recordVars, fault, log>>
  PROVE  IInv'
<1>1. SameRun(frames, frames')
  BY UnderWay, NestStack, Zenon
<1>2. UNCHANGED <<userVars, recorded, cons_input_buffer, log>>
  BY DEF userVars, bufferVars, recordVars, recorded
<1>3. fault' \in Fault
  BY UnderWay
<1> QED BY <1>1, <1>2, <1>3, GoesOn, Zenon

\* TreeLine, NoTokens, TooManyTokens, NoHistory, NoFile and EndOfFile.
LEMMA OutcomeSteps ==
  IInv /\ (\/ TreeLine \/ NoTokens \/ TooManyTokens
           \/ NoHistory \/ NoFile \/ EndOfFile) => IInv'
<1> SUFFICES ASSUME IInv,
                    TreeLine \/ NoTokens \/ TooManyTokens \/ NoHistory \/ NoFile \/ EndOfFile
             PROVE  IInv'
  OBVIOUS
<1>1. frames # <<>>
  BY Zenon DEF TreeLine, NoTokens, TooManyTokens, NoHistory, NoFile, EndOfFile, Parses
<1>2. \E status \in {"COMPLETE", "refused"} : Return(status)
  BY DEF TreeLine, NoTokens, TooManyTokens, NoHistory, NoFile, EndOfFile
<1>3. UNCHANGED <<stdin, userVars, bufferVars, recordVars, log>>
  BY Zenon DEF TreeLine, NoTokens, TooManyTokens, NoHistory, NoFile, EndOfFile
<1>4. fault' \in Fault
  <2>1. fault' = fault \/ fault' \in {"none", "write past tokens"}
    BY Zenon DEF TreeLine, NoTokens, TooManyTokens, NoHistory, NoFile, EndOfFile
  <2>2. fault \in Fault
    BY <1>1, UnderWay
  <2> QED BY <2>1, <2>2 DEF Fault
<1>5. stdin' \in Seq(Line)
  BY <1>1, <1>3, UnderWay
<1>6. PICK status \in {"COMPLETE", "refused"} : Return(status)
  BY <1>2
<1> QED BY <1>1, <1>3, <1>4, <1>5, <1>6, ReturnStep, Zenon

\* TooLongHistory: the process is no more.
LEMMA TooLongHistoryStep == IInv /\ TooLongHistory => IInv'
<1> SUFFICES ASSUME IInv, TooLongHistory
             PROVE  IInv'
  OBVIOUS
<1>1. frames # <<>> /\ fault' \in Fault
  BY DEF TooLongHistory, Parses, Fault
<1>2. UNCHANGED <<stdin, userVars, bufferVars, recordVars, frames, log>>
  BY DEF TooLongHistory
<1>3. SameRun(frames, frames') /\ stdin' \in Seq(Line)
  BY <1>1, <1>2, UnderWay DEF SameRun
<1>4. UNCHANGED <<userVars, recorded, cons_input_buffer, log>>
  BY <1>2 DEF userVars, bufferVars, recordVars, recorded
<1> QED BY <1>1, <1>3, <1>4, GoesOn, Zenon

\* Repeat: the last command is a line.
LEMMA RepeatStep == IInv /\ Repeat => IInv'
<1> SUFFICES ASSUME IInv, Repeat
             PROVE  IInv'
  OBVIOUS
<1>1. frames # <<>>
  BY DEF Repeat, Parses
<1>2. last_command_input_buffer.line \in Line /\ "parse_input_cmd" \in Function
  BY <1>1, UnderWay DEF Buffer, Function
<1>3. stdin' \in Seq(Line)
  BY <1>1, UnderWay, TakeCharType DEF Repeat
<1> QED BY <1>1, <1>2, <1>3, NestStep, Zenon DEF Repeat

\* FileLine: a line of the file is a line.
LEMMA FileLineStep == IInv /\ FileLine => IInv'
<1> SUFFICES ASSUME IInv, FileLine
             PROVE  IInv'
  OBVIOUS
<1>1. frames # <<>>
  BY DEF FileLine
<1>2. PICK line \in Typed : Nest("build_tlv_buffer", line)
  BY DEF FileLine
<1>3. line \in Line /\ "build_tlv_buffer" \in Function
  BY ConsoleAssumption DEF Function
<1>4. stdin' \in Seq(Line) /\ UNCHANGED <<userVars, bufferVars, recordVars, fault, log>>
  BY <1>1, UnderWay DEF FileLine
<1> QED BY <1>1, <1>2, <1>3, <1>4, NestStep, Zenon

\* ShowHistory: a line of the history is a line, and so is what is after it.
LEMMA ShowHistoryStep == IInv /\ ShowHistory => IInv'
<1> SUFFICES ASSUME IInv, ShowHistory
             PROVE  IInv'
  OBVIOUS
<1>1. frames # <<>>
  BY DEF ShowHistory, Parses
<1> DEFINE lines == Append(history_file, Blank)
<1>2. \A choice \in DOMAIN lines : lines[choice] \in Line
  BY <1>1, UnderWay, BlankIsLine
<1>3. AfterBlanks \in Seq(Line) /\ AfterBlanks # <<>>
  BY <1>1, UnderWay, WrittenPosition DEF ShowHistory
<1>4. stdin' \in Seq(Line)
  <2>1. stdin' = <<Blank>> \o Tail(AfterBlanks) \/ stdin' = AfterBlanks
    BY Zenon DEF ShowHistory
  <2>2. Tail(AfterBlanks) \in Seq(Line)
    BY <1>3, HeadIsLine
  <2> QED BY <1>3, <2>1, <2>2, LineBefore, BlankIsLine, Zenon
<1>5. UNCHANGED <<userVars, bufferVars, recordVars, fault, log>>
  BY DEF ShowHistory
<1>6. \/ \E choice \in DOMAIN lines : Nest("parse_input_cmd", lines[choice])
      \/ Return("COMPLETE")
  BY Zenon DEF ShowHistory
<1>7. CASE Return("COMPLETE")
  <2>1. fault' \in Fault /\ "COMPLETE" \in {"COMPLETE", "refused"}
    BY <1>1, <1>5, UnderWay
  <2> QED BY <1>1, <1>4, <1>5, <1>7, <2>1, ReturnStep, Zenon
<1>8. CASE \E choice \in DOMAIN lines : Nest("parse_input_cmd", lines[choice])
  <2>1. "parse_input_cmd" \in Function
    BY DEF Function
  <2> HIDE DEF lines
  <2> QED BY <1>1, <1>2, <1>4, <1>5, <1>8, <2>1, NestStep, Zenon
<1> QED BY <1>6, <1>7, <1>8, Zenon

\* ReturnToCaller.
LEMMA ReturnToCallerStep == IInv /\ ReturnToCaller => IInv'
<1> SUFFICES ASSUME IInv, ReturnToCaller
             PROVE  IInv'
  OBVIOUS
<1>1. Len(frames) > 1
  BY DEF ReturnToCaller
<1>2. frames # <<>>
  BY <1>1
<1> DEFINE caller == Last(Below)
           x == [caller EXCEPT !.pc = IF caller.fn = "parse_file" THEN "parse" ELSE "return"]
<1>3. caller = frames[Len(frames) - 1] /\ caller \in Frame
  <2>1. frames \in Seq(Frame)
    BY <1>2, UnderWay DEF Stack
  <2>2. PICK n \in Nat : n = Len(frames) - 1 /\ n > 0 /\ Len(frames) = n + 1
    BY <1>1, <2>1
  <2>3. SubSeq(frames, 1, n) \in Seq(Frame) /\ Len(SubSeq(frames, 1, n)) = n
        /\ SubSeq(frames, 1, n)[n] = frames[n] /\ frames[n] \in Frame
    BY <2>1, <2>2
  <2> QED BY <2>2, <2>3 DEF Last, Below
<1>4. x \in Frame /\ x.line = caller.line /\ x.pc # "calls"
  <2> HIDE DEF caller
  <2> QED BY <1>3 DEF Frame
<1>5. frames' = Append(SubSeq(frames, 1, Len(frames) - 2), x)
  BY Zenon DEF ReturnToCaller
<1>6. SameRun(frames, frames')
  <2> HIDE DEF x, caller
  <2> QED BY <1>1, <1>2, <1>3, <1>4, <1>5, UnderWay, LastReturns, Zenon
<1>7. UNCHANGED <<stdin, userVars, recorded, cons_input_buffer, fault, log>>
  BY DEF ReturnToCaller, userVars, bufferVars, recordVars, recorded
<1>8. stdin' \in Seq(Line) /\ fault' \in Fault
  BY <1>2, <1>7, UnderWay
<1> QED BY <1>6, <1>7, <1>8, GoesOn, Zenon

\* AskChoice: what is left of the answer is in the buffer, and the log says so.
LEMMA AskChoiceStep == IInv /\ AskChoice => IInv'
<1> SUFFICES ASSUME IInv, AskChoice
             PROVE  IInv'
  OBVIOUS
<1> DEFINE answer == Head(AfterBlanks)
           rest == IF answer.kind = "number" THEN Blank ELSE answer
           last == log[Len(log)]
           e == [last EXCEPT !.asked = TRUE, !.answer = rest]
<1>1. frames # <<>>
  BY DEF AskChoice, Parses
<1>2. AfterBlanks \in Seq(Line) /\ AfterBlanks # <<>>
  BY <1>1, UnderWay, WrittenPosition DEF AskChoice
<1>3. rest \in Line /\ Tail(AfterBlanks) \in Seq(Line)
  BY <1>2, HeadIsLine, BlankIsLine
<1>4. /\ stdin' = Tail(AfterBlanks)
      /\ cons_input_buffer' = [line |-> rest, newline |-> TRUE]
      /\ log' = [log EXCEPT ![Len(log)].asked = TRUE, ![Len(log)].answer = rest]
  BY Zenon DEF AskChoice
<1>5. \E status \in {"COMPLETE", "refused"} : Return(status)
  BY DEF AskChoice
<1>6. UNCHANGED <<userVars, recorded, fault>>
  BY DEF AskChoice, userVars, recordVars, recorded
<1> HIDE DEF rest, answer
<1>7. log \in Seq(Ran) /\ log # <<>> /\ last \in Ran
  <2>1. log \in Seq(Ran) /\ log # <<>>
    BY <1>1, UnderWay DEF IInv, RunsLast
  <2> QED BY <2>1
<1>8. log' = [log EXCEPT ![Len(log)] = e]
  BY <1>4, <1>7
<1>9. /\ e \in Ran /\ e.line = last.line /\ e.file = last.file
      /\ e.asked = TRUE /\ e.answer = rest
  BY <1>3, <1>7 DEF Ran
<1> HIDE DEF e, last
<1>10. /\ log' \in Seq(Ran) /\ Len(log') = Len(log) /\ log' # <<>>
       /\ Len(log) \in Nat /\ Finished = Len(log) - 1
       /\ log'[Len(log)] = e /\ Agree(log, log', Len(log) - 1) /\ Len(log) # 0
  BY <1>1, <1>8, <1>9, NotesStep
<1>11. SameRun(frames, frames')
  BY <1>1, <1>5, UnderWay, ReturnStack
<1>12. cons_input_buffer' \in Buffer
  BY <1>3, <1>4 DEF Buffer
<1>13. TypeOK'
  BY <1>3, <1>4, <1>6, <1>10, <1>11, <1>12, Types, TypesNext, Zenon
     DEF IInv, userVars, recorded, SameRun
<1>14. RunsLast'
  <2>1. frames[1].line = last.line
    BY <1>1 DEF IInv, RunsLast, last
  <2> QED BY <1>4, <1>9, <1>10, <1>11, <2>1, Zenon DEF RunsLast, SameRun, Left
<1>15. Finished' = Finished /\ Loading' = Loading /\ Finished \in Nat
  <2>1. Finished' = Len(log) - 1 /\ Len(log) - 1 \in Nat
    BY <1>10, <1>11 DEF Finished, SameRun
  <2>2. Loading' = last.file /\ Loading = last.file
    BY <1>1, <1>9, <1>10, <1>11, <1>7 DEF Loading, SameRun, last, Ran
  <2> QED BY <1>10, <2>1, <2>2
<1>16. KeepsLog'
  <2>1. KeepsLog /\ Agree(log, log', Finished)
    BY <1>10 DEF IInv
  <2> QED BY <1>6, <1>15, <2>1, KeptElsewhere, Zenon DEF KeepsLog, recorded
<1> QED BY <1>13, <1>14, <1>16 DEF IInv

\* OpenFile: the file is noted and recording is off.
LEMMA OpenFileStep == IInv /\ OpenFile => IInv'
<1> SUFFICES ASSUME IInv, OpenFile
             PROVE  IInv'
  OBVIOUS
<1> DEFINE last == log[Len(log)]
           e == [last EXCEPT !["file"] = TRUE]
<1>1. frames # <<>>
  BY DEF OpenFile, Parses
<1>2. SameRun(frames, frames')
  <2>1. "parse_file" \in Function /\ Blank \in Line
    BY BlankIsLine DEF Function
  <2> QED BY <1>1, <2>1, UnderWay, NestStack, Zenon DEF OpenFile
<1>3. /\ UNCHANGED <<stdin, userVars, bufferVars, history_file, cmd_counter, fault>>
      /\ cmd_recording_enabled' = FALSE
  BY DEF OpenFile
<1>4. log \in Seq(Ran) /\ log # <<>> /\ last \in Ran
  <2>1. log \in Seq(Ran) /\ log # <<>>
    BY <1>1, UnderWay DEF IInv, RunsLast
  <2> QED BY <2>1
<1>5. log' = [log EXCEPT ![Len(log)] = e]
  BY <1>4 DEF OpenFile, Note
<1>6. /\ e \in Ran /\ e.line = last.line /\ e.file = TRUE
      /\ e.asked = last.asked /\ e.answer = last.answer
  BY <1>4 DEF Ran
<1> HIDE DEF e, last
<1>7. /\ log' \in Seq(Ran) /\ Len(log') = Len(log) /\ log' # <<>>
      /\ Len(log) \in Nat /\ Finished = Len(log) - 1
      /\ log'[Len(log)] = e /\ Agree(log, log', Len(log) - 1) /\ Len(log) # 0
  BY <1>1, <1>5, <1>6, NotesStep
<1>8. TypeOK'
  <2>1. cmd_recording_enabled' \in BOOLEAN
    BY <1>3
  <2> QED BY <1>2, <1>3, <1>7, <2>1, Types, TypesNext, Zenon
          DEF IInv, userVars, bufferVars, SameRun
<1>9. RunsLast'
  <2>1. frames[1].line = last.line
        /\ cons_input_buffer = [line |-> Left(last), newline |-> last.asked]
    BY <1>1 DEF IInv, RunsLast, last
  <2>2. Left(e) = Left(last)
    BY <1>6, Zenon DEF Left
  <2> QED BY <1>2, <1>3, <1>6, <1>7, <2>1, <2>2, Zenon DEF RunsLast, SameRun, bufferVars
<1>10. Finished' = Finished /\ Loading' = TRUE /\ Finished \in Nat
  <2>1. Finished' = Len(log) - 1 /\ Len(log) - 1 \in Nat
    BY <1>2, <1>7 DEF Finished, SameRun
  <2>2. Loading' = TRUE
    BY <1>2, <1>6, <1>7 DEF Loading, SameRun
  <2> QED BY <1>7, <2>1, <2>2
<1>11. KeepsLog'
  <2>1. KeepsLog /\ Agree(log, log', Finished)
    BY <1>7 DEF IInv
  <2>2. Kept(log', Finished, Loading, cmd_recording_enabled, cmd_counter,
             history_file, past, last_command_input_buffer.line)
    BY <1>10, <2>1, KeptElsewhere, Zenon DEF KeepsLog
  <2>3. Kept(log', Finished, TRUE, FALSE, cmd_counter,
             history_file, past, last_command_input_buffer.line)
    BY <2>2 DEF Kept
  <2>4. UNCHANGED <<cmd_counter, history_file, past, last_command_input_buffer>>
    BY <1>3 DEF userVars, bufferVars
  <2> QED BY <1>3, <1>10, <2>3, <2>4, Zenon DEF KeepsLog
<1> QED BY <1>8, <1>9, <1>11 DEF IInv

\* ReadLine: the lines of the log have all ended, and one more begins.
LEMMA ReadLineStep == IInv /\ ReadLine => IInv'
<1> SUFFICES ASSUME IInv, ReadLine
             PROVE  IInv'
  OBVIOUS
<1> DEFINE line == Head(stdin)
           e == [line |-> line, done |-> FALSE, file |-> FALSE, asked |-> FALSE,
                 answer |-> Blank]
<1>1. TypeOK /\ RunsLast /\ KeepsLog
  BY DEF IInv
<1>2. stdin' \in Seq(Line) /\ line \in Line
  BY <1>1, Types, HeadIsLine DEF ReadLine
<1>3. UNCHANGED <<userVars, recorded, fault>>
  BY DEF ReadLine, userVars, recordVars, recorded
<1>4. frames = <<>> /\ log \in Seq(Ran)
  BY <1>1, Types DEF ReadLine
<1>5. Finished = Len(log) /\ Loading = FALSE /\ Finished \in Nat
  BY <1>4 DEF Finished, Loading
<1>6. CASE UNCHANGED <<cons_input_buffer, frames, log>>
  <2>1. TypeOK'
    BY <1>1, <1>2, <1>3, <1>6, Types, TypesNext, Zenon DEF userVars, recorded
  <2>2. Finished' = Finished /\ Loading' = Loading
    BY <1>6, Zenon DEF Finished, Loading
  <2>3. RunsLast' /\ KeepsLog'
    BY <1>1, <1>3, <1>6, <2>2, Zenon DEF RunsLast, KeepsLog, recorded
  <2> QED BY <2>1, <2>3 DEF IInv
<1>7. CASE /\ cons_input_buffer' = [line |-> line, newline |-> FALSE]
           /\ frames' = <<Call("parse_input_cmd", line)>>
           /\ log' = Append(log, e)
  <2>1. e \in Ran /\ e.line = line /\ ~e.file /\ e.asked = FALSE
    BY <1>2, BlankIsLine DEF Ran
  <2>2. cons_input_buffer' \in Buffer
    BY <1>2, <1>7 DEF Buffer
  <2>3. Stack(frames') /\ frames'[1].line = line /\ frames' # <<>>
    <3>1. /\ Call("parse_input_cmd", line) \in Frame
          /\ Call("parse_input_cmd", line).pc # "calls"
          /\ Call("parse_input_cmd", line).line = line
      BY <1>2 DEF Call, Frame, Function
    <3>2. ASSUME NEW c \in Frame, c.pc # "calls"
          PROVE  Stack(<<c>>) /\ <<c>>[1] = c /\ <<c>> # <<>>
      BY <3>2 DEF Stack
    <3> QED BY <1>7, <3>1, <3>2, Zenon
  <2> HIDE DEF e
  <2>4. PICK n \in Nat : n = Len(log)
    BY <1>4
  <2>5. /\ log' \in Seq(Ran) /\ Len(log') = n + 1 /\ log' # <<>> /\ log'[n + 1] = e
        /\ Agree(log, log', n)
    BY <1>4, <1>7, <2>1, <2>4 DEF Agree
  <2>6. TypeOK'
    BY <1>1, <1>2, <1>3, <2>2, <2>3, <2>5, Types, TypesNext, Zenon DEF userVars, recorded
  <2>7. RunsLast'
    <3>1. Left(e) = line
      BY <2>1 DEF Left
    <3> QED BY <1>7, <2>1, <2>3, <2>5, <3>1, Zenon DEF RunsLast
  <2>8. Finished' = Finished /\ Loading' = FALSE
    BY <1>5, <2>1, <2>3, <2>4, <2>5 DEF Finished, Loading
  <2>9. KeepsLog'
    BY <1>1, <1>3, <1>5, <2>4, <2>5, <2>8, KeptElsewhere, Zenon DEF KeepsLog, recorded
  <2> QED BY <2>6, <2>7, <2>9 DEF IInv
<1>8. \/ UNCHANGED <<cons_input_buffer, frames, log>>
      \/ /\ cons_input_buffer' = [line |-> line, newline |-> FALSE]
         /\ frames' = <<Call("parse_input_cmd", line)>>
         /\ log' = Append(log, e)
  BY Zenon DEF ReadLine
<1> QED BY <1>6, <1>7, <1>8

\* The line under way ends: what the lemmas about Kept say of its log.
LEMMA Ending ==
  ASSUME IInv, EndsLine
  PROVE  /\ log \in Seq(Ran) /\ Len(log) \in Nat /\ Len(log) # 0 /\ frames # <<>>
         /\ Finished = Len(log) - 1 /\ Finished \in Nat /\ Finished + 1 = Len(log)
         /\ top.line = log[Len(log)].line
         /\ \A k \in 1 .. Len(log) : IsRan(log[k])
         /\ Loading = log[Len(log)].file
         /\ log[Len(log)] \in Ran
<1>1. frames # <<>> /\ top = frames[1]
  BY DEF EndsLine, top
<1>2. log \in Seq(Ran) /\ log # <<>> /\ top.line = log[Len(log)].line
  BY <1>1, UnderWay DEF IInv, RunsLast
<1>3. PICK n \in Nat : n = Len(log) /\ n # 0
  BY <1>2
<1>4. ASSUME NEW k \in 1 .. n
      PROVE  IsRan(log[k])
  <2>1. log[k] \in Ran
    BY <1>2, <1>3
  <2> QED BY <2>1 DEF Ran, IsRan
<1>5. Finished = n - 1
  BY <1>1, <1>3 DEF Finished
<1>6. log[n] \in Ran
  BY <1>2, <1>3
<1>7. Loading = log[n].file
  BY <1>1, <1>3, <1>6 DEF Loading, Ran
<1> QED BY <1>1, <1>2, <1>3, <1>4, <1>5, <1>6, <1>7

\* AfterRepeat.
LEMMA AfterRepeatStep == IInv /\ AfterRepeat => IInv'
<1> SUFFICES ASSUME IInv, AfterRepeat
             PROVE  IInv'
  OBVIOUS
<1>1. EndsLine /\ frames' = <<>> /\ top.line.kind = "repeat" /\ cons_input_buffer' = Empty
  BY DEF AfterRepeat
<1>2. UNCHANGED <<stdin, userVars, recorded, fault, log>>
  BY DEF AfterRepeat, userVars, recordVars, recorded
<1>3. Empty \in Buffer /\ Stack(<<>>)
  BY BlankIsLine DEF Empty, Buffer, Stack
<1>4. TypeOK'
  BY <1>1, <1>2, <1>3, Types, TypesNext, Zenon DEF IInv, userVars, recorded
<1>5. RunsLast'
  BY <1>1 DEF RunsLast
<1>6. Finished' = Finished + 1 /\ Loading' = FALSE
  BY <1>1, <1>2, Ending DEF Finished, Loading
<1>7. RepeatAt(log, Finished + 1) /\ \A k \in 1 .. Finished + 1 : IsRan(log[k])
  BY <1>1, Ending DEF RepeatAt
<1>8. Kept(log, Finished, log[Finished + 1].file, cmd_recording_enabled, cmd_counter,
           history_file, past, last_command_input_buffer.line)
  BY <1>1, Ending, Zenon DEF IInv, KeepsLog
<1>9. past \in Seq(Line) /\ Finished \in Nat
  BY <1>1, Types, Ending DEF IInv
<1>10. Kept(log, Finished + 1, FALSE, cmd_recording_enabled, cmd_counter,
            history_file, past, last_command_input_buffer.line)
  BY <1>7, <1>8, <1>9, KeptRepeat, Zenon
<1>11. KeepsLog'
  BY <1>2, <1>6, <1>10, Zenon DEF KeepsLog, recorded
<1> QED BY <1>4, <1>5, <1>11 DEF IInv

\* record_command appends the entry of a line.
LEMMA RecordCommandEntry ==
  ASSUME history_file \in Seq(Line), record_command,
         NEW l, NEW k, IsRan(l[k]),
         cons_input_buffer = [line |-> Left(l[k]), newline |-> l[k].asked],
         l[k].asked \in BOOLEAN
  PROVE  IF cmd_counter # MAX_SAVED_CMDS
         THEN history_file' = history_file \o EntryAt(l, k) /\ cmd_counter' = cmd_counter + 1
         ELSE history_file' = history_file /\ cmd_counter' = cmd_counter
<1>1. CASE cmd_counter = MAX_SAVED_CMDS
  BY <1>1 DEF record_command
<1>2. CASE cmd_counter # MAX_SAVED_CMDS
  <2>1. cons_input_buffer.line = Left(l[k]) /\ cons_input_buffer.newline = l[k].asked
    OBVIOUS
  <2>2. /\ history_file' = history_file \o <<Left(l[k])>> \o
                             (IF l[k].asked THEN <<Blank>> ELSE <<>>)
        /\ cmd_counter' = cmd_counter + 1
    BY <1>2, <2>1, Zenon DEF record_command
  <2>3. \A x \in Line : \A h \in Seq(Line) :
           h \o <<x>> \o <<Blank>> = h \o <<x, Blank>> /\ h \o <<x>> \o <<>> = h \o <<x>>
    <3> SUFFICES ASSUME NEW x \in Line, NEW h \in Seq(Line)
                 PROVE  /\ h \o <<x>> \o <<Blank>> = h \o <<x, Blank>>
                        /\ h \o <<x>> \o <<>> = h \o <<x>>
      OBVIOUS
    <3>1. <<x>> \in Seq(Line) /\ <<Blank>> \in Seq(Line) /\ <<x>> \o <<Blank>> = <<x, Blank>>
      <4>1. Blank \in Line
        BY BlankIsLine
      <4>2. ASSUME NEW y \in Line
            PROVE  <<x>> \o <<y>> = <<x, y>>
        <5>1. <<x>> \o <<y>> \in Seq(Line) /\ <<x, y>> \in Seq(Line)
          OBVIOUS
        <5>2. Len(<<x>> \o <<y>>) = 2 /\ Len(<<x, y>>) = 2
          OBVIOUS
        <5>3. (<<x>> \o <<y>>)[1] = x /\ (<<x>> \o <<y>>)[2] = y
          OBVIOUS
        <5>4. <<x, y>>[1] = x /\ <<x, y>>[2] = y
          OBVIOUS
        <5>5. \A i \in 1 .. 2 : i = 1 \/ i = 2
          OBVIOUS
        <5>6. \A i \in 1 .. 2 : (<<x>> \o <<y>>)[i] = <<x, y>>[i]
          BY <5>3, <5>4, <5>5, Zenon
        <5> QED BY <5>1, <5>2, <5>6, SeqEqual
      <4> QED BY <4>1, <4>2
    <3>2. (h \o <<x>>) \o <<Blank>> = h \o (<<x>> \o <<Blank>>)
      BY <3>1, ConcatAssociative
    <3>3. h \o <<x>> \in Seq(Line)
      BY <3>1
    <3>4. (h \o <<x>>) \o <<>> = h \o <<x>>
      BY <3>3, ConcatEmptySeq
    <3> QED BY <3>1, <3>2, <3>4
  <2>4. CASE l[k].asked
    <3>1. EntryAt(l, k) = <<Left(l[k]), Blank>> /\ Left(l[k]) \in Line
      BY <2>4 DEF EntryAt, Left, IsRan
    <3>2. history_file' = history_file \o <<Left(l[k])>> \o <<Blank>>
      BY <2>2, <2>4
    <3> QED BY <1>2, <2>2, <2>3, <3>1, <3>2, Zenon
  <2>5. CASE ~l[k].asked
    <3>1. EntryAt(l, k) = <<Left(l[k])>> /\ Left(l[k]) \in Line
      BY <2>5 DEF EntryAt, Left, IsRan
    <3>2. history_file' = history_file \o <<Left(l[k])>> \o <<>>
      BY <2>2, <2>5
    <3> QED BY <1>2, <2>2, <2>3, <3>1, <3>2, Zenon
  <2> QED BY <2>4, <2>5
<1> QED BY <1>1, <1>2

\* AfterLine.
LEMMA AfterLineStep == IInv /\ AfterLine => IInv'
<1> SUFFICES ASSUME IInv, AfterLine
             PROVE  IInv'
  OBVIOUS
<1> DEFINE last == log[Len(log)]
           done == top.status = "COMPLETE"
           e == [last EXCEPT !["done"] = done]
           records == done /\ cmd_recording_enabled
<1>1. EndsLine /\ top.line.kind # "repeat" /\ frames' = <<>> /\ frames # <<>>
  BY Ending DEF AfterLine
<1>2. /\ cmd_recording_enabled' = TRUE
      /\ last_command_input_buffer' = cons_input_buffer /\ cons_input_buffer' = Empty
      /\ UNCHANGED <<stdin, userVars, fault>>
  BY DEF AfterLine
<1>3. IF records THEN record_command ELSE UNCHANGED <<history_file, cmd_counter>>
  BY Zenon DEF AfterLine
<1>4. log' = [log EXCEPT ![Len(log)] = e]
  BY DEF AfterLine, Note
<1>5. last \in Ran /\ top.line = last.line
  BY <1>1, Ending
<1>6. /\ e \in Ran /\ e.line = last.line /\ e.file = last.file /\ e.done = done
      /\ e.asked = last.asked /\ e.answer = last.answer /\ Left(e) = Left(last)
      /\ e.asked \in BOOLEAN /\ IsRan(e)
  BY <1>5 DEF Ran, Left, IsRan
<1>7. cons_input_buffer = [line |-> Left(last), newline |-> last.asked]
  BY <1>1 DEF IInv, RunsLast
<1> HIDE DEF e
<1>8. PICK n \in Nat : n = Finished /\ Len(log) = n + 1
  BY <1>1, Ending
<1>9. /\ log' \in Seq(Ran) /\ Len(log') = n + 1 /\ log' # <<>>
      /\ log'[n + 1] = e /\ Agree(log, log', n)
  BY <1>1, <1>4, <1>6, <1>8, NotesStep
<1>10. /\ history_file \in Seq(Line) /\ past \in Seq(Line) /\ MAX_SAVED_CMDS \in Nat
       /\ cmd_counter \in 0 .. MAX_SAVED_CMDS /\ cons_input_buffer \in Buffer
  BY ConsoleAssumption, Types DEF IInv
<1>11. IF e.done /\ cmd_recording_enabled /\ cmd_counter # MAX_SAVED_CMDS
       THEN /\ history_file' = history_file \o EntryAt(log', n + 1)
            /\ cmd_counter' = cmd_counter + 1
       ELSE history_file' = history_file /\ cmd_counter' = cmd_counter
  <2> HIDE DEF done, last
  <2>1. CASE records
    <3>1. record_command
      BY <1>3, <2>1, Zenon
    <3>2. cons_input_buffer = [line |-> Left(log'[n + 1]), newline |-> log'[n + 1].asked]
          /\ log'[n + 1].asked \in BOOLEAN /\ IsRan(log'[n + 1])
      BY <1>6, <1>7, <1>9
    <3>3. IF cmd_counter # MAX_SAVED_CMDS
          THEN /\ history_file' = history_file \o EntryAt(log', n + 1)
               /\ cmd_counter' = cmd_counter + 1
          ELSE history_file' = history_file /\ cmd_counter' = cmd_counter
      BY <1>10, <3>1, <3>2, RecordCommandEntry, Zenon
    <3> QED BY <1>6, <2>1, <3>3, Zenon
  <2>2. CASE ~records
    BY <1>3, <1>6, <2>2, Zenon
  <2> QED BY <2>1, <2>2
<1>12. /\ \A k \in 1 .. n + 1 : IsRan(log'[k])
       /\ ~RepeatAt(log', n + 1) /\ log'[n + 1].file = Loading
  <2>1. \A k \in 1 .. n + 1 : IsRan(log[k])
    BY <1>1, <1>8, Ending
  <2>2. \A k \in 1 .. n : log'[k] = log[k] /\ k \in 1 .. n + 1
    BY <1>9 DEF Agree
  <2>3. \A k \in 1 .. n + 1 : k \in 1 .. n \/ k = n + 1
    OBVIOUS
  <2>4. \A k \in 1 .. n + 1 : IsRan(log'[k])
    BY <1>6, <1>9, <2>1, <2>2, <2>3, Zenon
  <2>5. ~RepeatAt(log', n + 1)
    BY <1>1, <1>5, <1>6, <1>9 DEF RepeatAt
  <2>6. Loading = last.file
    BY <1>1, Ending
  <2> QED BY <1>6, <1>9, <2>4, <2>5, <2>6
<1>13. Kept(log', n, log'[n + 1].file, cmd_recording_enabled, cmd_counter,
            history_file, past, last_command_input_buffer.line)
  <2>1. Kept(log, n, Loading, cmd_recording_enabled, cmd_counter,
             history_file, past, last_command_input_buffer.line)
    BY <1>8 DEF IInv, KeepsLog
  <2> QED BY <1>9, <1>12, <2>1, KeptElsewhere, Zenon
<1>14. Kept(log', n + 1, FALSE, TRUE, cmd_counter', history_file', past, Left(e))
  <2>1. IF log'[n + 1].done /\ cmd_recording_enabled /\ cmd_counter # MAX_SAVED_CMDS
        THEN /\ history_file' = history_file \o EntryAt(log', n + 1)
             /\ cmd_counter' = cmd_counter + 1
        ELSE history_file' = history_file /\ cmd_counter' = cmd_counter
    BY <1>9, <1>11
  <2> QED BY <1>9, <1>10, <1>12, <1>13, <2>1, KeptLine, Zenon
<1>15. Finished' = n + 1 /\ Loading' = FALSE
  BY <1>1, <1>9 DEF Finished, Loading
<1>16. last_command_input_buffer'.line = Left(e) /\ past' = past
  BY <1>2, <1>6, <1>7 DEF userVars
<1>17. KeepsLog'
  BY <1>2, <1>14, <1>15, <1>16, Zenon DEF KeepsLog
<1>18. RunsLast'
  BY <1>1 DEF RunsLast
<1>19. TypeOK'
  <2>1. Empty \in Buffer /\ Stack(<<>>) /\ TRUE \in BOOLEAN
    BY BlankIsLine DEF Empty, Buffer, Stack
  <2>2. EntryAt(log', n + 1) \in Seq(Line)
    BY <1>6, <1>9, RecordType
  <2>3. history_file' \in Seq(Line)
    <3>1. history_file \o EntryAt(log', n + 1) \in Seq(Line)
      BY <1>10, <2>2
    <3> QED BY <1>10, <1>11, <3>1, Zenon
  <2>4. cmd_counter' \in 0 .. MAX_SAVED_CMDS
    <3>1. \/ cmd_counter' = cmd_counter
          \/ cmd_counter # MAX_SAVED_CMDS /\ cmd_counter' = cmd_counter + 1
      BY <1>11, Zenon
    <3> QED BY <1>10, <3>1
  <2> QED BY <1>1, <1>2, <1>9, <1>10, <2>1, <2>3, <2>4, Types, TypesNext, Zenon
          DEF IInv, userVars
<1> QED BY <1>17, <1>18, <1>19 DEF IInv

-----------------------------------------------------------------------------
(* The theorems.                                                           *)

\* The invariant is one.
THEOREM Invariant == Spec => []IInv
<1>1. Init => IInv
  BY InitStep
<1>2. IInv /\ [Next]_vars => IInv'
  <2> SUFFICES ASSUME IInv, [Next]_vars
               PROVE  IInv'
    OBVIOUS
  <2>1. CASE UNCHANGED vars
    <3>1. UNCHANGED <<stdin, userVars, recorded, cons_input_buffer, frames, fault, log>>
      BY <2>1 DEF vars, userVars, bufferVars, recordVars, recorded
    <3>2. TypeOK'
      BY <3>1, Types, TypesNext, Zenon DEF IInv, userVars, recorded
    <3>3. Finished' = Finished /\ Loading' = Loading
      BY <3>1, Zenon DEF Finished, Loading
    <3>4. RunsLast' /\ KeepsLog'
      BY <3>1, <3>3, Zenon DEF IInv, RunsLast, KeepsLog, recorded
    <3> QED BY <3>2, <3>4 DEF IInv
  <2>2. CASE Type
    BY <2>2, TypeStep
  <2>3. CASE Restart
    BY <2>3, RestartStep
  <2>4. CASE ReadLine
    BY <2>4, ReadLineStep
  <2>5. CASE AfterRepeat
    BY <2>5, AfterRepeatStep
  <2>6. CASE AfterLine
    BY <2>6, AfterLineStep
  <2>7. CASE TreeLine \/ NoTokens \/ TooManyTokens \/ NoHistory \/ NoFile \/ EndOfFile
    BY <2>7, OutcomeSteps
  <2>8. CASE AskChoice
    BY <2>8, AskChoiceStep
  <2>9. CASE Repeat
    BY <2>9, RepeatStep
  <2>10. CASE TooLongHistory
    BY <2>10, TooLongHistoryStep
  <2>11. CASE ShowHistory
    BY <2>11, ShowHistoryStep
  <2>12. CASE OpenFile
    BY <2>12, OpenFileStep
  <2>13. CASE FileLine
    BY <2>13, FileLineStep
  <2>14. CASE ReturnToCaller
    BY <2>14, ReturnToCallerStep
  <2> QED BY <2>1, <2>2, <2>3, <2>4, <2>5, <2>6, <2>7, <2>8, <2>9, <2>10, <2>11, <2>12,
             <2>13, <2>14, Zenon DEF Next
<1> QED BY <1>1, <1>2, PTL DEF Spec

\* Every variable keeps its type; in particular the counter of the recorded
\* commands never passes MAX_SAVED_CMDS, whatever is repeated or loaded.
THEOREM TypesHold == Spec => []TypeOK
<1>1. IInv => TypeOK
  BY DEF IInv
<1> QED BY <1>1, Invariant, PTL

\* The history file is the one the process found and then, in order, the
\* first MAX_SAVED_CMDS lines that were typed and completed: for any lines
\* typed ahead, any nesting of repeats, histories and files, and any restart.
THEOREM HistoryIsTheLog == Spec => []HistoryIsLog
<1>1. ASSUME IInv
      PROVE  HistoryIsLog
  <2>1. history_file = past \o Records(log, Finished)
    BY <1>1 DEF IInv, KeepsLog, Kept
  <2>2. \A k : /\ IsRepeat(k) <=> RepeatAt(log, k)
               /\ Entry(k) = EntryAt(log, k)
    BY DEF IsRepeat, RepeatAt, Entry, EntryAt
  <2>3. \A k : Muted(k) <=> MutedAt(log, k)
    BY <2>2, Zenon DEF Muted, MutedAt
  <2>4. \A k : Recordable(k) <=> RecordableAt(log, k)
    BY <2>2, <2>3, Zenon DEF Recordable, RecordableAt
  <2>5. \A k : {j \in 1 .. k : Recordable(j)} = RecordableTo(log, k)
    BY <2>4, Zenon DEF RecordableTo
  <2>6. \A k : Recorded(k) <=> RecordedAt(log, k)
    BY <2>4, <2>5, Zenon DEF Recorded, RecordedAt
  <2>7. \A k : (IF Recorded(k) THEN Entry(k) ELSE <<>>) = RecordAt(log, k)
    BY <2>2, <2>6, Zenon DEF RecordAt
  <2>8. [k \in 1 .. Finished |-> IF Recorded(k) THEN Entry(k) ELSE <<>>] =
        [k \in 1 .. Finished |-> RecordAt(log, k)]
    BY <2>7, Zenon
  <2> QED BY <2>1, <2>8, Zenon DEF HistoryIsLog, Records
<1> QED BY <1>1, Invariant, PTL

\* "repeat" runs the last line that was typed and is not itself a repeat,
\* or what was left of the answer to the choice it asked for.
THEOREM RepeatRunsTheLast == Spec => []RepeatRunsLast
<1>1. ASSUME IInv
      PROVE  RepeatRunsLast
  <2> DEFINE typed == {k \in 1 .. Finished : ~IsRepeat(k)}
             b == last_command_input_buffer.line
  <2>1. IsLastOf(log, Finished, b)
    BY <1>1 DEF IInv, KeepsLog, Kept
  <2>2. \A k : IsRepeat(k) <=> RepeatAt(log, k)
    BY DEF IsRepeat, RepeatAt
  <2>3. CASE b = Blank /\ \A k \in 1 .. Finished : RepeatAt(log, k)
    <3>1. typed = {}
      BY <2>2, <2>3, Zenon
    <3> QED BY <2>3, <3>1, Zenon DEF RepeatRunsLast
  <2>4. ASSUME NEW k \in 1 .. Finished, ~RepeatAt(log, k), b = Left(log[k]),
               \A i \in k + 1 .. Finished : RepeatAt(log, i)
        PROVE  RepeatRunsLast
    <3>1. k \in typed
      BY <2>2, <2>4
    <3>2. ASSUME NEW i \in typed
          PROVE  k >= i
      <4>1. i \in 1 .. Finished /\ ~RepeatAt(log, i)
        BY <2>2
      <4>2. i \notin k + 1 .. Finished
        BY <2>4, <4>1, Zenon
      <4> QED BY <4>1, <4>2
    <3>3. \A i \in typed : i \in Int
      OBVIOUS
    <3> HIDE DEF typed
    <3>4. Max(typed) = k
      <4>1. \A x \in typed : (\A i \in typed : x >= i) => x = k
        BY <3>1, <3>2, <3>3
      <4> QED BY <3>1, <3>2, <4>1, Zenon DEF Max
    <3>5. b = IF log[Max(typed)].asked THEN log[Max(typed)].answer ELSE log[Max(typed)].line
      BY <2>4, <3>4, Zenon DEF Left
    <3> QED BY <3>1, <3>5, Zenon DEF RepeatRunsLast, typed
  <2> QED BY <2>1, <2>3, <2>4, Zenon DEF IsLastOf
<1> QED BY <1>1, Invariant, PTL
=============================================================================
