------------------------------- MODULE Console -------------------------------
(***************************************************************************)
(* The console of CommandParser/: the loop that reads lines from stdin and *)
(* runs them, the last command for "repeat", and the history file.         *)
(* CommandParser says what a line does to the command tree; here a line is *)
(* of one of a few kinds, and what matters is which line is run, recorded  *)
(* and repeated.                                                           *)
(*                                                                         *)
(* stdin is shared: the loop, "repeat", "show history" and the choice      *)
(* between words with a common prefix all read from it, each with a call   *)
(* that takes something else: a line, a character, a number.  The user     *)
(* types ahead, and what one reader leaves the next one gets.              *)
(*                                                                         *)
(* The history file outlives the process.  A line that writes past an      *)
(* array sets fault, and the process is no more.                           *)
(***************************************************************************)
EXTENDS Naturals, Sequences, SequencesExt

CONSTANTS
    MAX_SAVED_CMDS,     \* commands a process records
    Commands,           \* lines of the tree, told apart by a number
    Numbers,            \* the numbers a user types
    Typed,              \* the lines a user types
    Histories,          \* the files earlier processes may have left
    MaxTyped,           \* bound on the lines typed
    MaxFrames,          \* bound on nested calls
    MaxRestarts         \* bound on restarts

\* A line of text: its kind, and a number that tells apart lines of the tree
\* and is the value of a number.  "ambiguous": a word of it is the prefix of
\* several; "long": more words than tokens has room for; "junk": a line that
\* lost its first character.
Text(kind, n) == [kind |-> kind, n |-> n]
Kind == {"tree", "number", "junk", "blank", "ambiguous", "long", "repeat",
         "show history", "config load"}
Blank == Text("blank", 0)
Line == {Text("tree", c) : c \in Commands} \cup {Text("number", n) : n \in Numbers}
        \cup {Text(k, 0) : k \in Kind \ {"tree", "number"}}

ASSUME ConsoleAssumption ==
    /\ MAX_SAVED_CMDS \in Nat /\ Numbers \subseteq Nat
    /\ Typed \subseteq Line /\ \A file \in Histories : file \in Seq(Line)
    /\ {MaxTyped, MaxFrames, MaxRestarts} \subseteq Nat

VARIABLES
    stdin,              \* what was typed and not yet read
    keyed,              \* how many lines were typed
    history_file,       \* CMD_HIST_RECORD_FILE, a sequence of lines
    cons_input_buffer,  \* a line, and whether its newline is still there
    last_command_input_buffer,
    cmd_recording_enabled,
    cmd_counter,        \* record_command's
    frames,             \* the calls under way
    fault,
    restarts,
    \* history variables
    past,               \* the file when this process began
    log                 \* the lines the loop has run, see Ran

userVars == <<keyed, restarts, past>>
bufferVars == <<cons_input_buffer, last_command_input_buffer>>
recordVars == <<history_file, cmd_recording_enabled, cmd_counter>>
vars == <<stdin, userVars, bufferVars, recordVars, frames, fault, log>>

Buffer == [line : Line, newline : BOOLEAN]
Empty == [line |-> Blank, newline |-> FALSE]

\* A call of parse_input_cmd, of build_tlv_buffer for a line of a file, or of
\* parse_file; it is about to look at its line, waits for a call it has made,
\* or returns.
Function == {"parse_input_cmd", "build_tlv_buffer", "parse_file"}
Frame == [fn : Function, line : Line, pc : {"parse", "calls", "return"},
          status : {"COMPLETE", "refused"}]
Call(fn, line) == [fn |-> fn, line |-> line, pc |-> "parse", status |-> "COMPLETE"]
top == frames[Len(frames)]
Below == SubSeq(frames, 1, Len(frames) - 1)
Parses(kind) ==
    /\ fault = "none" /\ frames # <<>>
    /\ top.pc = "parse" /\ top.fn # "parse_file" /\ top.line.kind = kind

\* The outcome of the line: a command that was completed, or anything else.
Returned(status) == Append(Below, [top EXCEPT !.pc = "return", !.status = status])
Return(status) == frames' = Returned(status)
Nest(fn, line) ==
    /\ Len(frames) < MaxFrames
    /\ frames' = Append(Append(Below, [top EXCEPT !.pc = "calls"]), Call(fn, line))

\* What the log says of a line the loop has run: the line; whether it was
\* completed; whether a file was loaded meanwhile; and what was left of the
\* answer to a choice meanwhile, if there was one.
Ran == [line : Line, done : BOOLEAN, file : BOOLEAN, asked : BOOLEAN, answer : Line]

\* The entry of the line being run is the last one of the log.
Note(field, value) == log' = [log EXCEPT ![Len(log)] = [@ EXCEPT ![field] = value]]

Init ==
    /\ stdin = <<>> /\ keyed = 0
    /\ history_file \in Histories /\ past = history_file
    /\ cons_input_buffer = Empty /\ last_command_input_buffer = Empty
    /\ cmd_recording_enabled = TRUE /\ cmd_counter = 0
    /\ frames = <<>> /\ fault = "none"
    /\ restarts = 0 /\ log = <<>>

-----------------------------------------------------------------------------
(* The user.                                                               *)

\* The first line of stdin that is not blank, or 0.
Written == SelectInSeq(stdin, LAMBDA line : line.kind # "blank")

\* A line typed ahead is read in its turn, so it may as well be typed when
\* nothing but newlines are left.
Type ==
    /\ keyed < MaxTyped /\ Written = 0 /\ fault = "none"
    /\ \E line \in Typed : stdin' = Append(stdin, line)
    /\ keyed' = keyed + 1
    /\ UNCHANGED <<restarts, past, bufferVars, recordVars, frames, fault, log>>

\* The process ends, at whatever point, and is started again.
Restart ==
    /\ restarts < MaxRestarts
    /\ restarts' = restarts + 1
    /\ stdin' = <<>>
    /\ cons_input_buffer' = Empty /\ last_command_input_buffer' = Empty
    /\ cmd_recording_enabled' = TRUE /\ cmd_counter' = 0
    /\ frames' = <<>> /\ fault' = "none"
    /\ past' = history_file /\ log' = <<>>
    /\ UNCHANGED <<keyed, history_file>>

-----------------------------------------------------------------------------
(* What the three readers of stdin take.  Each waits until it can.         *)

\* scanf("%c"): a character, the newline of a blank line or the first letter
\* of another; a number has one digit.
TakeChar ==
    /\ stdin # <<>>
    /\ stdin' = CASE Head(stdin).kind = "blank" -> Tail(stdin)
                  [] Head(stdin).kind = "number" -> <<Blank>> \o Tail(stdin)
                  [] OTHER -> <<Text("junk", 0)>> \o Tail(stdin)

\* scanf("%d") skips newlines and looks at the first line that has a
\* character.
AfterBlanks == SubSeq(stdin, Written, Len(stdin))

-----------------------------------------------------------------------------
(* command_parser.                                                         *)

\* fgets.  A blank line is read over.
ReadLine ==
    /\ fault = "none" /\ frames = <<>> /\ stdin # <<>>
    /\ stdin' = Tail(stdin)
    /\ IF Head(stdin) = Blank
       THEN UNCHANGED <<cons_input_buffer, frames, log>>
       ELSE /\ cons_input_buffer' = [line |-> Head(stdin), newline |-> FALSE]
            /\ frames' = <<Call("parse_input_cmd", Head(stdin))>>
            /\ log' = Append(log, [line |-> Head(stdin), done |-> FALSE,
                                   file |-> FALSE, asked |-> FALSE,
                                   answer |-> Blank])
    /\ UNCHANGED <<userVars, last_command_input_buffer, recordVars, fault>>

\* Mutant: the counter is compared after it was incremented.
RecordOneMore ==
    IF cmd_counter = MAX_SAVED_CMDS + 1
    THEN UNCHANGED <<history_file, cmd_counter>>
    ELSE /\ history_file' = Append(history_file, cons_input_buffer.line)
         /\ cmd_counter' = cmd_counter + 1

\* The buffer and a newline are appended: one line, or a line and a blank one
\* if the buffer still has a newline.
record_command ==
    IF cmd_counter = MAX_SAVED_CMDS
    THEN UNCHANGED <<history_file, cmd_counter>>
    ELSE /\ history_file' = history_file \o <<cons_input_buffer.line>> \o
                (IF cons_input_buffer.newline THEN <<Blank>> ELSE <<>>)
         /\ cmd_counter' = cmd_counter + 1

\* The outermost call returns, and the loop goes on: after "repeat" at once,
\* otherwise by recording the buffer, switching recording on and keeping the
\* buffer as the last command.
EndsLine == fault = "none" /\ Len(frames) = 1 /\ top.pc = "return"

AfterRepeat ==
    /\ EndsLine /\ top.line.kind = "repeat"
    /\ frames' = <<>>
    /\ cons_input_buffer' = Empty
    /\ UNCHANGED <<stdin, userVars, last_command_input_buffer, recordVars, fault, log>>

\* Mutant: only a recorded command becomes the last command.
KeepRecordedOnly ==
    /\ EndsLine /\ top.line.kind # "repeat"
    /\ frames' = <<>>
    /\ Note("done", top.status = "COMPLETE")
    /\ IF top.status = "COMPLETE" /\ cmd_recording_enabled
       THEN record_command /\ last_command_input_buffer' = cons_input_buffer
       ELSE UNCHANGED <<history_file, cmd_counter, last_command_input_buffer>>
    /\ cmd_recording_enabled' = TRUE
    /\ cons_input_buffer' = Empty
    /\ UNCHANGED <<stdin, userVars, fault>>

\* Mutant: recording is not switched on again.
StayMuted ==
    /\ EndsLine /\ top.line.kind # "repeat"
    /\ frames' = <<>>
    /\ Note("done", top.status = "COMPLETE")
    /\ IF top.status = "COMPLETE" /\ cmd_recording_enabled
       THEN record_command ELSE UNCHANGED <<history_file, cmd_counter>>
    /\ last_command_input_buffer' = cons_input_buffer
    /\ cons_input_buffer' = Empty
    /\ UNCHANGED <<stdin, userVars, cmd_recording_enabled, fault>>

AfterLine ==
    /\ EndsLine /\ top.line.kind # "repeat"
    /\ frames' = <<>>
    /\ Note("done", top.status = "COMPLETE")
    /\ IF top.status = "COMPLETE" /\ cmd_recording_enabled
       THEN record_command ELSE UNCHANGED <<history_file, cmd_counter>>
    /\ cmd_recording_enabled' = TRUE
    /\ last_command_input_buffer' = cons_input_buffer
    /\ cons_input_buffer' = Empty
    /\ UNCHANGED <<stdin, userVars, fault>>

-----------------------------------------------------------------------------
(* parse_input_cmd and build_tlv_buffer, by the kind of their line.        *)

\* Words of the tree: completed or refused.  A junk line or a number may be
\* the value of a leaf.  In a mode "show history" is not a word of its own,
\* nor is "repeat" where it is looked for in the tree.
TreeLine ==
    /\ \/ \E kind \in {"tree", "number", "junk", "show history"} : Parses(kind)
       \/ Parses("repeat") /\ top.fn = "build_tlv_buffer"
    /\ \E status \in {"COMPLETE", "refused"} : Return(status)
    /\ UNCHANGED <<stdin, userVars, bufferVars, recordVars, fault, log>>

NoTokens ==
    /\ Parses("blank")
    /\ Return("refused")
    /\ UNCHANGED <<stdin, userVars, bufferVars, recordVars, fault, log>>

\* tokenizer copies the word past the last to where tokens ends, and only
\* then counts: that may be survived, and the line is refused.
TooManyTokens ==
    /\ Parses("long")
    /\ Return("refused")
    /\ fault' \in {"none", "write past tokens"}
    /\ UNCHANGED <<stdin, userVars, bufferVars, recordVars, log>>

\* find_matching_param offers two words, reads a number, and discards the
\* rest of that line into the loop's own buffer.
AskChoice ==
    /\ Parses("ambiguous") /\ Written > 0
    /\ LET answer == Head(AfterBlanks)
           rest == IF answer.kind = "number" THEN Blank ELSE answer
       IN  /\ stdin' = Tail(AfterBlanks)
           /\ cons_input_buffer' = [line |-> rest, newline |-> TRUE]
           /\ log' = [log EXCEPT ![Len(log)].asked = TRUE, ![Len(log)].answer = rest]
           /\ IF answer.kind = "number" /\ answer.n < 2
              THEN \E status \in {"COMPLETE", "refused"} : Return(status)
              ELSE Return("refused")
    /\ UNCHANGED <<userVars, last_command_input_buffer, recordVars, fault>>

\* repeat_last_command.
Repeat ==
    /\ Parses("repeat")
    /\ TakeChar
    /\ Nest("parse_input_cmd", last_command_input_buffer.line)
    /\ UNCHANGED <<userVars, bufferVars, recordVars, fault, log>>

\* show_history_callback without a file.
NoHistory ==
    /\ Parses("show history")
    /\ history_file = <<>>
    /\ Return("COMPLETE")
    /\ UNCHANGED <<stdin, userVars, bufferVars, recordVars, fault, log>>

\* The offset of every line is stored, and that of the end.
TooLongHistory ==
    /\ Parses("show history")
    /\ Len(history_file) + 1 > MAX_SAVED_CMDS
    /\ fault' = "write past cmd_offset"
    /\ UNCHANGED <<stdin, userVars, bufferVars, recordVars, frames, log>>

\* A number is taken, without its newline; anything else stays where it is,
\* and the choice is whatever the stack held.  The number of lines is a
\* valid choice, of an empty line.
ShowHistory ==
    /\ Parses("show history")
    /\ history_file # <<>> /\ Len(history_file) + 1 <= MAX_SAVED_CMDS
    /\ Written > 0
    /\ LET answer == Head(AfterBlanks)
           number == answer.kind = "number"
           lines == Append(history_file, Blank)
       IN  /\ stdin' = IF number THEN <<Blank>> \o Tail(AfterBlanks) ELSE AfterBlanks
           /\ \/ \E choice \in DOMAIN lines :
                    /\ number => choice = answer.n + 1
                    /\ Nest("parse_input_cmd", lines[choice])
              \/ /\ number => answer.n + 1 \notin DOMAIN lines
                 /\ Return("COMPLETE")
    /\ UNCHANGED <<userVars, bufferVars, recordVars, fault, log>>

\* parse_file, from parse_input_cmd; as a line of a file, or without the
\* file, it does nothing.
NoFile ==
    /\ Parses("config load")
    /\ Return("COMPLETE")
    /\ UNCHANGED <<stdin, userVars, bufferVars, recordVars, fault, log>>

OpenFile ==
    /\ Parses("config load") /\ top.fn = "parse_input_cmd"
    /\ Nest("parse_file", Blank)
    /\ cmd_recording_enabled' = FALSE
    /\ Note("file", TRUE)
    /\ UNCHANGED <<stdin, userVars, bufferVars, history_file, cmd_counter, fault>>

\* A line of the file is any line that can be typed.
FileLine ==
    /\ fault = "none" /\ frames # <<>>
    /\ top.fn = "parse_file" /\ top.pc # "return"
    /\ \E line \in Typed : Nest("build_tlv_buffer", line)
    /\ UNCHANGED <<stdin, userVars, bufferVars, recordVars, fault, log>>

EndOfFile ==
    /\ fault = "none" /\ frames # <<>>
    /\ top.fn = "parse_file" /\ top.pc # "return"
    /\ Return("COMPLETE")
    /\ UNCHANGED <<stdin, userVars, bufferVars, recordVars, fault, log>>

\* A nested call returns.  What it was does not matter to the line that made
\* it: a handler has run, so that line is complete.
ReturnToCaller ==
    /\ fault = "none" /\ Len(frames) > 1 /\ top.pc = "return"
    /\ LET caller == Last(Below)
       IN  frames' = Append(SubSeq(frames, 1, Len(frames) - 2),
                            [caller EXCEPT !.pc = IF caller.fn = "parse_file"
                                                  THEN "parse" ELSE "return"])
    /\ UNCHANGED <<stdin, userVars, bufferVars, recordVars, fault, log>>

-----------------------------------------------------------------------------

Next ==
    \/ Type \/ Restart
    \/ ReadLine \/ AfterRepeat \/ AfterLine
    \/ TreeLine \/ NoTokens \/ TooManyTokens \/ AskChoice
    \/ Repeat \/ NoHistory \/ TooLongHistory \/ ShowHistory
    \/ NoFile \/ OpenFile \/ FileLine \/ EndOfFile \/ ReturnToCaller

Spec == Init /\ [][Next]_vars

-----------------------------------------------------------------------------
(* Properties.                                                             *)

TypeOK ==
    /\ stdin \in Seq(Line) /\ keyed \in 0 .. MaxTyped
    /\ history_file \in Seq(Line) /\ past \in Seq(Line)
    /\ cons_input_buffer \in Buffer /\ last_command_input_buffer \in Buffer
    /\ cmd_recording_enabled \in BOOLEAN
    /\ cmd_counter \in 0 .. MAX_SAVED_CMDS
    /\ frames \in Seq(Frame)
    /\ \A i \in DOMAIN frames : frames[i].pc = "calls" <=> i < Len(frames)
    /\ fault \in {"none", "write past tokens", "write past cmd_offset"}
    /\ restarts \in 0 .. MaxRestarts
    /\ log \in Seq(Ran)

Finished == IF frames = <<>> THEN Len(log) ELSE Len(log) - 1

\* Line k of the log is not recorded because a file was loaded: by itself, or
\* by a "repeat" with nothing but repeats after it, since the loop switches
\* recording on again after every other line.
IsRepeat(k) == log[k].line.kind = "repeat"
Muted(k) == \E j \in 1 .. k : log[j].file /\ \A i \in j .. k - 1 : IsRepeat(i)

\* The history file is what it was when the process began and then, in order,
\* the first MAX_SAVED_CMDS lines that were typed and completed, none but
\* those: not the lines that "repeat", "show history" or a file ran.  Two
\* things come between: a loaded file (Muted), and a choice asked for on the
\* way, whose answer is recorded in the place of the line.
Recordable(k) == log[k].done /\ ~IsRepeat(k) /\ ~Muted(k)
Recorded(k) ==
    /\ Recordable(k)
    /\ Cardinality({j \in 1 .. k : Recordable(j)}) <= MAX_SAVED_CMDS
Entry(k) == IF log[k].asked THEN <<log[k].answer, Blank>> ELSE <<log[k].line>>
HistoryIsLog ==
    history_file = past \o FlattenSeq([k \in 1 .. Finished |->
                                          IF Recorded(k) THEN Entry(k) ELSE <<>>])

\* "repeat" runs the last line that was typed, other than "repeat" itself,
\* whether it was completed or not and whatever it ran in turn; after a
\* choice it runs the answer instead.
RepeatRunsLast ==
    LET typed == {k \in 1 .. Finished : ~IsRepeat(k)}
        last == log[Max(typed)]
    IN  last_command_input_buffer.line =
            IF typed = {} THEN Blank ELSE IF last.asked THEN last.answer ELSE last.line
==============================================================================
