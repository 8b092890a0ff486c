--------------------------- MODULE CommandParser ---------------------------
(***************************************************************************)
(* The command line of CommandParser/: one thread that reads a line, walks *)
(* the command tree token by token, collects the values of the leaves it   *)
(* meets in tlv_buff, and calls the handler of the parameter it ends at.   *)
(* A command may move the cursor into the tree ("mode"); tlv_buff then     *)
(* keeps the leaves on the way there, up to its checkpoint, between        *)
(* commands.                                                               *)
(*                                                                         *)
(* parse_input_cmd is re-entered: "repeat" and the handler of "show        *)
(* history" call it for another line, "run ut" for the commands of a test  *)
(* script, and "config load" runs the lines of a file, which may be        *)
(* "repeat" too.  frames is the stack of the calls under way.  What the    *)
(* user types, and what a file or the history holds, is any line of the    *)
(* tree.  Where a step's outcome is undefined behaviour or a failed        *)
(* assertion, fault says so and the behaviour ends.                        *)
(***************************************************************************)
EXTENDS CmdTree

CONSTANTS
    TLV_MAX_BUFFER_SIZE,    \* first size of tlv_buff, in TLVs
    MaxFrames,              \* bound on nested calls
    MaxKept                 \* bound on the TLVs kept between two commands

ASSUME ParserAssumption ==
    /\ TLV_MAX_BUFFER_SIZE \in Nat \ {0}
    /\ MaxFrames \in Nat /\ MaxKept \in Nat

VARIABLES
    cmd_tree_cursor,
    tlv_buff,
    value_holder,       \* the value each leaf of the tree holds, or NULL
    console_name,       \* the mode part of the prompt
    frames,
    reading,            \* the next thing parse_input_cmd gets is a line
    call,               \* history: the handler this step called, or NULL
    fault,              \* why the program is no more, or "none"
    stale,              \* history: what tlv_buff keeps is not that of the mode
    mixed               \* history: on top of it tlv_buff holds what a "show
                        \* history" under way collected

cli == <<cmd_tree_cursor, console_name>>
spoilt == <<stale, mixed>>
vars == <<cli, tlv_buff, value_holder, frames, reading, call, fault, spoilt>>

\* A call of parse_input_cmd ("cmd", "do"), of parse_file ("file"), or of
\* build_tlv_buffer for one line of a file ("line").  param is where in the
\* tree the tokens have led so far, op what the handler will be told, old the
\* cursor to come back to from do.
Parsing(kind, p, old) ==
    [kind |-> kind, pc |-> "tokens", param |-> p, op |-> "unknown", old |-> old]
Finishing == [Parsing("cmd", NULL, NULL) EXCEPT !.pc = "tail"]

top == frames[Len(frames)]
Push(f) == frames' = Append(frames, f)
SetTop(f) == frames' = [frames EXCEPT ![Len(frames)] = f]
Leave(pc) == SetTop([top EXCEPT !.pc = pc, !.param = NULL, !.op = "unknown"])

\* The caller is run_test_case, which reads on.
InScript(n) == n > 1 /\ frames[n - 1].pc = "script"

-----------------------------------------------------------------------------
(* TLVs, modes and the prompt.                                             *)

LeafTlv(l) == [id |-> l, val |-> value_holder[l]]
CodeTlv(p) == [id |-> "CMDCODE", val |-> p]
BriefTlv == [id |-> "SHOW_EXTENSIONS", val |-> "SHOW_BRIEF"]
DummyTlv == [id |-> NULL, val |-> NULL]
Tlv == [id : Leaf, val : Value \cup {NULL}] \cup {CodeTlv(p) : p \in Param}
       \cup {BriefTlv, DummyTlv}

collect_tlv(buf, tlv) == serialize_string(buf, <<tlv>>)

\* The leaves from the root to p with the values the tree holds for them.
LeafTlvs(p) == [i \in 1 .. Len(LeavesTo[p]) |-> LeafTlv(LeavesTo[p][i])]

\* Mutant: the buffer is filled from the leaf upwards and never reversed.
LeavesUpwards(buf, p) ==
    serialize_string(reset_serialize_buffer(buf), Reverse(LeafTlvs(p)))

\* Collected one by one from p upwards, and then reversed.
build_cmd_tree_leaves_data(buf, p) ==
    serialize_string(reset_serialize_buffer(buf), LeafTlvs(p))

\* The words and leaf values to p.  A "no" is taken for a leaf, whose value
\* lies in the zeroes after its name.
build_mode_console_name(p, value) ==
    [i \in 1 .. Len(path[p]) |->
        IF path[p][i] \in Leaf \cup NoCmd THEN value[path[p][i]] ELSE path[p][i]]

EnterMode(p) ==
    /\ cmd_tree_cursor' = p
    /\ console_name' = build_mode_console_name(p, value_holder)

Crash(why) ==
    /\ fault' = why
    /\ UNCHANGED <<cli, tlv_buff, value_holder, frames, reading, spoilt>>

\* tlv_buff is reset with the cursor at p: what is lost is the leaves of p.
Emptied(p) ==
    /\ tlv_buff' = reset_serialize_buffer(tlv_buff)
    /\ stale' = (LeavesTo[p] # <<>>)
    /\ mixed' = FALSE

-----------------------------------------------------------------------------
Init ==
    /\ cmd_tree_cursor = root /\ console_name = <<>>
    /\ tlv_buff = init_serialized_buffer_of_defined_size(TLV_MAX_BUFFER_SIZE)
    /\ value_holder = [p \in Leaf \cup NoCmd |-> NULL]
    /\ frames = <<>> /\ reading = TRUE
    /\ call = NULL /\ fault = "none" /\ stale = FALSE /\ mixed = FALSE

-----------------------------------------------------------------------------
(* parse_input_cmd gets a line.  Its first token decides; words of the     *)
(* tree go to build_tlv_buffer with the cursor as it is.                   *)

Line ==
    /\ reading /\ fault = "none"
    /\ Len(frames) < MaxFrames /\ get_serialize_buffer_size(tlv_buff) <= MaxKept
    /\ call' = NULL

TreeCmd ==
    /\ Line
    /\ Push(Parsing("cmd", cmd_tree_cursor, NULL)) /\ reading' = FALSE
    /\ UNCHANGED <<cli, tlv_buff, value_holder, fault, spoilt>>

\* A line without an effect: "cls", "do" outside config mode, a file that
\* "config load" cannot open.
NoOpCmd ==
    /\ Line
    /\ Push(Finishing) /\ reading' = FALSE
    /\ UNCHANGED <<cli, tlv_buff, value_holder, fault, spoilt>>

\* A blank line, in the place of a repeated command there is none of; an
\* invalid choice from the history; the end of a script.
NoLine ==
    /\ reading /\ fault = "none" /\ frames # <<>>
    /\ reading' = FALSE /\ call' = NULL
    /\ UNCHANGED <<cli, tlv_buff, value_holder, frames, fault, spoilt>>

\* "do" looks for the branch of the cursor: from do_hook, which has no
\* parent, the walk runs off the tree.
DoCmd ==
    /\ Line
    /\ cmd_tree_cursor # root
    /\ IF cmd_tree_cursor = do_hook
       THEN Crash("do inside do")
       ELSE /\ get_current_branch_hook(cmd_tree_cursor) = config
            /\ Push(Parsing("do", do_hook, cmd_tree_cursor))
            /\ reading' = FALSE
            /\ cmd_tree_cursor' = do_hook
            /\ Emptied(do_hook)
            /\ UNCHANGED <<console_name, value_holder, fault>>

\* "repeat" is never the last command itself, nor recorded in the history.  In
\* a file it is a line of the tree (RepeatLine).
RepeatCmd ==
    /\ Line
    /\ frames = <<>> \/ InScript(Len(frames) + 1)
    /\ Push([Finishing EXCEPT !.pc = "repeat"])
    /\ UNCHANGED <<cli, tlv_buff, value_holder, reading, fault, spoilt>>

\* Mutant: the checkpoint stays where it was.
SkipBack(buf) == serialize_buffer_skip(buf, -1)

Rewind(buf) == mark_checkpoint_serialize_buffer(serialize_buffer_skip(buf, -1))

\* "run ut" runs the commands of a script, or ends at once.
RunTestCase ==
    /\ Line
    /\ Push([Finishing EXCEPT !.pc = "script"])
    /\ UNCHANGED <<cli, tlv_buff, value_holder, reading, fault, spoilt>>

\* "cd..", which rewinds the buffer by the TLV of the leaf it leaves.
GoOneLevelUp ==
    /\ Line
    /\ CASE cmd_tree_cursor = do_hook -> Crash("cursor set to NULL")
         [] cmd_tree_cursor \in Leaf /\ get_serialize_buffer_size(tlv_buff) = 0 ->
                Crash("rewind before the buffer")
         [] OTHER ->
            LET up == IF cmd_tree_cursor = root THEN root
                      ELSE parent[cmd_tree_cursor]
                rewound == IF cmd_tree_cursor \in Leaf THEN Rewind(tlv_buff)
                           ELSE tlv_buff
            IN  /\ value_holder' = [l \in Leaf \cup NoCmd |->
                        IF l = cmd_tree_cursor THEN NULL ELSE value_holder[l]]
                /\ cmd_tree_cursor' = up
                /\ IF up = root /\ cmd_tree_cursor # root THEN Emptied(root)
                   ELSE /\ tlv_buff' = rewound
                        /\ stale' = (stale \/ (mixed /\ cmd_tree_cursor \in Leaf))
                        /\ UNCHANGED mixed
                /\ console_name' = IF cmd_tree_cursor = root THEN console_name
                                   ELSE build_mode_console_name(up, value_holder')
                /\ Push(Finishing)
                /\ reading' = FALSE
                /\ UNCHANGED fault

\* "cd", which clears the leaves it passes.  A "no" is taken for a leaf and
\* 64 bytes are cleared where its name of 32 is.
GoToTop ==
    /\ Line
    /\ CASE cmd_tree_cursor = do_hook -> Crash("NULL parent followed")
         [] cmd_tree_cursor \in NoCmd -> Crash("no cleared as a leaf")
         [] OTHER ->
            /\ value_holder' = [l \in Leaf \cup NoCmd |->
                    IF l \in ToSet(path[cmd_tree_cursor]) THEN NULL
                    ELSE value_holder[l]]
            /\ cmd_tree_cursor' = root /\ console_name' = <<>>
            /\ IF cmd_tree_cursor = root THEN UNCHANGED <<tlv_buff, spoilt>>
               ELSE Emptied(root)
            /\ Push(Finishing) /\ reading' = FALSE
            /\ UNCHANGED fault

\* "config load" of a file that can be opened, in any mode.  It may also come
\* from the history: a "config load" of a file that was not there is recorded.
LoadCmd ==
    /\ Line
    /\ Push([Parsing("file", NULL, NULL) EXCEPT !.pc = "lines"]) /\ reading' = FALSE
    /\ Emptied(cmd_tree_cursor)
    /\ UNCHANGED <<cli, value_holder, fault>>

-----------------------------------------------------------------------------
(* build_tlv_buffer, token by token.                                       *)

Parse == ~reading /\ fault = "none" /\ frames # <<>> /\ top.pc = "tokens"

Word ==
    /\ Parse /\ call' = NULL
    /\ \E q \in options(top.param) \ Leaf :
          SetTop([top EXCEPT !.param = q,
                             !.op = IF q \in NoCmd THEN "disable" ELSE @])
    /\ UNCHANGED <<cli, tlv_buff, value_holder, reading, fault, spoilt>>

LeafValue ==
    /\ Parse /\ call' = NULL
    /\ \E l \in options(top.param) \cap Leaf, v \in Value :
          /\ SetTop([top EXCEPT !.param = l])
          /\ value_holder' = [value_holder EXCEPT ![l] = v]
          /\ tlv_buff' = collect_tlv(tlv_buff, [id |-> l, val |-> v])
    /\ UNCHANGED <<cli, reading, fault, spoilt>>

\* The status is not COMPLETE, which run_test_case asserts.
Incomplete ==
    IF InScript(Len(frames)) THEN Crash("command of a script refused")
    ELSE /\ Leave("tail")
         /\ UNCHANGED <<cli, tlv_buff, value_holder, reading, fault, spoilt>>

\* CMD_NOT_FOUND, INVALID_LEAF or USER_INVALID_LEAF.  What was collected
\* stays in the buffer.
Refused ==
    /\ Parse /\ call' = NULL
    /\ MayRefuse(top.param)
    /\ Incomplete

\* What the handler is told, by the branch p is in.
Op(p) ==
    IF get_current_branch_hook(p) # config THEN "operational"
    ELSE IF top.op = "disable" THEN "disable" ELSE "enable"

\* p's callback is called with buf.  config's own moves the cursor and marks
\* the buffer as it is, and "show history" asks for another line.  call keeps
\* where the line began, and whether the buffer held then what it should.
Invoke(p, buf, op) ==
    /\ call' = [param |-> p, tlvs |-> buf.b, op |-> op, from |-> cmd_tree_cursor,
                exact |-> ~stale /\ ~mixed]
    /\ tlv_buff' = IF p = config THEN mark_checkpoint_serialize_buffer(buf)
                   ELSE buf
    /\ mixed' = (mixed \/ p \in History)
    /\ IF p \in History THEN Leave("history") /\ reading' = TRUE
       ELSE Leave("tail") /\ UNCHANGED reading

\* The line ends at a parameter.  It has a token at least, unless it is a
\* blank line of a file.
EndOfLine ==
    /\ Parse
    /\ top.param # cmd_tree_cursor \/ top.kind = "line"
    /\ IF top.param \notin Handler
       THEN call' = NULL /\ Incomplete
       ELSE /\ Invoke(top.param,
                      IF top.param = config THEN tlv_buff
                      ELSE collect_tlv(tlv_buff, CodeTlv(top.param)),
                      Op(top.param))
            /\ IF top.param = config THEN EnterMode(config) ELSE UNCHANGED cli
            /\ stale' = (stale \/ (top.param = config /\ mixed))
            /\ UNCHANGED <<value_holder, fault>>

\* "repeat" as the line of a file at the root: no command code is collected,
\* and the last command is run in the middle of the line.
RepeatLine ==
    /\ Parse /\ call' = NULL
    /\ top.kind = "line" /\ top.param = root
    /\ Leave("repeat") /\ reading' = TRUE
    /\ UNCHANGED <<cli, tlv_buff, value_holder, fault, spoilt>>

\* "brief" after a command: the handler of the command is called.
EndWithBrief ==
    /\ Parse
    /\ top.param \in Brief
    /\ Invoke(top.param,
              collect_tlv(collect_tlv(tlv_buff, BriefTlv), CodeTlv(top.param)),
              "operational")
    /\ UNCHANGED <<cli, value_holder, fault, stale>>

\* Mutant: the checkpoint is taken after the command code.
MarkAfterCode(p) ==
    mark_checkpoint_serialize_buffer(collect_tlv(tlv_buff, CodeTlv(p)))

MarkAndCode(p) ==
    collect_tlv(mark_checkpoint_serialize_buffer(tlv_buff), CodeTlv(p))

\* "/": the mode is entered first, then the parameter's own handler is called.
EndWithMode ==
    /\ Parse
    /\ HasMode(top.param)
    /\ IF top.param = root
       THEN call' = NULL /\ Crash("branch of the root")
       ELSE /\ EnterMode(top.param)
            /\ IF top.param \in Handler
               THEN Invoke(top.param, MarkAndCode(top.param), Op(top.param))
               ELSE /\ tlv_buff' = MarkAndCode(top.param)
                    /\ Leave("tail") /\ call' = NULL
                    /\ UNCHANGED <<reading, mixed>>
            /\ stale' = (stale \/ mixed \/ top.param = config)
            /\ UNCHANGED <<value_holder, fault>>

\* "?": the mode is entered without a call of a handler.
EndWithSuboptions ==
    /\ Parse /\ call' = NULL
    /\ HasSuboptions(top.param)
    /\ IF top.param = do_hook
       THEN Crash("console name of do_hook")
       ELSE /\ tlv_buff' =
                LET marked == mark_checkpoint_serialize_buffer(tlv_buff)
                IN  IF top.param \in Lister THEN collect_tlv(marked, DummyTlv)
                    ELSE marked
            /\ EnterMode(top.param)
            /\ Leave("tail")
            /\ stale' = (stale \/ mixed)
            /\ UNCHANGED <<value_holder, reading, fault, mixed>>

\* ".": lists what may follow.
EndWithExpansion ==
    /\ Parse /\ call' = NULL
    /\ HasSuboptions(top.param)
    /\ Leave("tail")
    /\ UNCHANGED <<cli, tlv_buff, value_holder, reading, fault, spoilt>>

-----------------------------------------------------------------------------
(* The end of parse_input_cmd, and parse_file.                             *)

Return ==
    /\ frames' = Front(frames)
    /\ reading' = (Len(frames) = 1 \/ InScript(Len(frames)))

Finish == ~reading /\ fault = "none" /\ frames # <<>>
          /\ top.pc \in {"tail", "history", "script", "repeat"} /\ call' = NULL

RestoreOrReset ==
    /\ tlv_buff' = IF cmd_tree_cursor # root
                   THEN restore_checkpoint_serialize_buffer(tlv_buff)
                   ELSE reset_serialize_buffer(tlv_buff)
    /\ stale' = (stale /\ cmd_tree_cursor # root)
    /\ mixed' = FALSE

EndCmd ==
    /\ Finish /\ top.kind # "do"
    /\ RestoreOrReset
    /\ Return
    /\ UNCHANGED <<cli, value_holder, fault>>

\* Mutant: the cursor stays at do_hook.
DoneAtDoHook ==
    /\ tlv_buff' = mark_checkpoint_serialize_buffer(
                       build_cmd_tree_leaves_data(tlv_buff, top.old))
    /\ Return
    /\ stale' = FALSE /\ mixed' = FALSE
    /\ UNCHANGED <<cli, value_holder, fault>>

\* do came back to config mode: the buffer is rebuilt from the tree.
DoneInConfig ==
    /\ cmd_tree_cursor' = top.old
    /\ tlv_buff' = mark_checkpoint_serialize_buffer(
                       build_cmd_tree_leaves_data(tlv_buff, top.old))
    /\ Return
    /\ stale' = FALSE /\ mixed' = FALSE
    /\ UNCHANGED <<console_name, value_holder, fault>>

EndDo ==
    /\ Finish /\ top.kind = "do"
    /\ CASE cmd_tree_cursor = do_hook ->
                IF top.old \in NoCmd THEN Crash("no read as a leaf")
                ELSE DoneInConfig
         [] cmd_tree_cursor = root -> Crash("branch of the root after do")
         [] OTHER ->
                IF get_current_branch_hook(cmd_tree_cursor) = config
                THEN Crash("impossible case")
                ELSE /\ RestoreOrReset
                     /\ Return
                     /\ UNCHANGED <<cli, value_holder, fault>>

InFile == ~reading /\ fault = "none" /\ frames # <<>> /\ top.pc = "lines"
          /\ call' = NULL

FileLine ==
    /\ InFile
    /\ Len(frames) < MaxFrames
    /\ Push(Parsing("line", cmd_tree_cursor, NULL))
    /\ Emptied(cmd_tree_cursor)
    /\ UNCHANGED <<cli, value_holder, reading, fault>>

EndOfFile ==
    /\ InFile
    /\ Leave("tail")
    /\ UNCHANGED <<cli, tlv_buff, value_holder, reading, fault, spoilt>>

Next ==
    \/ TreeCmd \/ NoOpCmd \/ NoLine \/ DoCmd \/ RepeatCmd
    \/ RunTestCase \/ GoOneLevelUp \/ GoToTop \/ LoadCmd
    \/ Word \/ LeafValue \/ Refused
    \/ EndOfLine \/ RepeatLine \/ EndWithBrief \/ EndWithMode \/ EndWithSuboptions
    \/ EndWithExpansion
    \/ EndCmd \/ EndDo \/ FileLine \/ EndOfFile

Spec == Init /\ [][Next]_vars

-----------------------------------------------------------------------------
\* The type of every variable, and the order of the buffer's indices.
TypeOK ==
    /\ cmd_tree_cursor \in Param
    /\ tlv_buff.b \in Seq(Tlv)
    /\ tlv_buff.checkpoint \in 0 .. Len(tlv_buff.b)
    /\ Len(tlv_buff.b) <= tlv_buff.size
    /\ value_holder \in [Leaf \cup NoCmd -> Value \cup {NULL}]
    /\ console_name \in Seq(Param \cup Value \cup {NULL})
    /\ \A i \in 1 .. Len(frames) :
          /\ frames[i].kind \in {"cmd", "do", "file", "line"}
          /\ frames[i].pc \in {"tokens", "lines", "history", "script", "repeat", "tail"}
          /\ frames[i].param \in Param \cup {NULL}
          /\ frames[i].op \in {"unknown", "disable"}
          /\ frames[i].old \in Param \cup {NULL}
    /\ {reading, stale, mixed} \subseteq BOOLEAN

Prompt == frames = <<>> /\ fault = "none"

\* Between commands the buffer holds the leaves of the mode and nothing else,
\* in order and with the values of the tree, whatever came before: commands
\* that were refused half-way, do, modes entered and left, files, history.
\* stale names the three ways the code has to spoil it: "/" at config, a mode
\* entered or left from a line of the history, a file run in a mode that has
\* leaves.
PromptBuffer ==
    Prompt /\ ~stale =>
        /\ tlv_buff.b = LeafTlvs(cmd_tree_cursor)
        /\ tlv_buff.checkpoint = Len(tlv_buff.b)

\* What may follow the leaves: the command code, which TLV_LOOP does not visit,
\* behind "brief" if it was given.  config's own handler gets a code only by "/".
Tails(p) ==
    {<<CodeTlv(p)>>, <<BriefTlv, CodeTlv(p)>>}
        \cup (IF p = config THEN {<<>>} ELSE {})

EndsWith(s, t) ==
    Len(t) <= Len(s) /\ SubSeq(s, Len(s) - Len(t) + 1, Len(s)) = t

\* A handler is given the leaves of its line, once and in order, and the
\* command code as the last TLV, whatever calls the line is part of and
\* whatever those left in the buffer.  Before them it is given the leaves of the
\* mode and nothing else, so that it sees the whole way from the root; this
\* not when the line began with a buffer that was stale, which after "config /"
\* it is until the root, or mixed, which it is in a line of the history until
\* the buffer is reset or a mode is entered.
HandlerSeesPath ==
    call # NULL =>
        LET p == call.param
            mode == LeavesTo[call.from]
            line == SubSeq(LeafTlvs(p), Len(mode) + 1, Len(LeavesTo[p]))
        IN  \E tail \in Tails(p) :
               /\ EndsWith(call.tlvs, line \o tail)
               /\ call.exact => call.tlvs = LeafTlvs(p) \o tail

\* The prompt names the cursor: after every command, do and cd.. included,
\* the user is where the prompt says, with the values the handlers will get.
PromptShowsCursor ==
    Prompt => /\ cmd_tree_cursor # do_hook
              /\ console_name = build_mode_console_name(cmd_tree_cursor, value_holder)
==============================================================================
