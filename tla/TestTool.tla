------------------------------ MODULE TestTool ------------------------------
(***************************************************************************)
(* The test tool of CommandParser/ut/utinfra/ut_parser.c, after            *)
(* ut_parser_init, which the application has to call.  run_test_case reads *)
(* a script line by line on the thread of the command line: it runs the    *)
(* commands of the script, receives from a message queue of one entry what *)
(* a "show" command printed with cli_out, and judges patterns against what *)
(* it received last.  Results are listed until the end of the test case.   *)
(*                                                                         *)
(* A handler may call cli_out itself or leave it to another thread of the  *)
(* application ("backend").  The queue has a name and outlives the         *)
(* process.  An answer is the number of the command it answers.            *)
(***************************************************************************)
EXTENDS Glthread, SequencesExt

CONSTANTS
    Heads,              \* the local result_head of each script under way
    StepNo,
    Match,              \* the patterns scripts hold: TRUE for PATTERN-MATCH,
                        \* FALSE for PATTERN-NOT-MATCH
    MaxCmds             \* bound on the number of commands

\* What a node holds, once it is appended to the list of results.
Result == [step : StepNo, pass : BOOLEAN, match : Match]

\* Scripts may run scripts, as many deep as there are heads.
ASSUME ToolAssumption ==
    /\ Heads \in Seq(Node) /\ Heads # <<>>
    /\ \A i, j \in DOMAIN Heads : i # j => Heads[i] # Heads[j]
    /\ StepNo # {} /\ Match \subseteq BOOLEAN /\ MaxCmds \in Nat
    /\ NULL \notin Result

MAX_MESSAGES == 1

VARIABLES
    pc,                 \* where the innermost script is; "idle" if there is none
    scripts,            \* the calls of run_test_case under way
    TC_RUNNING,
    cmds,               \* commands so far
    links, result,      \* the lists, and what is allocated
    queue,
    ut_parser_recv_buff,    \* NULL: of size 0
    ut_parser_debug,
    asked, sending,     \* answers the backend owes; in its cli_out
    spilt               \* history: a command began with answers outstanding

list == <<links, result>>
backend == <<asked, sending>>
vars == <<pc, scripts, TC_RUNNING, cmds, spilt, list, queue, ut_parser_recv_buff,
          ut_parser_debug, backend>>

NoLinks == [n \in Node |-> NULL]

\* The locals of run_test_case: all says that tc_no is 0; cmd is the command
\* under way, has_show that its text contains "show".  Two history variables: shown,
\* the last "show" command of this script if the tool received for it and no
\* script ran since, and judged, the verdicts of the test case so far.
Script == [all : BOOLEAN, current_step_no : StepNo, cmd : 0 .. MaxCmds,
           has_show : BOOLEAN, shown : 1 .. MaxCmds \cup {NULL},
           judged : Seq(Result)]
top == scripts[Len(scripts)]
result_head == Heads[Len(scripts)]
SetTop(record) == scripts' = [scripts EXCEPT ![Len(scripts)] = record]

Init ==
    /\ pc = "idle" /\ scripts = <<>> /\ TC_RUNNING = FALSE
    /\ cmds = 0 /\ spilt = FALSE
    /\ links = [left |-> NoLinks, right |-> NoLinks] /\ result = NoLinks
    /\ queue = <<>> /\ ut_parser_recv_buff = NULL /\ ut_parser_debug = FALSE
    /\ asked = {} /\ sending = {}

\* From the command line, or as a command of a script.  current_step_no is
\* not initialised.
run_test_case ==
    /\ pc \in {"idle", "handler"} /\ Len(scripts) < Len(Heads)
    /\ pc' = "line"
    /\ \E all \in BOOLEAN, step \in StepNo :
          scripts' = Append(scripts, [all |-> all, current_step_no |-> step,
                                      cmd |-> 0, has_show |-> FALSE,
                                      shown |-> NULL, judged |-> <<>>])
    /\ links' = init_glthread(links, Heads[Len(scripts) + 1])
    /\ UNCHANGED <<TC_RUNNING, result, cmds, spilt, queue, ut_parser_recv_buff,
                   ut_parser_debug, backend>>

-----------------------------------------------------------------------------
(* The lines of a script.  It is any sequence of them; cases that tc_no    *)
(* skips leave no trace.                                                   *)

\* The call that returns to the handler of a command, or to the console.
Leave ==
    LET outer == SubSeq(scripts, 1, Len(scripts) - 1)
    IN  IF outer = <<>> THEN pc' = "idle" /\ scripts' = outer
        ELSE /\ pc' = "handler"
             /\ scripts' = [outer EXCEPT ![Len(outer)].shown = NULL]

\* Mutant: TC_RUNNING stays as it is.
FinishRunning == Leave /\ UNCHANGED TC_RUNNING

Finish == Leave /\ TC_RUNNING' = FALSE

TestcaseBegin ==
    /\ pc = "line"
    /\ TC_RUNNING' = TRUE
    /\ UNCHANGED <<pc, scripts, cmds, spilt, list, queue, ut_parser_recv_buff,
                   ut_parser_debug, backend>>

\* Mutant: the results are freed where they are.
FreeOnly ==
    /\ result' = [n \in Node |->
            IF \E i \in DOMAIN Elements(links, result_head) :
                    Elements(links, result_head)[i] = n
            THEN NULL ELSE result[n]]
    /\ UNCHANGED links

\* Every node is removed and freed, the next one being known before.
tc_cleanup_result_list ==
    LET s == Elements(links, result_head)
        removed[i \in 0 .. Len(s)] ==
            IF i = 0 THEN links ELSE remove_glthread(removed[i - 1], s[i])
    IN  /\ links' = removed[Len(s)]
        /\ result' = [n \in Node |->
                IF \E i \in 1 .. Len(s) : s[i] = n THEN NULL ELSE result[n]]

TestcaseEnd ==
    /\ pc = "line"
    /\ tc_cleanup_result_list
    /\ IF ~top.all /\ TC_RUNNING THEN Finish
       ELSE SetTop([top EXCEPT !.judged = <<>>]) /\ UNCHANGED <<pc, TC_RUNNING>>
    /\ UNCHANGED <<cmds, spilt, queue, ut_parser_recv_buff, ut_parser_debug,
                   backend>>

Step ==
    /\ pc = "line"
    /\ \E step \in StepNo : SetTop([top EXCEPT !.current_step_no = step])
    /\ UNCHANGED <<pc, TC_RUNNING, cmds, spilt, list, queue, ut_parser_recv_buff,
                   ut_parser_debug, backend>>

\* ":CMD:" calls parse_input_cmd, which calls a handler of the application.
Cmd ==
    /\ pc = "line" /\ cmds < MaxCmds
    /\ pc' = "handler"
    /\ cmds' = cmds + 1
    /\ \E has_show \in BOOLEAN :
          SetTop([top EXCEPT !.cmd = cmds + 1, !.has_show = has_show])
    /\ spilt' = (spilt \/ queue # <<>> \/ asked \cup sending # {})
    /\ UNCHANGED <<TC_RUNNING, list, queue, ut_parser_recv_buff, ut_parser_debug,
                   backend>>

\* A pattern is never found in an empty buffer.
tc_append_result(match) ==
    \E n \in {m \in Node \ ToSet(Heads) : result[m] = NULL}, found \in BOOLEAN :
        LET r == [step |-> top.current_step_no, pass |-> (found = match),
                  match |-> match]
        IN  /\ ut_parser_recv_buff = NULL => ~found
            /\ result' = [result EXCEPT ![n] = r]
            /\ links' = glthread_add_last(init_glthread(links, n), result_head, n)
            /\ SetTop([top EXCEPT !.judged = Append(@, r)])

Pattern ==
    /\ pc = "line"
    /\ \E match \in Match : tc_append_result(match)
    /\ UNCHANGED <<pc, TC_RUNNING, cmds, spilt, queue, ut_parser_recv_buff,
                   ut_parser_debug, backend>>

\* What does not match is dropped from the buffer, which may empty it.
Grep ==
    /\ pc = "line"
    /\ ut_parser_recv_buff' = NULL
    /\ UNCHANGED <<pc, scripts, TC_RUNNING, cmds, spilt, list, queue,
                   ut_parser_debug, backend>>

\* ":ABORT:" or the end of the file.  The results are not freed, but nothing
\* points to them any more; there is zeroed memory enough for others.
EndOfScript ==
    /\ pc = "line"
    /\ Finish
    /\ LET gone == {result_head} \cup ToSet(Elements(links, result_head))
           Without(f) == [n \in Node |-> IF n \in gone THEN NULL ELSE f[n]]
       IN  /\ links' = [left |-> Without(links.left), right |-> Without(links.right)]
           /\ result' = Without(result)
    /\ UNCHANGED <<cmds, spilt, queue, ut_parser_recv_buff, ut_parser_debug,
                   backend>>

\* A command that is refused, or an INT_STORE without an index: an assertion
\* ends the process.  The next one finds the queue as it was.
AssertFails ==
    /\ pc \in {"line", "handler"}
    /\ pc' = "idle" /\ scripts' = <<>> /\ TC_RUNNING' = FALSE
    /\ links' = [left |-> NoLinks, right |-> NoLinks] /\ result' = NoLinks
    /\ ut_parser_recv_buff' = NULL /\ ut_parser_debug' = FALSE
    /\ asked' = {} /\ sending' = {}
    /\ UNCHANGED <<cmds, spilt, queue>>

-----------------------------------------------------------------------------
(* The handler of a command, cli_out, and the backend.                     *)

\* mq_send waits while the queue is full.
mq_send(c) == Len(queue) < MAX_MESSAGES /\ queue' = Append(queue, c)

\* Without a test case running, cli_out prints and nothing changes.
cli_out ==
    /\ pc = "handler" /\ TC_RUNNING
    /\ mq_send(top.cmd)
    /\ UNCHANGED <<pc, scripts, TC_RUNNING, cmds, spilt, list,
                   ut_parser_recv_buff, ut_parser_debug, backend>>

AskBackend ==
    /\ pc = "handler"
    /\ asked' = asked \cup {top.cmd}
    /\ UNCHANGED <<pc, scripts, TC_RUNNING, cmds, spilt, list, queue,
                   ut_parser_recv_buff, ut_parser_debug, sending>>

BackendOut(c) ==
    /\ asked' = asked \ {c}
    /\ sending' = IF TC_RUNNING THEN sending \cup {c} ELSE sending
    /\ UNCHANGED <<pc, scripts, TC_RUNNING, cmds, spilt, list, queue,
                   ut_parser_recv_buff, ut_parser_debug>>

BackendSend(c) ==
    /\ mq_send(c)
    /\ sending' = sending \ {c}
    /\ UNCHANGED <<pc, scripts, TC_RUNNING, cmds, spilt, list,
                   ut_parser_recv_buff, ut_parser_debug, asked>>

\* "debug ut enable" or "disable".
set_ut_debug_flag ==
    /\ pc = "handler"
    /\ ut_parser_debug' \in BOOLEAN
    /\ UNCHANGED <<pc, scripts, TC_RUNNING, cmds, spilt, list, queue,
                   ut_parser_recv_buff, backend>>

\* TC_RUNNING is looked at after the handler: a script it ran has cleared it.
HandlerDone ==
    /\ pc = "handler"
    /\ pc' = IF top.has_show /\ TC_RUNNING THEN "receive" ELSE "line"
    /\ SetTop([top EXCEPT !.cmd = 0, !.has_show = FALSE,
                          !.shown = CASE ~top.has_show -> @
                                      [] top.has_show /\ TC_RUNNING -> top.cmd
                                      [] OTHER -> NULL])
    /\ UNCHANGED <<TC_RUNNING, cmds, spilt, list, queue, ut_parser_recv_buff,
                   ut_parser_debug, backend>>

\* Mutant: a timeout leaves the buffer alone.
KeepOnTimeout ==
    IF queue = <<>> THEN UNCHANGED <<queue, ut_parser_recv_buff>>
    ELSE queue' = Tail(queue) /\ ut_parser_recv_buff' = Head(queue)

\* The timeout is the third second of 1970: an empty queue is a timeout at
\* once.  With debugging on, the answer is logged and then dropped.
mq_timedreceive ==
    IF queue = <<>> THEN ut_parser_recv_buff' = NULL /\ UNCHANGED queue
    ELSE /\ queue' = Tail(queue)
         /\ ut_parser_recv_buff' = IF ut_parser_debug THEN NULL ELSE Head(queue)

Receive ==
    /\ pc = "receive"
    /\ mq_timedreceive
    /\ pc' = "line"
    /\ UNCHANGED <<scripts, TC_RUNNING, cmds, spilt, list, ut_parser_debug,
                   backend>>

Next ==
    \/ run_test_case
    \/ TestcaseBegin \/ TestcaseEnd \/ Step \/ Cmd \/ Pattern \/ Grep
    \/ EndOfScript \/ AssertFails
    \/ cli_out \/ AskBackend \/ set_ut_debug_flag \/ HandlerDone \/ Receive
    \/ \E c \in asked : BackendOut(c)
    \/ \E c \in sending : BackendSend(c)

Spec == Init /\ [][Next]_vars

-----------------------------------------------------------------------------
results(i) == Elements(links, Heads[i])

\* The type of every variable; what the lists hold is allocated.
TypeOK ==
    /\ pc \in {"idle", "line", "handler", "receive"}
    /\ pc = "idle" <=> scripts = <<>>
    /\ {TC_RUNNING, ut_parser_debug, spilt} \subseteq BOOLEAN
    /\ scripts \in Seq(Script) /\ Len(scripts) <= Len(Heads)
    /\ cmds \in 0 .. MaxCmds
    /\ links \in Links /\ result \in [Node -> Result \cup {NULL}]
    /\ queue \in Seq(1 .. MaxCmds) /\ Len(queue) <= MAX_MESSAGES
    /\ ut_parser_recv_buff \in 1 .. MaxCmds \cup {NULL}
    /\ asked \cup sending \subseteq 1 .. MaxCmds
    /\ \A i \in DOMAIN scripts : \A n \in ToSet(results(i)) : result[n] # NULL

\* The list that :TESTCASE-END: prints holds the verdicts of that test case,
\* each once, in the order of the script and none of an earlier case or of
\* another script, and can be walked back, although memory is reused, scripts
\* run scripts, and each may end anywhere.
ResultsOfCase ==
    \A i \in DOMAIN scripts :
        LET s == results(i)
        IN  /\ [k \in DOMAIN s |-> result[s[k]]] = scripts[i].judged
            /\ \A k \in DOMAIN s :
                  links.left[s[k]] = IF k = 1 THEN Heads[i] ELSE s[k - 1]

\* As long as no command began with an answer outstanding, a pattern after a
\* "show" of its script is judged against what that "show" printed, or against
\* nothing.  (shown says for which "show" there is such a promise: not before
\* :TESTCASE-BEGIN: nor after a script that was run in between, which leaves
\* TC_RUNNING cleared and its own answer in the buffer.)
OwnAnswer ==
    pc = "line" /\ ~spilt /\ top.shown # NULL =>
        ut_parser_recv_buff \in {NULL, top.shown}

\* Only while a script runs does output go to the queue: afterwards nobody
\* receives, and the second cli_out of the console would wait for ever.
ConsolePrints == pc = "idle" => ~TC_RUNNING
==============================================================================
