# Verification of linux-tcp-server

TLA+ models of the server, TLC runs on small instances, and theorems checked by
TLAPS. Every definition is translated from the code; `PROJECT.json` maps it to
its lines.

## 1. Inventory

| part | state | operations | talks to |
|---|---|---|---|
| `ByteCircularBuffer` | storage, `front`, `rear`, `current_size`, mutex | write, read (with or without removal), reset | owned by a demarcar |
| `TcpMsgDemarcar` and its two subclasses | a ring, a message buffer | `ProcessMsg`, `ProcessClientMsg` | called by the service thread, calls the application |
| `TcpClientServiceManager` | its list of clients, the epoll set, the ready flag | the epoll thread; start, cancel, add | reads sockets, shares the list with the acceptor |
| `TcpNewConnectionAcceptor` | a listening socket | the accept loop | hands each client to the controller |
| `TcpServerController` | `state_flags`, three pointers, callbacks | start, stop, per-service stop and start, display, active client | owns everything above |
| `TcpClientDbManager` | the list of all clients | add, display, purge | acceptor and main thread |
| `TcpClient` | descriptor, flags, demarcar | `Abort`, flags | deleted by the service thread or by `Purge` |
| `testapp.cpp` | servers by name | command handlers | calls the controller |
| `parser.c`, `cmd_hier.c` | command tree, cursor, leaf values, prompt | parse a line, "/", "?", ".", "cd", "cd..", "do", "repeat", "config load" | calls the handlers, is called again by some of them |
| `serialize.c` | the TLV buffer: bytes, size, checkpoint | append, mark, restore, skip, reset | the parser and the handlers |
| the loop of `parser.c`, `clistd.c` | the input buffer, the last command, whether to record, a counter; the history file, which outlives the process | read a line, record, "repeat", "show history", the built-in handlers | share stdin, call `parse_input_cmd` |
| `ut/utinfra/ut_parser.c` | message queue, receive buffer, list of results | run a test script | called by `parse_input_cmd`, calls it |
| `gluethread/glthread.c` | intrusive doubly linked lists | add, remove, iterate | test tool |

Threads: the main thread (command line), one service thread, and one acceptor
thread for each acceptor object. `main()` starts one server; the command-line
branch of `testapp.cpp`, which calls the other controller operations, is
compiled out by `#if 1` and is the only caller that shows their intended order.

Hard behaviours, and what correctness means there:

* **Ring**: wrap-around in two copies, full against empty, refused calls. It must be
  a bounded byte queue.
* **Framing**: `recv` cuts headers and payloads anywhere; a frame may not fit the
  ring; the ring's mutex may be kept. Every message must come out once, in
  order, unchanged, as soon as it is complete.
* **Service loop**: the end of a connection, a ring that is full and stays full,
  descriptor numbers that are reused at once, a list shared without a lock,
  cancellation at any statement.
* **Start-up**: the acceptor must wait until the epoll set exists, and one signal
  must be enough for the server to listen; the application sets its callbacks
  before or after, and what is accepted in between it is not told of.
* **Command line**: `parse_input_cmd` is re-entered by "repeat", "show history", "run
  ut" and files, on one TLV buffer and one set of leaf values. A handler must
  get the leaves of its line after those of the mode it is in, after refused
  lines, modes entered and left, "do" and negation.
* **Console**: the loop, "repeat", "show history" and the choice between ambiguous
  words all read stdin, each in its own way, while the user types ahead; a
  loaded file switches recording off. The history file must be the log of what
  was typed and completed, across processes, and "repeat" must run what was
  typed last.
* **Test tool**: answers travel through a named queue of one entry, perhaps from
  another thread and perhaps late; results live in reused memory. A pattern must
  be judged against the answer to its own command, also when a script runs a
  script.
* **Stopping**: services are stopped and started in any order while the threads
  run; stopping must return and must not pull objects from under a thread.

## 2. Modules

| module | models | state and actions against the code |
|---|---|---|
| `ByteCircularBuffer` | `ByteCircularBuffer.cpp` as operators on a record | one operator per function; the mutex is a field, because `BCBRead` may leave it locked |
| `ByteCircularBufferCalls` | a caller of that interface | one action per call; `returned` and `out` are the results |
| `ByteQueue` | the promise of the ring | bounded queue |
| `TcpMsgDemarcar` | `ProcessMsg` and the service loop over one connection | one action per system call of the loop and one for `ProcessMsg` |
| `TcpMsgVariabSizeDemarcar`, `TcpMsgFixedSizeDemarcar` | the two `ProcessClientMsg` | one action per iteration of their loops |
| `TcpConnection` | one connection with the demarcar of its build | `FIX_SIZE_DEMAR` is chosen in `Init`; `ProcessClientMsg` and `IsBufferReadyToFlush` are the virtual calls |
| `MessageChannel` | the promise of framing | messages in order |
| `Sockets` | descriptors, epoll, peers (external) | lowest free number; epoll keyed by number |
| `TcpClient`, `TcpClientDBManager` | client objects and the controller's list | operators used by the threads |
| `TcpClientServiceManager` | the service thread | one action per system call or list access; `push_back` of the acceptor is two steps; a ring is full (`full`) or takes what there is |
| `TcpNewConnectionAcceptor` | the acceptor threads | one action per step of the accept loop |
| `TcpServerController` | the controller's operations and the composition | one action per operation, several where the other threads can come between: the join in `StopClientSvcMgr`; in `Stop` each service, Purge's lock, each client it removes (`mainPc`) |
| `ClientService` | the promise of the server | a connection is accepted, made ready, served, closed; the application is told of it when it is made ready, unless it has not registered its callbacks by then; data only while served |
| `SerBuffer` | `serialize.c`, in units of one TLV | one operator per function on the record of bytes, size and checkpoint; `next` is the length |
| `CmdTree` | `param_t`, the tree and what the parser asks of it | the tree is a parent function; `options` is what a token may match: children, the siblings of a "no", what `do_hook` borrows from the root |
| `CommandParser` | `parse_input_cmd`, `build_tlv_buffer`, `parse_file`, cursor and prompt | `frames` is the stack of the calls under way; one action per kind of line, per token and per end of a line, one for each return; `call` is the handler called by the step |
| `TestappCommands` | the commands that `testapp.cpp` registers | constants of the tree |
| `Console` | the loop of `command_parser`, `repeat_last_command`, `show_history_callback`, `record_command`, the choice of `find_matching_param` | a line is of a kind (`Kind`); one action per kind and outcome; `frames` is the stack of calls; stdin is a sequence of lines of which each reader takes its part |
| `Glthread` | `glthread.c` | operators on the two links of every node |
| `TestTool` | `run_test_case`, `cli_out`, the queue, the backend of the application | `scripts` is the stack of calls of `run_test_case` with their locals; one action per kind of line of a script, per system call, and for a failed assertion followed by a restart |

`MCRing`, `MCConnection`, `MCServer`, `MCCommandParser`, `MCConsole` and `MCTestTool`
instantiate them. `ByteCircularBufferCalls` composes the ring with a caller, the
demarcars compose the service loop with the ring and `TcpConnection` both
demarcars; `TcpServerController` composes the threads over `Sockets`;
`CommandParser` uses `SerBuffer` and `CmdTree`, `TestTool` uses `Glthread`. Three
abstract specifications state promises, each shown by a refinement mapping:
`ByteQueue` by the ring, `MessageChannel` by a connection,
`ClientService` by the server; the three are proved. In the last one the stage of
a connection is read off the descriptor table, the demarcar pointer (set where the
acceptor is done with `client_connected`, called or not) and the list of the service
thread; that the application was told is `told`, which only a call of
`client_connected` changes. The
definitions marked *Mutant* in a comment are wrong versions of the definition
that follows; they are used by no specification, and show that each property
can tell the code from a plausible bug in it.

A step that follows a deleted or unset pointer sets `fault` and ends the
behaviour (`Alive`): the code's outcome is undefined there. `CommandParser` does
the same where the code walks off the tree ("do" or "cd" at `do_hook`), rewinds
before the buffer, reads a "no" as a leaf, or fails an assertion, and `Console`
where an array is written past its end. The operations of the controller called
in a wrong order are faults too (`MainCrash`: a second Start, Start without a
fresh acceptor, a stop before Start, any call after Stop). An uninitialised
pointer is a choice between NULL and garbage, an uninitialised descriptor any
number, and the uninitialised lock of `Purge` is taken or waited for for ever
(`blocked`).

The server model is that of the length-prefixed build. What happens to the bytes
inside a connection is `TcpConnection`'s business, and the server model uses what
is shown there: `recv` takes what there is, and only a frame longer than the ring
fills it (`FullMeansOversize`). Peers in `Oversize` may send one; their client is then
`full`, `recv` is skipped (`SkipRecv`), and neither its data nor its end is noticed again.

## 3. Runs

| run | shows | bounds |
|---|---|---|
| `MCRing` | the ring refines `ByteQueue` under every sequence of calls | 3 bytes of storage, calls of 0 to 4 bytes, 2 byte values: all index pairs, all wraps, refused calls |
| `MCConnection` | either demarcar: no byte lost or repeated (`StreamInv`), nothing complete waits, order kept (`IsMessageChannel`). With length prefixes: the mutex is free, fitting messages arrive, the ring is full only because of a frame longer than it, the end of a connection is noticed | both values of `FIX_SIZE_DEMAR`; a ring of 4, two-valued bytes so that both header bytes count, frames of 2 to 5 bytes or messages of 2 (they wrap), `recv` of any length |
| `MCVariabValid` | **violated**: a length the code calls valid is never delivered when the frame exceeds the ring | the length-prefixed build |
| `MCFixedDelivered` | **violated**: after the first drain the thread waits for its own mutex | the fixed-size build |
| `MCChurn` | start-up order, descriptor reuse is safe for the service thread, data and ends are noticed unless the client's ring is `full` or it was `lost` in a race; the threads implement `ClientService` | 3 connections over 2 descriptor numbers, so a number is reused while the other is in use; one peer may send a frame longer than the ring |
| `MCLifecycle` | the manager outlives its thread, flags and pointers of the controller agree between operations, the destructor's assertions hold, stopping returns, a started server gets to listen although one signal may wake a dropped acceptor; and (`ClientService`) the application was told of every connection that is served, but for those handed on before it set its callbacks, and stopping cuts off none that is served | 1 connection, 2 acceptor objects, 1 active client, every operation in every order from before Start to after Stop, callbacks set before or after Start |
| `MCDeaf` | **violated**: `close` before `EPOLL_CTL_DEL` removes a new client's registration | 2 connections |
| `MCDbLive` | **violated**: the client list keeps deleted clients | 1 connection |
| `MCPurge` | **violated**: Stop purges with the acceptor alive | 1 connection |
| `MCCommandParser` | between commands the buffer is that of the mode (`PromptBuffer`), a handler gets the leaves of its line and, before them, those of the mode (`HandlerSeesPath`), the prompt names the cursor | two values per leaf so that a stale one shows; three nested calls (script, history, command); two TLVs kept, which is the longest mode; the tree of `testapp.cpp` without commands of the same shape; one parameter each has a validation, a list of values and "brief", which `testapp.cpp` registers for none: so the library's code for them is run as well |
| `MCConsole` | the history file is, over an earlier process's, the first `MAX_SAVED_CMDS` lines typed and completed (`HistoryIsLog`), and "repeat" runs the last line typed (`RepeatRunsLast`); both say what a loaded file and a choice change | 4 lines typed, so that the counter of 3 reaches its limit with one to spare; a line of each kind; 4 nested calls (repeat, history, file, line); one restart; files of two lines left by an earlier process, among them one that runs "show history" again |
| `MCTestTool` | the printed verdicts are those of the test case (`ResultsOfCase`), an answer is the command's own unless one began with answers outstanding (`OwnAnswer`), the console is never left writing to the queue (`ConsolePrints`) | a script that runs a script; 3 results, so memory is reused and lists have a middle; 2 commands, so one can be late; `PATTERN-MATCH` only, because the kind of a pattern is printed and no more; the queue of one entry is the code's |

`CHECK_DEADLOCK FALSE` stands where the system may rest: peers stop sending, the
application calls nothing, the process has ended (a `fault` of the command line
too), `mq_send` waits for ever, the bound on commands or typed lines is reached,
or (fixed size) the thread has blocked itself, which `MCFixedDelivered` shows.

Symmetry is used in `MCCommandParser` and `MCTestTool`: over the values of leaves, which
are only compared, and over the nodes of results, any of which an allocation may
return. Both runs check invariants only.

Ghost variables: `sent` and `delivered` (histories), `lost` (clients whose
registration was taken out by the `EPOLL_CTL_DEL` of another, or whose
`push_back` raced with an erase), `told` (connections `client_connected` was called
for), `call` (the handler called by this step), `stale` (what the buffer keeps is not
of the mode), `mixed` (it also holds what a "show history" under way has collected),
`past` and `log` of the console (the file
at the start of the process; what the loop has run), `shown`, `judged` and `spilt` of
the test tool. `DataReceived` and `EndedIsClosed` except
clients that are `lost` or whose ring is `full`, and nothing else. `stale` names the
three ways the code has to spoil its
buffer: "/" at `config` (the checkpoint is taken after the command code), a mode
entered or left by a line of the history (what "show history" collected is below the
mark, or is what is rewound), and a file run in a mode with leaves (the buffer is
reset, the cursor is not). It lasts until the buffer is rebuilt, or
reset with the cursor where no leaves are on the way. `HandlerSeesPath` promises two things. A handler is always given
the leaves of its own line, once, in order, and last before the command code. And if
the buffer was neither `stale` nor `mixed` when the line began, they come after the
leaves of the mode and nothing else; so after "config /" and in a line of the history
the handlers do get TLVs that are not theirs, in front of their own.
`spilt` is true once a command began while an answer was owed or queued; the
tool cannot tell whose answer it receives then. `shown` names the command whose
answer patterns may expect; it is unset before `:TESTCASE-BEGIN:` and after a
nested script, which leaves `TC_RUNNING` cleared and its own answer in the buffer.
`HistoryIsLog` excepts by name what a loaded file mutes (after "repeat" the loop
goes on before it switches recording on again) and the answer that a choice
leaves in the place of the line.

`ut_parser_init` is called by nothing under `src/`: `TestTool` describes the tool in
an application that calls it, and so do the script lines of `CommandParser`.
Results that a script's end leaks stand for other zeroed memory.

**Fairness.** Threads are scheduled: weak fairness for the service thread and each
acceptor. The main thread need not call anything, but finishes an operation it
has begun. `PeersPause` (strong fairness for leaving the inner `recv` loop) says
that no peer sends without ever pausing; the code does not guarantee it: one
busy peer starves all others at `TcpClientServiceManager.cpp:77`. `StopReturns`
does not need it, because `recv` is a cancellation point.

## 4. Proofs

Everything below holds for every value of the constants that the named
assumptions of the modules allow. `SequenceLemmas` has the facts about sequences
that the library does not state: cutting and joining, what `FlattenSeq` returns,
and induction over the natural numbers for a set (`SetInduction`, from
`WFMin`: the library's own rule takes an operator, which no installed prover can
instantiate). Each inductive invariant was checked by TLC on the instances of the
runs before it was proved.

**The ring** (`ByteCircularBuffer_proofs`, from `BufferSizeAssumption`,
`ZeroByteAssumption`, `MaxCallAssumption`): `RingTypeOK`, `RingIndexInv` (`front` is
`current_size` past `rear`, modulo the size) and `RingIsByteQueue` (the ring
implements `ByteQueue`). The inductive invariant is `TypeOK /\ IndexInv`: the
contents are read from `rear` while writes go to `front`, and without the index
equation a write need not land right behind the contents.
`ByteCircularBuffer_lemmas` reduces `%` to one case (`Wrap`), shows where a byte is
stored after one or two copies (`StoredAt`, `SlotOfByte`), and from that
`WriteAppends`, `FetchedIsPrefix` and `ReadLeavesRest`, the three facts that make a
call a step of the queue. The proofs about a connection use the same three.

**A connection** (`TcpConnection_proofs`; besides the ring's assumptions
`BaseAssumption`, `PayloadAssumption`: a payload's length fits the two bytes of the
header, and `RingHoldsHeader`: the storage is not smaller than a header; the
code's has 256 bytes). Proved for both demarcars, every ring, every set of payloads
and every way `recv` cuts the stream: `TypeCorrect`, `NoByteLost`,
`NoMessageWaits`, `MutexNeverKept`, `FullForOversizeOnly` and
`ConnectionIsMessageChannel`. The inductive invariant adds to the properties

* `Accounted`: the bytes sent are, in this order, those of the delivered messages,
  the ring, the receive buffer, the socket, and what a reset by the peer took
  away; the next message can be named only from this;
* `DeliveredPrefix`: what was delivered is a prefix of what was sent, so that the
  bytes in the ring begin at a message boundary;
* `Conforming`: the fixed-size build gets messages of its size;
* `BufferFits`: what `recv` returned has room in the ring, for it was asked for no
  more, so `BCBWrite` never refuses.

`ProcessClientMsg` then takes exactly the next message off the ring
(`FlushTakes`, `DrainTakes`, on `WriteAppends` and `ReadLeavesRest`), which is both
preservation of `Accounted` and the step of `MessageChannel`.

**The server** (`TcpServerController_proofs`; from `FDAssumption`: descriptor numbers are finitely many and positive,
`ClientAssumption`, `AcceptorAssumption`, `FirstAcceptorAssumption`,
`OpsAssumption`). Proved for any number of connections, descriptors, acceptors and
active clients and every set of operations the application calls:
`TypeCorrect`, `AcceptedAfterEpoll`, `ListedClientsOwn`, `SocketOfServed`,
`ManagerOutlivesThread`, `FlagsAgree`, `DestructorHolds` and
`ServerIsClientService`. The invariant has five layers, each proved from those
before it:

1. `TypeInv`: types, and that whatever a list or a thread points to was created
   and has a descriptor number;
2. `Control`: flags, pointers and the place of the main thread agree; the
   manager is deleted after its thread has ended;
3. `Handshake`: an acceptor past `WaitUntilReady` has seen `is_ready`, which is set
   after `epoll_create1`;
4. `Ownership`: why unlocked lists and reused numbers do no harm here. A
   connection in the backlog has no client (`Fresh`), an accepted one has one
   descriptor (`OneDescriptor`) and one acceptor (`OneHand`). Until the acceptor
   has pushed the client it is in no list and has its descriptor
   (`HandsOwn`); afterwards the service thread alone closes it, and from
   `close` to `list::remove` it is the client that thread serves
   (`ListOwns`). `Purge` closes descriptors too, but only when there is no list
   any more (`ListGone`, from `Control`);
5. `Progress`: what is listed was made ready, a connection is closed after its end
   and its last byte, and a removed client has no descriptor left.

For the refinement the steps are divided by thread: a step that leaves tables,
`told`, the callbacks and the list alone is a stutter (`QuietStep`), the others move the
stage of one connection (`OneMoves`), or of all when the manager is deleted.
Lemmas of the form "this variable is written by these steps"
(`SocketWriters`, `ListWriters`, ...) keep each layer to the few actions that
matter for it.

**The test tool** (`TestTool_proofs`; from `NodeAssumption`: a node is not `NULL` and
nodes are finitely many, and `ToolAssumption`: the heads are different nodes).
Proved for any number of scripts inside scripts, nodes and commands: `TypesHold`,
`ListHoldsCase`, `AnswerIsOwn` and `ConsoleIsFree`. The first half of the module is
about the lists of `Glthread`. `IsList(links, head, s)` says what the pointers of a
list with the nodes `s` are; `Elements` is defined by recursion along the pointers,
and `ElementsOfList` shows that it then returns `s` (`VisitsList`, by `SetInduction`).
From that follow what the code's operations make of a list (`Initialised`,
`Appended`, `Removed`, and `Cleaned` for the loop that removes node after node), each
with the frame: what is not in the list keeps its pointers. The inductive
invariant has, besides the types,

* `Commanded`: a script that runs a handler, or waits for the script that its
  handler ran, has the number of its command, so no answer is numbered 0;
* `Lists`: the pointers of each script under way are a list (`IsList`), of allocated
  nodes that are no heads, holding its verdicts, and no two scripts share a node
  (`Apart`). `ResultsOfCase` alone is not inductive: a node taken for one script must be
  in no other list, and the pointers of the last node must be `NULL`;
* `Answers`: as long as nothing was outstanding when a command began, what is in the
  queue or owed by the backend is the answer to the command in its handler, then
  the "show" being received for, and the buffer holds that or nothing.

**The console** (`Console_proofs`; from `ConsoleAssumption`: what is typed and what the
files hold are lines, and the bounds are numbers). Proved for any lines typed ahead,
any nesting of repeats, histories and files, and any number of restarts:
`TypesHold`, `HistoryIsTheLog` and `RepeatRunsTheLast`. Both of the latter speak of the
whole log, so the proof carries one relation, `Kept`, between the lines of the log
that have ended and what the loop has kept of them: the switch of the recording,
the counter, the file and the last command. The switch and the counter are what
makes the file's equation inductive: recording is on unless a file was loaded by
the line under way, or by an earlier one with only repeats since (`MutedAfter`), and
`cmd_counter` is the number of recordable lines up to the limit. `RunsLast` adds that
the buffer holds the line under way, or what a choice left of its answer. `Kept`
changes where a line ends (`KeptLine`, `KeptRepeat`); everywhere else the log
changes at the line under way or not at all (`KeptElsewhere`, `GoesOn`).

**The command line** (`CommandParser_proofs`; from `TreeAssumption`,
`WellFoundedAssumption`, `DoHookAssumption` and `ParserAssumption`). Proved for every
tree of commands, every initial size of the buffer, every set of values and every
depth of calls: `TypesHold`, `PromptBufferHolds`, `HandlersSeeTheirPath` and
`PromptIsTheCursors`. What is assumed of the tree is what `cmd_hier.c` makes of it:
`libcli_register_param` gives a parameter one parent (lines 591-625), so that
following parents ends at the root or at `do_hook` (`WellFoundedAssumption`: every
set of parameters has one whose parent is not in the set); a parameter is a word, a
leaf or a "no" and not two of them; `do_hook` offers "show", "debug" and "clear" of the
root and has no child (413-419); a "no" is put below "config" only (the assertion of
`support_cmd_negation`, 531). "brief" is for the commands of "show": that `config` has
none is assumed too.

The module has three parts. The first is recursion: the library's theorem on
recursive functions takes operators, so `TreeRecursion` shows, as a set of pairs, that
a function defined along the parents exists, once for the tree and for the natural
numbers alike. From it come the equations of `path`, `LeavesTo` and `twice`, and by
`TreeInduction` what the steps need of them: an option of a parameter lies one step
below it (`PathBelow`, `OptionBelow`; for a "no" beside it, for `do_hook` below the root),
a leaf given in a line is not on the way to the cursor (`OptionNotOnPath`), so giving
it a value changes neither the prompt nor the TLVs of the mode (`NameSame`,
`TlvsSame`), and the TLVs of a leaf's parent are those of the leaf without the last
(`TlvsBelow`).

The second is the buffer: each operator of `SerBuffer` keeps the checkpoint within
what is written and that within the size (`Sound...`), and what it does to the bytes
below the checkpoint (`Kept`). `DoubledEnough` is why the loop that doubles the size
ends with enough room.

The third is the inductive invariant. The properties are not inductive: two of
them speak of the prompt only, one of a call of a handler, and between those the
buffer is cut, rebuilt and refilled by calls of calls. `IInv` says of every state

* `Kinds`: the types;
* `Stack`: only the last call reads tokens, and none does while a line is
  awaited; what "do" comes back to is a place in config mode;
* `Deeper`: the tokens read so far lead down from the cursor. Without it a leaf
  might be given again that the mode already has, under its feet;
* `Shown`: the prompt is that of the cursor or, while the cursor is at `do_hook`,
  of the place the innermost "do" comes back to: scripts and the history can run
  several inside each other;
* `Holds`: unless `stale`, the bytes below the checkpoint are the leaves of the
  cursor (`Kept`); unless also `mixed`, nothing is above them while a line is awaited,
  and while tokens are read the buffer holds the leaves on the way to where they
  have led. In any state in which tokens are read, the buffer ends with the leaves
  of the line so far (`Own`). The checkpoint is what makes it inductive: a
  refused line leaves anything above it, and the return cuts that off
  (`RestoreOrResetStep`).

`HandlerSeesPath` is carried along beside `IInv`, because it speaks of the step that
calls the handler. There is one lemma for each action, named after it.

Only model-checked, and why:

* liveness (`AllDelivered` and the like, `DataReceived`, `EndedIsClosed`,
  `ServerListens`, `StopReturns`), which TLAPS 1.4 does not
  prove;
* the runs that expect a violation, where one behaviour is enough;
* that the proofs' assumptions on the tree hold of the tree of `testapp.cpp`: TLC
  evaluates them on `MCCommandParser`. What the prompt buffer holds once it is
  `stale` is neither checked nor proved: any bytes the code leaves there.

## 5. Not modelled

The `select()` branch (`EPOLL` is 1), acceptor setup failures that end in `exit`,
functions without a caller (`BCBIsFull`, `CanAcceptMoreData`, the acceptor's
`Stop`), the application's formatting, the example clients, `network_utils`.
`std::list` corruption under the unlocked accesses is represented only by the
loss of the racing `push_back`. Several servers in one process (the lookup by
name among them, two servers on one port) are left out, as is that "no" before
"tcp-server <name>" or "start" creates and starts like the command without it.
That a peer who never pauses starves the others is assumed away (`PeersPause`).

Of the command line: matching on characters (`string_util.c`; a line is a path of
the tree in `CommandParser`, of a kind in `Console`), the hooks of `init_libcli` other
than show, history and config, `set_device_name`, the functions of `serialize.c`
and `glthread.c` that nothing calls. `Console` has numbers of one digit, its
"run ut" lines are those of `TestTool`, and a line that lost its first letter to
"repeat" is any line (`junk`). What a line does to the command tree is in
`CommandParser` only.

## 6. Plan

1. Done: ring, framing, the threaded server, the ring's proofs.
2. Done: `SerBuffer`, `CmdTree`, `CommandParser` on the tree of `testapp.cpp`.
3. Done: `Glthread` and the test tool on it.
4. Done: the operations of a controller in every order, before Start and after
   Stop; `ClientService`, which the threads implement.
5. Done: the console loop, the history and its file; both demarcars in one
   `TcpConnection`; scripts that run scripts.
6. Done: the proofs of section 4: both demarcars and their refinement of
   `MessageChannel`, the server's safety and its refinement of `ClientService`, the
   test tool, the console, the command line.
7. Several servers by name and "no" in the handlers of `testapp.cpp`: a table over
   `TcpServerController`, small enough to be checked beside it.
