------------------------- MODULE TcpServerController -------------------------
(***************************************************************************)
(* The server: the controller, whose operations the application's main     *)
(* thread calls, and the composition of its threads.                       *)
(*                                                                         *)
(* The application creates one server, registers its callbacks once and    *)
(* starts it; RegisterFirst says in which order (the command-line handler  *)
(* registers at creation, main() after Start).  It calls the operations in *)
(* Ops one at a time, in any order, before Start, after it, and again.     *)
(* tcp_server_lst of testapp.cpp keeps the pointer to the server for ever. *)
(***************************************************************************)
EXTENDS TcpNewConnectionAcceptor

CONSTANTS
    FirstAcceptor,  \* the acceptor object of the constructor
    RegisterFirst,  \* callbacks are registered before Start
    Ops             \* the operations the application calls

ASSUME FirstAcceptorAssumption == FirstAcceptor \in Acceptor

ASSUME OpsAssumption ==
    /\ RegisterFirst \in BOOLEAN
    /\ Ops \subseteq {"Start", "Display", "StopConnectionAcceptingSvc",
                      "StartConectionAcceptionSvc", "StopClientSvcMgr",
                      "Stop", "CreateActiveAClient"}

VARIABLES
    state_flags,
    tcp_new_conn_acc,       \* an acceptor or NULL
    tcp_client_svc_mgr,     \* "live", "deleted" (dangling) or "NULL"
    tcp_client_db_mgr,      \* "live" or "NULL"
    callbacks,              \* SetServerNotifCallbacks has been called
    mainPc,                 \* where the main thread is
    stopping                \* the operation under way is Stop

ctrlVars == <<state_flags, tcp_new_conn_acc, tcp_client_svc_mgr,
              tcp_client_db_mgr, callbacks, mainPc, stopping>>

vars == <<socketVars, client, fault, tcp_client_db, svcVars, accVars, ctrlVars>>

ServerFlag == {"INITIALIZED", "RUNNING", "NOT_ACCEPTING_NEW_CONNECTIONS",
               "NOT_LISTENING_CLIENTS"}

\* Between operations; in Start; in StopClientSvcMgr; in Stop, where Purge is
\* called, goes through the list and returns, or waits for its lock for ever;
\* deleted.
MainPC == {"app", "start_acceptor", "join", "null_svc_mgr", "stop_svc",
           "Purge", "purging", "blocked", "delete", "deleted"}

Init ==
    /\ SocketInit /\ ClientInit /\ DbInit /\ SvcInit /\ AccInit(FirstAcceptor)
    /\ state_flags = {"INITIALIZED"}
    /\ tcp_new_conn_acc = FirstAcceptor
    /\ tcp_client_svc_mgr = "live"
    /\ tcp_client_db_mgr = "live"
    /\ callbacks = FALSE
    /\ mainPc = "app"
    /\ stopping = FALSE

Set(flag) == state_flags' = state_flags \cup {flag}
UnSet(flag) == state_flags' = state_flags \ {flag}

-----------------------------------------------------------------------------
(* ProcessNewClient, on the acceptor's thread.                             *)

\* The pointers of the controller are read where they are used: a pointer
\* that is NULL or dangling by then ends the process.
Crash(a, here, what) ==
    /\ accPc[a] = here
    /\ fault' = what
    /\ UNCHANGED <<socketVars, client, tcp_client_db, svcVars, accVars, ctrlVars>>

AddToDb(a) ==
    /\ goto(a, "AddClienttoDb", "BeginPush")
    /\ tcp_client_db_mgr = "live"
    /\ AddClienttoDb(accepted[a])
    /\ SetState(accepted[a], "MULTIPLEX_LISTEN")
    /\ UNCHANGED <<socketVars, fault, svcVars, accepted, told, ctrlVars>>

StartPush(a) ==
    /\ goto(a, "BeginPush", "EndPush")
    /\ tcp_client_svc_mgr = "live"
    /\ BeginPush
    /\ UNCHANGED <<socketVars, client, fault, tcp_client_db, accepted, told, ctrlVars>>

FinishPush(a) ==
    /\ goto(a, "EndPush", "AddClientToEpoll")
    /\ tcp_client_svc_mgr = "live"
    /\ EndPush(accepted[a])
    /\ UNCHANGED <<socketVars, client, fault, tcp_client_db, accepted, told, ctrlVars>>

\* Mutant: the new client is listed and not registered.
ListOnly(a) ==
    /\ goto(a, "AddClientToEpoll", "accept")
    /\ tcp_client_svc_mgr = "live"
    /\ accepted' = [accepted EXCEPT ![a] = NULL]
    /\ UNCHANGED <<socketVars, client, fault, tcp_client_db, svcVars, told, ctrlVars>>

AddClientToEpoll(a) ==
    /\ goto(a, "AddClientToEpoll", "accept")
    /\ tcp_client_svc_mgr = "live"
    /\ IF epfd THEN epoll_add({client[accepted[a]].comm_fd}) ELSE UNCHANGED socketVars
    /\ accepted' = [accepted EXCEPT ![a] = NULL]
    /\ UNCHANGED <<client, fault, tcp_client_db, svcVars, told, ctrlVars>>

\* WaitUntilReady and ProcessNewClient through a manager that is gone.
AcceptorCrash(a) ==
    \/ /\ tcp_client_svc_mgr # "live"
       /\ \E here \in {"WaitUntilReady", "BeginPush", "EndPush", "AddClientToEpoll"} :
             Crash(a, here, "acceptor uses a deleted service manager")
    \/ /\ tcp_client_db_mgr # "live"
       /\ Crash(a, "AddClienttoDb", "acceptor uses a deleted controller")

AcceptorThread(a) ==
    \/ /\ \/ tcp_client_svc_mgr = "live" /\ WaitUntilReady(a)
          \/ Woken(a) \/ Listen(a) \/ Accept(a)
          \/ ClientConnected(a, callbacks)
       /\ UNCHANGED <<tcp_client_db, ctrlVars>>
    \/ AddToDb(a) \/ StartPush(a) \/ FinishPush(a) \/ AddClientToEpoll(a)
    \/ AcceptorCrash(a)

-----------------------------------------------------------------------------
(* The main thread.                                                        *)

Calls(op) == mainPc = "app" /\ op \in Ops

SetServerNotifCallbacks ==
    /\ mainPc = "app" /\ ~callbacks
    /\ callbacks' = TRUE
    /\ UNCHANGED <<socketVars, client, fault, tcp_client_db, svcVars, accVars,
                   state_flags, tcp_new_conn_acc, tcp_client_svc_mgr,
                   tcp_client_db_mgr, mainPc, stopping>>

\* Start: the service thread first, then the acceptor thread.
StartService ==
    /\ mainPc = "app" /\ svcPc = "none"
    /\ RegisterFirst => callbacks
    /\ StartTcpClientServiceManagerThread
    /\ mainPc' = "start_acceptor"
    /\ UNCHANGED <<socketVars, client, fault, tcp_client_db, accVars, state_flags,
                   tcp_new_conn_acc, tcp_client_svc_mgr, tcp_client_db_mgr,
                   callbacks, stopping>>

StartAcceptor ==
    /\ mainPc = "start_acceptor"
    /\ tcp_new_conn_acc # NULL /\ accPc[tcp_new_conn_acc] = "created"
    /\ StartTcpConnectionAcceptorThread(tcp_new_conn_acc)
    /\ Set("RUNNING")
    /\ mainPc' = "app"
    /\ UNCHANGED <<socketVars, client, fault, tcp_client_db, svcVars,
                   tcp_new_conn_acc, tcp_client_svc_mgr, tcp_client_db_mgr,
                   callbacks, stopping>>

Display ==
    /\ Calls("Display") /\ "RUNNING" \in state_flags
    /\ DisplayClientDb
    /\ UNCHANGED <<svcVars, accVars, ctrlVars>>

\* The pointer is dropped; the thread behind it goes on.
StopConnectionAcceptingSvc ==
    /\ Calls("StopConnectionAcceptingSvc")
    /\ "NOT_ACCEPTING_NEW_CONNECTIONS" \notin state_flags
    /\ Set("NOT_ACCEPTING_NEW_CONNECTIONS")
    /\ tcp_new_conn_acc' = NULL
    /\ UNCHANGED <<socketVars, client, fault, tcp_client_db, svcVars, accVars,
                   tcp_client_svc_mgr, tcp_client_db_mgr, callbacks, mainPc,
                   stopping>>

\* Mutant: the flag is not taken back.
StartKeepsFlag ==
    /\ Calls("StartConectionAcceptionSvc")
    /\ "NOT_ACCEPTING_NEW_CONNECTIONS" \in state_flags
    /\ \E a \in Acceptor :
          /\ accPc[a] = "unused"
          /\ tcp_new_conn_acc' = a
          /\ StartTcpConnectionAcceptorThread(a)
    /\ UNCHANGED <<socketVars, client, fault, tcp_client_db, svcVars, state_flags,
                   tcp_client_svc_mgr, tcp_client_db_mgr, callbacks, mainPc,
                   stopping>>

StartConectionAcceptionSvc ==
    /\ Calls("StartConectionAcceptionSvc")
    /\ "NOT_ACCEPTING_NEW_CONNECTIONS" \in state_flags
    /\ UnSet("NOT_ACCEPTING_NEW_CONNECTIONS")
    /\ \E a \in Acceptor :
          /\ accPc[a] = "unused"
          /\ tcp_new_conn_acc' = a
          /\ StartTcpConnectionAcceptorThread(a)
    /\ UNCHANGED <<socketVars, client, fault, tcp_client_db, svcVars,
                   tcp_client_svc_mgr, tcp_client_db_mgr, callbacks, mainPc,
                   stopping>>

\* StopClientSvcMgr, from the command line or from Stop: cancel the thread,
\* wait for its end, delete the manager, forget the pointer.
CancelService ==
    /\ Calls("StopClientSvcMgr") \/ mainPc = "stop_svc"
    /\ "NOT_LISTENING_CLIENTS" \notin state_flags
    /\ svcPc # "none"
    /\ Cancel
    /\ mainPc' = "join"
    /\ UNCHANGED <<socketVars, client, fault, tcp_client_db, accVars, state_flags,
                   tcp_new_conn_acc, tcp_client_svc_mgr, tcp_client_db_mgr,
                   callbacks, stopping>>

\* Mutant: the manager is deleted without pthread_join.
DeleteWithoutJoin ==
    /\ mainPc = "join"
    /\ ClearAndDelete
    /\ tcp_client_svc_mgr' = "deleted"
    /\ mainPc' = "null_svc_mgr"
    /\ UNCHANGED <<socketVars, client, fault, tcp_client_db, accVars, state_flags,
                   tcp_new_conn_acc, tcp_client_db_mgr, callbacks, stopping>>

JoinService ==
    /\ mainPc = "join"
    /\ svcPc = "exited"
    /\ ClearAndDelete
    /\ tcp_client_svc_mgr' = "deleted"
    /\ mainPc' = "null_svc_mgr"
    /\ UNCHANGED <<socketVars, client, fault, tcp_client_db, accVars, state_flags,
                   tcp_new_conn_acc, tcp_client_db_mgr, callbacks, stopping>>

\* Mutant: the pointer to the deleted manager is kept.
KeepDangling ==
    /\ mainPc = "null_svc_mgr"
    /\ Set("NOT_LISTENING_CLIENTS")
    /\ mainPc' = IF stopping THEN "Purge" ELSE "app"
    /\ UNCHANGED <<socketVars, client, fault, tcp_client_db, svcVars, accVars,
                   tcp_client_svc_mgr, tcp_new_conn_acc, tcp_client_db_mgr,
                   callbacks, stopping>>

ForgetService ==
    /\ mainPc = "null_svc_mgr"
    /\ Set("NOT_LISTENING_CLIENTS")
    /\ tcp_client_svc_mgr' = "NULL"
    /\ mainPc' = IF stopping THEN "Purge" ELSE "app"
    /\ UNCHANGED <<socketVars, client, fault, tcp_client_db, svcVars, accVars,
                   tcp_new_conn_acc, tcp_client_db_mgr, callbacks, stopping>>

\* Stop: first both services, each if its pointer is set; the operation it
\* calls looks at the flag before it does anything.
Stop ==
    /\ Calls("Stop")
    /\ stopping' = TRUE
    /\ IF tcp_new_conn_acc = NULL
       THEN UNCHANGED <<state_flags, tcp_new_conn_acc>>
       ELSE /\ Set("NOT_ACCEPTING_NEW_CONNECTIONS")
            /\ tcp_new_conn_acc' =
                  IF "NOT_ACCEPTING_NEW_CONNECTIONS" \in state_flags
                  THEN tcp_new_conn_acc ELSE NULL
    /\ mainPc' = IF \/ tcp_client_svc_mgr = "NULL"
                    \/ "NOT_LISTENING_CLIENTS" \in state_flags
                 THEN "Purge" ELSE "stop_svc"
    /\ UNCHANGED <<socketVars, client, fault, tcp_client_db, svcVars, accVars,
                   tcp_client_svc_mgr, tcp_client_db_mgr, callbacks>>

\* Purge takes a lock that nothing ever initialised: with what the heap held
\* there, the call returns or waits for ever.  Then begin() is compared with
\* end().
PurgeLock ==
    /\ mainPc = "Purge"
    /\ mainPc' \in {"blocked", IF tcp_client_db = <<>> THEN "delete" ELSE "purging"}
    /\ UNCHANGED <<socketVars, client, fault, tcp_client_db, svcVars, accVars,
                   state_flags, tcp_new_conn_acc, tcp_client_svc_mgr,
                   tcp_client_db_mgr, callbacks, stopping>>

\* The iterator goes on before the client is removed: from the last client it
\* reaches the end and stays there, whatever the acceptor adds from now on.
PurgeClient ==
    /\ mainPc = "purging"
    /\ mainPc' = IF Len(tcp_client_db) = 1 THEN "delete" ELSE "purging"
    /\ PurgeOne
    /\ UNCHANGED <<svcVars, accVars, state_flags, tcp_new_conn_acc,
                   tcp_client_svc_mgr, tcp_client_db_mgr, callbacks, stopping>>

\* The managers and the controller are deleted; its destructor asserts that
\* the pointers are NULL.
DeleteController ==
    /\ mainPc = "delete"
    /\ tcp_client_db_mgr' = "NULL"
    /\ UnSet("RUNNING")
    /\ mainPc' = "deleted"
    /\ fault' = IF tcp_new_conn_acc = NULL /\ tcp_client_svc_mgr = "NULL"
                THEN fault ELSE "assertion in ~TcpServerController"
    /\ UNCHANGED <<socketVars, client, tcp_client_db, svcVars, accVars,
                   tcp_new_conn_acc, tcp_client_svc_mgr, callbacks, stopping>>

\* The new client keeps heap garbage for a descriptor and a demarcar, and
\* goes to the list whether connect succeeded or not.
CreateActiveAClient ==
    /\ Calls("CreateActiveAClient")
    /\ \E c \in Active, fd \in FD \cup {0}, ptr \in {"NULL", "garbage"} :
          /\ client[c].heap = "unused"
          /\ NewActive(c, fd, ptr)
          /\ AddClienttoDb(c)
    /\ UNCHANGED <<socketVars, fault, svcVars, accVars, ctrlVars>>

\* An operation in the wrong order.  Start again, or Start after its acceptor
\* was dropped or replaced: a NULL pointer, or a second thread for an acceptor
\* object, whose bind fails and exits.  A stop before Start: the cancelled
\* handle is zero.  Any operation after Stop: the lookup reads the name of the
\* deleted server.
MainCrash ==
    /\ \/ /\ Calls("Start") /\ svcPc # "none"
          /\ fault' = "second Start"
       \/ /\ mainPc = "start_acceptor"
          /\ tcp_new_conn_acc # NULL => accPc[tcp_new_conn_acc] # "created"
          /\ fault' = "Start without a fresh acceptor"
       \/ /\ Calls("StopClientSvcMgr") \/ mainPc = "stop_svc"
          /\ svcPc = "none"
          /\ fault' = "cancel of a thread that was never started"
       \/ /\ mainPc = "deleted" /\ Ops # {}
          /\ fault' = "lookup of a deleted server"
    /\ UNCHANGED <<socketVars, client, tcp_client_db, svcVars, accVars, ctrlVars>>

MainThread ==
    \/ MainCrash
    \/ SetServerNotifCallbacks \/ StartService \/ StartAcceptor
    \/ Display \/ CreateActiveAClient
    \/ StopConnectionAcceptingSvc \/ StartConectionAcceptionSvc
    \/ CancelService \/ JoinService \/ ForgetService
    \/ Stop \/ PurgeLock \/ PurgeClient \/ DeleteController

-----------------------------------------------------------------------------

ServiceThread == SvcThread(callbacks) /\ UNCHANGED <<accVars, ctrlVars>>

Peer(c) ==
    /\ \/ Listening /\ PeerConnect(c)
       \/ PeerSend(c)
       \/ PeerClose(c)
    /\ UNCHANGED <<client, fault, tcp_client_db, svcVars, accVars, ctrlVars>>

Alive == fault = "none"

Next ==
    /\ Alive
    /\ \/ MainThread
       \/ ServiceThread
       \/ \E a \in Acceptor : AcceptorThread(a)
       \/ \E c \in Conn : Peer(c)

\* The threads are scheduled.  The application need not call anything, but
\* an operation it has called goes on until it returns.  The inner loop of
\* the service thread receives from one client until there is nothing left:
\* no peer keeps it there for ever by sending without a pause.
PeersPause == SF_vars(Alive /\ svcPc = "recv" /\ ServiceThread /\ svcPc' # "recv")

Fairness ==
    /\ WF_vars(Alive /\ ServiceThread) /\ PeersPause
    /\ \A a \in Acceptor : WF_vars(Alive /\ AcceptorThread(a))
    /\ WF_vars(Alive /\ mainPc # "app" /\ MainThread)

Spec == Init /\ [][Next]_vars /\ Fairness
-----------------------------------------------------------------------------
(* Properties.                                                             *)

TypeOK ==
    /\ SocketTypeOK /\ ClientTypeOK /\ DbTypeOK /\ SvcTypeOK /\ AccTypeOK
    /\ state_flags \subseteq ServerFlag
    /\ tcp_new_conn_acc \in Acceptor \cup {NULL}
    /\ tcp_client_svc_mgr \in {"live", "deleted", "NULL"}
    /\ tcp_client_db_mgr \in {"live", "NULL"}
    /\ callbacks \in BOOLEAN /\ stopping \in BOOLEAN
    /\ mainPc \in MainPC

\* No connection is accepted before the epoll set exists to register it in:
\* the ready_cond handshake orders the acceptor after epoll_create1.
AcceptAfterEpoll == (queued # {} \/ \E a \in Acceptor : accepted[a] # NULL) => epfd

\* The list of the service thread never holds a deleted client, nor one whose
\* descriptor number belongs to another connection, except the client it is
\* taking out: so GetClientByFd dereferences live clients only and finds the
\* right one although numbers are used again.
ListedOwnsFd ==
    \A c \in ToSet(svc_client_db) :
        /\ Live(c)
        /\ \/ fdOf[client[c].comm_fd] = c
           \/ c = served /\ svcPc \in {"epoll_del", "RemoveClient"}

\* recv reads, and close closes, the connection of the client it is for.
RecvOwnSocket == svcPc \in {"recv", "close"} => Live(served) /\ Source = served

\* While the service manager is deleted its thread does not run.
DeletedAfterExit == tcp_client_svc_mgr # "live" => svcPc = "exited"

\* Stop looks at the pointers, the operations it calls look at the flags: an
\* operation leaves them in agreement, so that Stop neither skips a service
\* nor stops it twice.
FlagsMatchPointers ==
    mainPc \in {"app", "Purge"} =>
        /\ ("NOT_ACCEPTING_NEW_CONNECTIONS" \in state_flags) <=> (tcp_new_conn_acc = NULL)
        /\ ("NOT_LISTENING_CLIENTS" \in state_flags) <=> (tcp_client_svc_mgr = "NULL")

\* Whatever was stopped and started before, ~TcpServerController finds its
\* pointers NULL.
DestructorAsserts == fault # "assertion in ~TcpServerController"

\* Data on an accepted connection is received, whichever way the acceptor's
\* registration and the service thread's start and loop fall together, and
\* although epoll_wait reports a client whose ring is full for ever.  Not
\* received is what comes from such a client, and from one that was lost in a
\* race with the removal of another.
Accepted(c) == \E fd \in FD : fdOf[fd] = c
DataReceived ==
    \A c \in Conn :
        (c \in data /\ Accepted(c)) ~> (c \notin data \/ c \in full \/ c \in lost)

\* Once the service thread is ready, some acceptor that waits for it gets to
\* listen, also if one was dropped and another started before: one signal is
\* enough for the server, though it may leave an acceptor waiting for ever.
\* (Cancelled at once, the service thread keeps ready_mutex.)
ServerListens ==
    (svcPc # "none" /\ Running # {}) ~> (Listening \/ cancelled \/ ~Alive)

\* Every ended connection has its descriptor closed, with the same two
\* exceptions: recv, which would tell of the end, is not called while the ring
\* is full.
EndedIsClosed ==
    \A c \in Conn :
        (c \in fin /\ Accepted(c)) ~> (~Accepted(c) \/ c \in full \/ c \in lost)

\* The server, seen from the application and the peers, is a ClientService:
\* although acceptor, service and main thread work on a connection in turn
\* and its descriptor number had other owners, client_connected was called
\* for every connection that is served, but for those the acceptor handed on
\* before the callbacks were set; none's data is taken for another's; and a
\* connection being served is closed only at its end and after its last byte.
Ready(c) == Accepted(c) /\ client[c].msgd = "set"
Served(c) == Ready(c) /\ c \in ToSet(svc_client_db)
stage ==
    [c \in Conn |->
        CASE c \notin opened                   -> "none"
          [] c \in queued                      -> "queued"
          [] Accepted(c) /\ ~Ready(c)          -> "accepted"
          [] Ready(c) /\ ~Served(c)            -> "ready"
          [] Served(c)                         -> "served"
          [] c \in opened \ queued /\ ~Accepted(c) -> "closed"]

Service == INSTANCE ClientService
           WITH unread <- data, ended <- fin, registered <- callbacks
IsClientService == Service!Spec

\* StopClientSvcMgr and Stop return: the cancelled service thread reaches a
\* cancellation point, and Purge, if it gets its lock, comes to the end of the
\* list.
StopReturns ==
    (mainPc \in {"join", "null_svc_mgr", "stop_svc", "Purge", "purging", "delete"}) ~>
        (mainPc \in {"app", "blocked", "deleted"} \/ ~Alive)

-----------------------------------------------------------------------------
(* What comments and documentation of the repository say.                  *)

\* TcpClient.h: MULTIPLEX_LISTEN means the client is serviced.
ListenedIsServiced ==
    \A c \in Conn :
        (/\ Live(c) /\ Accepted(c)
         /\ "MULTIPLEX_LISTEN" \in client[c].flags
         /\ \A a \in Acceptor : accepted[a] # c) => client[c].comm_fd \in epoll

\* README.md: the client manager lists connected clients.
DbClientsLive == \A c \in ToSet(tcp_client_db) : Live(c)

\* TcpServerController::Stop: once both services are stopped, no thread is
\* alive that could add a client.
NoThreadAtPurge == mainPc = "Purge" => Running = {}

==============================================================================
