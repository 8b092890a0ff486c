----------------------- MODULE TcpClientServiceManager -----------------------
(***************************************************************************)
(* The service thread and the list of clients it serves.  The list is      *)
(* shared with the acceptor thread without a lock: push_back is two steps  *)
(* here, and if an erase falls between them the list may come out with or  *)
(* without the new client.                                                 *)
(*                                                                         *)
(* The steps are the thread's system calls and its accesses to the list.   *)
(* How the bytes that recv returns become messages is the business of      *)
(* TcpConnection, for the build with length-prefixed messages.  What it    *)
(* shows of the ring is used here: recv takes all the bytes there are and  *)
(* the messages in them go to the application, until a peer sends a frame  *)
(* that is longer than the ring.  Then the ring fills up and stays full,   *)
(* and nothing is received from that client again.                         *)
(***************************************************************************)
EXTENDS TcpClientDBManager

CONSTANTS
    Acceptor,           \* the acceptor objects ever created
    Oversize            \* the connections whose peer may send a frame that is
                        \* longer than the ring

ASSUME AcceptorAssumption == NULL \notin Acceptor
ASSUME OversizeAssumption == Oversize \subseteq Conn

VARIABLES
    svcPc,              \* where the service thread is
    epfd,               \* epoll_create1 has been called
    is_ready,           \* the predicate of ready_cond
    waiters,            \* acceptors blocked in pthread_cond_wait
    svc_client_db,      \* TcpClientServiceManager::tcp_client_db
    pushRaced,          \* an erase happened while a push_back was under way
    lost,               \* history: clients that lost their place in the list or
                        \* the epoll set to one of the two races
    events,             \* reported by epoll_wait, not yet looked at
    served,             \* the client the inner loop works on, or NULL
    ready_fd,           \* the descriptor epoll_wait reported for it
    full,               \* the clients whose ring has no space left
    cancelled           \* pthread_cancel was called on the thread

readyVars == <<epfd, is_ready, waiters>>
listVars == <<svc_client_db, pushRaced, lost>>
loopVars == <<events, served, ready_fd, full>>
svcVars == <<svcPc, readyVars, listVars, loopVars, cancelled>>

SvcPC == {"none", "epoll_create", "signal", "register", "epoll_wait", "next",
          "recv", "close", "epoll_del", "RemoveClient", "exited"}

SvcInit ==
    /\ svcPc = "none"
    /\ epfd = FALSE /\ is_ready = FALSE /\ waiters = {}
    /\ svc_client_db = <<>> /\ pushRaced = FALSE /\ lost = {}
    /\ events = {} /\ served = NULL /\ ready_fd = 0 /\ full = {}
    /\ cancelled = FALSE

-----------------------------------------------------------------------------
(* Calls of the other threads.                                             *)

StartTcpClientServiceManagerThread ==
    /\ svcPc' = "epoll_create"
    /\ UNCHANGED <<readyVars, listVars, loopVars, cancelled>>

\* ClientFDStartListen is a push_back: it begins with the shape the list has
\* now and ends with the client linked in, if no erase came in between.
BeginPush ==
    /\ pushRaced' = FALSE
    /\ UNCHANGED <<svcPc, readyVars, svc_client_db, loopVars, cancelled, lost>>

EndPush(c) ==
    /\ \/ svc_client_db' = Append(svc_client_db, c) /\ UNCHANGED lost
       \/ pushRaced /\ lost' = lost \cup {c} /\ UNCHANGED svc_client_db
    /\ UNCHANGED <<svcPc, readyVars, pushRaced, loopVars, cancelled>>

Cancel ==
    /\ cancelled' = TRUE
    /\ UNCHANGED <<svcPc, readyVars, listVars, loopVars>>

\* The end of Stop: the list is emptied and the manager deleted.
ClearAndDelete ==
    /\ svc_client_db' = <<>>
    /\ UNCHANGED <<svcPc, readyVars, pushRaced, loopVars, cancelled, lost>>

-----------------------------------------------------------------------------
(* The thread.  msg_recvd_set says whether client_msg_recvd is set.        *)

EpollCreate ==
    /\ svcPc = "epoll_create"
    /\ epfd' = TRUE
    /\ svcPc' = "signal"
    /\ UNCHANGED <<socketVars, client, fault, is_ready, waiters, listVars,
                   loopVars, cancelled>>

\* Mutant: is_ready is set and nobody is signalled.
SignalNobody ==
    /\ svcPc = "signal"
    /\ is_ready' = TRUE
    /\ svcPc' = "register"
    /\ UNCHANGED <<socketVars, client, fault, epfd, waiters, listVars, loopVars,
                   cancelled>>

\* One pthread_cond_signal, which wakes one of the waiters.
SignalReady ==
    /\ svcPc = "signal"
    /\ is_ready' = TRUE
    /\ IF waiters = {} THEN UNCHANGED waiters
       ELSE \E a \in waiters : waiters' = waiters \ {a}
    /\ svcPc' = "register"
    /\ UNCHANGED <<socketVars, client, fault, epfd, listVars, loopVars,
                   cancelled>>

RegisterClients ==
    /\ svcPc = "register"
    /\ epoll_add({client[c].comm_fd : c \in ToSet(svc_client_db)})
    /\ svcPc' = "epoll_wait"
    /\ UNCHANGED <<client, fault, readyVars, listVars, loopVars, cancelled>>

EpollWait ==
    /\ svcPc = "epoll_wait" /\ ~cancelled
    /\ events' = {fd \in epoll : Readable(fd)}
    /\ events' # {}
    /\ svcPc' = "next"
    /\ UNCHANGED <<socketVars, client, fault, readyVars, listVars, served,
                   ready_fd, full, cancelled>>

EventsDone ==
    /\ svcPc = "next"
    /\ events = {}
    /\ svcPc' = "epoll_wait"
    /\ UNCHANGED <<socketVars, client, fault, readyVars, listVars, loopVars,
                   cancelled>>

\* Where in the list the clients with this descriptor are; GetClientByFd
\* returns the first one.
WithFd(fd) ==
    {i \in DOMAIN svc_client_db : client[svc_client_db[i]].comm_fd = fd}

GetClientByFd ==
    /\ svcPc = "next"
    /\ \E fd \in events :
          /\ events' = events \ {fd}
          /\ ready_fd' = fd
          /\ IF WithFd(fd) = {}
             THEN UNCHANGED <<svcPc, served>>
             ELSE served' = svc_client_db[Min(WithFd(fd))] /\ svcPc' = "recv"
    /\ UNCHANGED <<socketVars, client, fault, readyVars, listVars, full, cancelled>>

\* The connection recv reads from.
Source == fdOf[client[served].comm_fd]

\* Mutant: continue where the inner loop has break.
SkipAgain ==
    /\ svcPc = "recv" /\ served \in full
    /\ UNCHANGED <<socketVars, client, fault, svcVars>>

\* BCBAvailableSize is 0: recv is skipped, and so is the rest of the inner
\* loop.  epoll_wait will report the descriptor again.
SkipRecv ==
    /\ svcPc = "recv" /\ served \in full
    /\ svcPc' = "next"
    /\ served' = NULL
    /\ UNCHANGED <<socketVars, client, fault, readyVars, listVars, events,
                   ready_fd, full, cancelled>>

\* The thread calls recv.
Receiving == svcPc = "recv" /\ ~cancelled /\ served \notin full

\* recv returned bytes: ProcessMsg, and for each message that is complete
\* client_msg_recvd, without a look at whether it was ever set.  An oversize
\* frame fills the ring, whether bytes are left to receive or not.
RecvData(msg_recvd_set) ==
    /\ Receiving
    /\ Source \in data
    /\ \/ data' = data \ {Source} /\ UNCHANGED full
       \/ /\ Source \in Oversize
          /\ full' = full \cup {served}
          /\ data' \in {data, data \ {Source}}
    /\ \/ UNCHANGED fault
       \/ ~msg_recvd_set /\ fault' = "client_msg_recvd is not set"
    /\ UNCHANGED <<svcPc, readyVars, listVars, events, served, ready_fd, cancelled,
                   client, opened, queued, fdOf, fin, epoll>>

RecvAgain ==
    /\ Receiving
    /\ Source \in Conn \ (data \cup fin)
    /\ svcPc' = "next"
    /\ served' = NULL
    /\ UNCHANGED <<socketVars, client, fault, readyVars, listVars, events,
                   ready_fd, full, cancelled>>

\* Mutant: the end of a connection is taken from the event, as EPOLLRDHUP
\* would tell it, with data still to receive.
RecvEndEarly ==
    /\ Receiving
    /\ Source \notin Conn \/ Source \in fin
    /\ svcPc' = "close"
    /\ UNCHANGED <<socketVars, client, fault, readyVars, listVars, loopVars,
                   cancelled>>

\* recv returned 0, or an error other than EAGAIN.
RecvEnd ==
    /\ Receiving
    /\ Source \notin Conn \/ Source \in fin \ data
    /\ svcPc' = "close"
    /\ UNCHANGED <<socketVars, client, fault, readyVars, listVars, loopVars,
                   cancelled>>

\* Mutant: as if the descriptor had been duplicated, the registration
\* outlives the close.
CloseKeepsRegistration ==
    /\ svcPc = "close" /\ ~cancelled
    /\ fdOf' = [fdOf EXCEPT ![client[served].comm_fd] = NULL]
    /\ svcPc' = "epoll_del"
    /\ UNCHANGED <<opened, queued, data, fin, epoll, client, fault, readyVars,
                   listVars, loopVars, cancelled>>

CloseFd ==
    /\ svcPc = "close" /\ ~cancelled
    /\ close(client[served].comm_fd)
    /\ svcPc' = "epoll_del"
    /\ UNCHANGED <<client, fault, readyVars, listVars, loopVars, cancelled>>

EpollDel ==
    /\ svcPc = "epoll_del"
    /\ epoll_del(ready_fd)
    /\ lost' = IF ready_fd \in epoll /\ fdOf[ready_fd] # served
               THEN lost \cup {fdOf[ready_fd]} ELSE lost
    /\ svcPc' = "RemoveClient"
    /\ UNCHANGED <<client, fault, readyVars, svc_client_db, pushRaced, loopVars,
                   cancelled>>

\* Mutant: the client is deleted and stays in the list.
DeleteOnly ==
    /\ svcPc = "RemoveClient"
    /\ delete(served)
    /\ served' = NULL
    /\ svcPc' = "next"
    /\ UNCHANGED <<socketVars, fault, readyVars, listVars, events, ready_fd, full,
                   cancelled>>

\* Mutant: no break after RemoveClient, the inner loop receives again.
RemoveAndGoOn ==
    /\ svcPc = "RemoveClient"
    /\ svc_client_db' = remove(svc_client_db, served)
    /\ pushRaced' = TRUE
    /\ delete(served)
    /\ svcPc' = "recv"
    /\ UNCHANGED <<socketVars, fault, readyVars, loopVars, cancelled, lost>>

\* list::remove, then delete.
RemoveClient ==
    /\ svcPc = "RemoveClient"
    /\ svc_client_db' = remove(svc_client_db, served)
    /\ pushRaced' = TRUE
    /\ delete(served)
    /\ served' = NULL
    /\ svcPc' = "next"
    /\ UNCHANGED <<socketVars, fault, readyVars, events, ready_fd, full, cancelled,
                   lost>>

\* Mutant: the thread runs with PTHREAD_CANCEL_DISABLE.
CancelDisabled == FALSE /\ UNCHANGED <<socketVars, client, fault, svcVars>>

\* Deferred cancellation: once cancelled the thread ends at its next
\* cancellation point, instead of the call there.  In "signal" that is a
\* printf under ready_mutex, which stays locked: no acceptor gets past it, as
\* if is_ready were never set.  In "recv" it is recv, or the printf of the full
\* ring, which also may be passed (SkipRecv).
Exit ==
    /\ cancelled
    /\ svcPc \in {"signal", "epoll_wait", "recv", "close"}
    /\ svcPc' = "exited"
    /\ UNCHANGED <<socketVars, client, fault, readyVars, listVars, loopVars,
                   cancelled>>

SvcThread(msg_recvd_set) ==
    /\ \/ EpollCreate \/ SignalReady \/ RegisterClients
       \/ EpollWait \/ EventsDone \/ GetClientByFd
       \/ SkipRecv \/ RecvData(msg_recvd_set) \/ RecvAgain \/ RecvEnd
       \/ CloseFd \/ EpollDel \/ RemoveClient
       \/ Exit
    /\ UNCHANGED tcp_client_db

SvcTypeOK ==
    /\ svcPc \in SvcPC
    /\ {epfd, is_ready, pushRaced, cancelled} \subseteq BOOLEAN
    /\ waiters \subseteq Acceptor
    /\ svc_client_db \in Seq(Client) /\ lost \subseteq Client
    /\ events \subseteq FD
    /\ served \in Client \cup {NULL}
    /\ ready_fd \in FD \cup {0} /\ full \subseteq Client
==============================================================================
