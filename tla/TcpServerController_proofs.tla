---------------------- MODULE TcpServerController_proofs ----------------------
(***************************************************************************)
(* The safety properties of the threaded server, for any number of         *)
(* connections, descriptors and acceptors, and whatever operations the     *)
(* application calls.                                                      *)
(*                                                                         *)
(* First what the proofs stand on: what the server's operators return (the *)
(* descriptor accept hands out, the client GetClientByFd finds, the list   *)
(* that list::remove leaves), the inductive invariant and its layers,      *)
(* which step writes what, and the types.  Each layer of the invariant     *)
(* uses those before it: TypeInv, Control (the main thread and the         *)
(* pointers it manages), Handshake (what the service thread's ready signal *)
(* tells the acceptors), Ownership (which client has which descriptor, and *)
(* which thread has the client) and Progress (how far a connection is).    *)
(*                                                                         *)
(* Then every step preserves each layer, the properties follow from them,  *)
(* and with them every step is one of ClientService or changes nothing     *)
(* there.                                                                  *)
(***************************************************************************)
EXTENDS TcpServerController, SequenceLemmas

-----------------------------------------------------------------------------
(* Least numbers.                                                          *)

\* Every set of natural numbers with a member has a least one.
LEMMA LeastExists ==
  ASSUME NEW T, T \subseteq Nat, T # {}
  PROVE  \E n \in T : \A m \in T : n <= m
<1>1. PICK n \in T : \A m \in T : <<m, n>> \notin Less
  BY WFMin, LessWellFounded
<1>2. ASSUME NEW m \in T, m < n
      PROVE  <<m, n>> \in Less
  BY <1>2 DEF Less
<1>3. ASSUME NEW m \in T
      PROVE  n <= m
  <2>1. m \in Nat /\ n \in Nat /\ ~(m < n)
    BY <1>1, <1>2
  <2> QED BY <2>1
<1> QED BY <1>3

\* accept finds a free descriptor number when there is one.
LEMMA LowestFreeIsFree ==
  ASSUME Free # {}
  PROVE  LowestFree \in FD /\ fdOf[LowestFree] = NULL
<1>1. Free \subseteq Nat
  BY FDAssumption DEF Free
<1>2. \E fd \in Free : \A other \in Free : fd <= other
  BY <1>1, LeastExists
<1>3. LowestFree \in Free
  BY <1>2 DEF LowestFree
<1> QED BY <1>3 DEF Free

\* GetClientByFd finds a client of the list that has the descriptor.
LEMMA FirstWithFd ==
  ASSUME NEW fd, svc_client_db \in Seq(Client), WithFd(fd) # {},
         NEW c, c = svc_client_db[Min(WithFd(fd))]
  PROVE  c \in ToSet(svc_client_db) /\ client[c].comm_fd = fd
<1>1. WithFd(fd) \subseteq Nat
  BY DEF WithFd
<1>2. \E i \in WithFd(fd) : \A j \in WithFd(fd) : i <= j
  BY <1>1, LeastExists
<1>3. Min(WithFd(fd)) \in WithFd(fd)
  BY <1>2 DEF Min
<1> QED BY <1>3 DEF WithFd, ToSet

-----------------------------------------------------------------------------
(* list::push_back and list::remove.                                       *)

\* push_back adds one item.
LEMMA AppendedSet ==
  ASSUME NEW S, NEW list \in Seq(S), NEW item \in S
  PROVE  Append(list, item) \in Seq(S) /\ ToSet(Append(list, item)) = ToSet(list) \cup {item}
<1>1. Append(list, item) \in Seq(S)
  OBVIOUS
<1>2. Len(Append(list, item)) = Len(list) + 1
  OBVIOUS
<1>3. ASSUME NEW x \in ToSet(list) \cup {item}
      PROVE  \E i \in DOMAIN Append(list, item) : Append(list, item)[i] = x
  <2>1. CASE x = item
    BY <2>1
  <2>2. CASE x \in ToSet(list)
    <3>1. PICK i \in DOMAIN list : list[i] = x
      BY <2>2 DEF ToSet
    <3> QED BY <3>1
  <2> QED BY <1>3, <2>1, <2>2
<1>4. ASSUME NEW i \in DOMAIN Append(list, item)
      PROVE  Append(list, item)[i] \in ToSet(list) \cup {item}
  <2>1. CASE i = Len(list) + 1
    BY <2>1
  <2>2. CASE i # Len(list) + 1
    <3>1. i \in DOMAIN list /\ Append(list, item)[i] = list[i]
      BY <2>2
    <3> QED BY <3>1 DEF ToSet
  <2> QED BY <2>1, <2>2
<1>5. PICK longer : longer = Append(list, item)
  OBVIOUS
<1>6. ToSet(longer) = ToSet(list) \cup {item}
  BY <1>3, <1>4, <1>5 DEF ToSet
<1> QED BY <1>1, <1>5, <1>6

\* f[i] is what removing item from the first i items of list leaves, for i
\* up to n.
Keeps(f, list, item, n) ==
  f = [i \in 0 .. n |->
         IF i = 0 THEN <<>>
         ELSE IF list[i] = item THEN f[i - 1]
         ELSE Append(f[i - 1], list[i])]

\* What f[i] is.
KeepsAt(f, list, item, i) ==
  f[i] = IF i = 0 THEN <<>>
         ELSE IF list[i] = item THEN f[i - 1]
         ELSE Append(f[i - 1], list[i])

\* The same, item by item.
LEMMA KeepsItems ==
  ASSUME NEW list, NEW item, NEW n \in Nat, NEW f
  PROVE  Keeps(f, list, item, n) <=>
           /\ f = [i \in 0 .. n |-> f[i]]
           /\ \A i \in 0 .. n : KeepsAt(f, list, item, i)
  BY DEF Keeps, KeepsAt

\* There is such an f for every n, so the recursive definition is met.
LEMMA KeepsExists ==
  ASSUME NEW list, NEW item, NEW n \in Nat
  PROVE  \E f : Keeps(f, list, item, n)
<1> DEFINE T == {m \in Nat : \E f : Keeps(f, list, item, m)}
<1>1. 0 \in T
  <2>1. Keeps([i \in 0 .. 0 |-> <<>>], list, item, 0)
    BY DEF Keeps
  <2> QED BY <2>1
<1>2. ASSUME NEW m \in Nat, m \in T
      PROVE  m + 1 \in T
  <2>1. PICK f : Keeps(f, list, item, m)
    BY <1>2
  <2>2. PICK k \in Nat : k = m + 1
    OBVIOUS
  <2> DEFINE g == [i \in 0 .. k |->
                     IF i # k THEN f[i]
                     ELSE IF list[k] = item THEN f[m] ELSE Append(f[m], list[k])]
  <2>3. ASSUME NEW i \in 0 .. k
        PROVE  KeepsAt(g, list, item, i)
    <3>1. CASE i = k
      <4>1. i # 0 /\ i - 1 = m /\ m \in 0 .. k /\ m # k
        BY <2>2, <3>1
      <4>2. g[m] = f[m]
        BY <4>1
      <4> QED BY <3>1, <4>1, <4>2 DEF KeepsAt
    <3>2. CASE i # k
      <4>1. i \in 0 .. m /\ (i # 0 => i - 1 \in 0 .. k /\ i - 1 # k)
        BY <2>2, <3>2
      <4>2. g[i] = f[i] /\ (i # 0 => g[i - 1] = f[i - 1])
        BY <3>2, <4>1
      <4>3. KeepsAt(f, list, item, i)
        BY <2>1, <4>1, KeepsItems
      <4> QED BY <4>1, <4>2, <4>3 DEF KeepsAt
    <3> QED BY <3>1, <3>2
  <2>4. g = [i \in 0 .. k |-> g[i]]
    OBVIOUS
  <2> HIDE DEF g
  <2>5. Keeps(g, list, item, k)
    BY <2>3, <2>4, KeepsItems
  <2> QED BY <2>2, <2>5
<1> HIDE DEF T
<1>3. n \in T
  BY <1>1, <1>2, SetInduction
<1> QED BY <1>3 DEF T

\* The items among the first i of a list.
Among(list, i) == {list[j] : j \in 1 .. i}

\* remove takes the item out and keeps every other.
LEMMA RemovedSet ==
  ASSUME NEW S, NEW list \in Seq(S), NEW item
  PROVE  /\ remove(list, item) \in Seq(S)
         /\ ToSet(remove(list, item)) = ToSet(list) \ {item}
<1>1. PICK n \in Nat : n = Len(list)
  OBVIOUS
<1>2. PICK f : Keeps(f, list, item, n) /\ remove(list, item) = f[n]
  <2> DEFINE g == CHOOSE h : Keeps(h, list, item, n)
  <2>1. Keeps(g, list, item, n)
    BY KeepsExists
  <2>2. remove(list, item) = g[n]
    BY <1>1 DEF remove, Keeps
  <2> QED BY <2>1, <2>2
<1>3. \A i \in 0 .. n : KeepsAt(f, list, item, i)
  BY <1>2, KeepsItems
<1> DEFINE T == {i \in Nat : i <= n =>
                   /\ f[i] \in Seq(S)
                   /\ ToSet(f[i]) = Among(list, i) \ {item}}
<1>4. 0 \in T
  <2>1. f[0] = <<>>
    <3>1. 0 \in 0 .. n
      BY <1>1
    <3>2. KeepsAt(f, list, item, 0)
      BY ONLY <1>3, <3>1
    <3> QED BY ONLY <3>2 DEF KeepsAt
  <2>2. Among(list, 0) = {} /\ ToSet(<<>>) = {}
    BY DEF Among, ToSet
  <2>3. <<>> \in Seq(S)
    OBVIOUS
  <2> QED BY <2>1, <2>2, <2>3
<1>5. ASSUME NEW i \in Nat, i \in T
      PROVE  i + 1 \in T
  <2>1. PICK k \in Nat : k = i + 1
    OBVIOUS
  <2>2. SUFFICES ASSUME k <= n
                 PROVE  /\ f[k] \in Seq(S)
                        /\ ToSet(f[k]) = Among(list, k) \ {item}
    BY <2>1
  <2>3. f[i] \in Seq(S) /\ ToSet(f[i]) = Among(list, i) \ {item}
    BY <1>5, <2>1, <2>2
  <2>4. k \in 0 .. n /\ k # 0 /\ k - 1 = i /\ list[k] \in S
    BY <1>1, <2>1, <2>2
  <2>5. f[k] = IF list[k] = item THEN f[i] ELSE Append(f[i], list[k])
    BY <1>3, <2>4 DEF KeepsAt
  <2>6. Among(list, k) = Among(list, i) \cup {list[k]}
    <3>1. 1 .. k = (1 .. i) \cup {k}
      BY <2>1
    <3> QED BY <3>1 DEF Among
  <2>7. CASE list[k] = item
    BY <2>3, <2>5, <2>6, <2>7
  <2>8. CASE list[k] # item
    <3>1. Append(f[i], list[k]) \in Seq(S)
          /\ ToSet(Append(f[i], list[k])) = ToSet(f[i]) \cup {list[k]}
      BY <2>3, <2>4, AppendedSet
    <3> QED BY <2>3, <2>5, <2>6, <2>8, <3>1
  <2> QED BY <2>7, <2>8
<1>6. n \in T
  <2> HIDE DEF T
  <2> QED BY <1>4, <1>5, SetInduction
<1>7. Among(list, n) = ToSet(list)
  BY <1>1 DEF Among, ToSet
<1> QED BY <1>2, <1>6, <1>7

-----------------------------------------------------------------------------
(* The invariant.                                                          *)

\* Where an acceptor has a new client in its hands.
HandingOver == {"client_connected", "AddClienttoDb", "BeginPush", "EndPush",
                "AddClientToEpoll"}

\* Where the service thread works on one client.
Serving == {"recv", "close", "epoll_del", "RemoveClient"}

\* The clients the service thread serves.
Listed == ToSet(svc_client_db)

\* The client is the one that closes its descriptor.
Owns(c) ==
    Live(c) /\ client[c].comm_fd \in FD /\ fdOf[client[c].comm_fd] = c

\* A connection that has a client has a descriptor number; what the lists and
\* the threads point to was created.
Numbered ==
    /\ \A c \in Conn : client[c].heap # "unused" => client[c].comm_fd \in FD
    /\ \A a \in Acceptor : accepted[a] # NULL <=> accPc[a] \in HandingOver
    /\ \A a \in Acceptor : accepted[a] # NULL => client[accepted[a]].heap # "unused"
    /\ \A c \in ToSet(tcp_client_db) : client[c].heap # "unused"
    /\ \A c \in Listed : c \in Conn /\ client[c].heap # "unused"
    /\ svcPc \in Serving => served \in Listed

TypeInv == TypeOK /\ Numbered

\* The part of TypeOK that is about the controller.
CtrlTypeOK ==
    /\ state_flags \subseteq ServerFlag
    /\ tcp_new_conn_acc \in Acceptor \cup {NULL}
    /\ tcp_client_svc_mgr \in {"live", "deleted", "NULL"}
    /\ tcp_client_db_mgr \in {"live", "NULL"}
    /\ callbacks \in BOOLEAN /\ stopping \in BOOLEAN
    /\ mainPc \in MainPC

\* Where Stop has stopped both services.
Purging == {"Purge", "purging", "blocked", "delete", "deleted"}

\* Flags and pointers agree, and the pointers fit the place the main thread
\* is at; the manager goes only after its thread has ended.
Control ==
    /\ "NOT_ACCEPTING_NEW_CONNECTIONS" \in state_flags <=> tcp_new_conn_acc = NULL
    /\ "NOT_LISTENING_CLIENTS" \in state_flags <=> tcp_client_svc_mgr = "NULL"
    /\ mainPc = "null_svc_mgr" <=> tcp_client_svc_mgr = "deleted"
    /\ mainPc \in {"stop_svc", "join"} => tcp_client_svc_mgr = "live"
    /\ mainPc \in Purging => tcp_client_svc_mgr = "NULL"
    /\ mainPc \in Purging \cup {"stop_svc"} => stopping
    /\ stopping => tcp_new_conn_acc = NULL /\ mainPc \notin {"app", "start_acceptor"}
    /\ tcp_client_svc_mgr # "live" => svcPc = "exited"
    /\ fault # "assertion in ~TcpServerController"

\* is_ready is set after epoll_create1, and every acceptor past
\* WaitUntilReady has seen it.
Handshake ==
    /\ svcPc \notin {"none", "epoll_create", "exited"} => epfd
    /\ is_ready => epfd
    /\ \A a \in Acceptor : accPc[a] \in {"listen", "accept"} \cup HandingOver => is_ready
    /\ queued # {} => is_ready

\* A connection not accepted yet has neither a client nor a descriptor.
Fresh ==
    \A c \in queued \cup (Conn \ opened) :
        client[c].heap = "unused" /\ \A fd \in FD : fdOf[fd] # c

\* A connection has one descriptor,
OneDescriptor ==
    \A fd, other \in FD : fdOf[fd] # NULL /\ fdOf[fd] = fdOf[other] => fd = other

\* and is handed over by one acceptor.
OneHand ==
    \A a, b \in Acceptor : accepted[a] # NULL /\ accepted[a] = accepted[b] => a = b

\* Until an acceptor has pushed its client the service thread does not have
\* it, and nobody closes its descriptor while there is a service.
HandsOwn ==
    \A a \in Acceptor :
        accPc[a] \in HandingOver \ {"AddClientToEpoll"} =>
            /\ accepted[a] \notin Listed
            /\ tcp_client_svc_mgr = "live" => Owns(accepted[a])

\* A listed client has its descriptor, unless it is just being taken out.
ListOwns ==
    \A c \in Listed :
        Live(c) /\ (Owns(c) \/ (c = served /\ svcPc \in {"epoll_del", "RemoveClient"}))

\* Without a manager there is no list.
ListGone == tcp_client_svc_mgr # "live" => Listed = {}

Ownership == Fresh /\ OneDescriptor /\ OneHand /\ HandsOwn /\ ListOwns /\ ListGone

\* A client gets its demarcar where client_connected is called, before it is
\* listed and once; the service thread closes the connection only at its end
\* and after its last byte, and the removed client has no descriptor left.
Progress ==
    /\ \A c \in Listed : client[c].msgd = "set"
    /\ \A a \in Acceptor :
          accPc[a] = "client_connected" => client[accepted[a]].msgd = "NULL"
    /\ \A a \in Acceptor :
          accPc[a] \in HandingOver \ {"client_connected"} =>
              client[accepted[a]].msgd = "set"
    /\ svcPc = "close" => served \in fin \ data
    /\ svcPc \in {"epoll_del", "RemoveClient"} => ~Accepted(served)

\* The inductive invariant.
IInv == TypeInv /\ Control /\ Handshake /\ Ownership /\ Progress

-----------------------------------------------------------------------------
(* Which steps write what.                                                 *)

\* The steps that make a system call which changes the kernel's tables.
LEMMA SocketWriters ==
  ASSUME Next
  PROVE  \/ UNCHANGED socketVars
         \/ PurgeClient
         \/ RegisterClients \/ RecvData(callbacks) \/ CloseFd \/ EpollDel
         \/ \E a \in Acceptor : Accept(a) \/ AddClientToEpoll(a)
         \/ \E c \in Conn : PeerConnect(c) \/ PeerSend(c) \/ PeerClose(c)
<1>1. CASE MainThread
  BY <1>1
     DEF MainThread, MainCrash, SetServerNotifCallbacks, StartService, StartAcceptor,
         Display, CreateActiveAClient, StopConnectionAcceptingSvc,
         StartConectionAcceptionSvc, CancelService, JoinService, ForgetService, Stop, PurgeLock,
         DeleteController, DisplayClientDb, socketVars
<1>2. CASE ServiceThread
  BY <1>2
     DEF ServiceThread, SvcThread, EpollCreate, SignalReady, EpollWait, EventsDone,
         GetClientByFd, SkipRecv, RecvAgain, RecvEnd, RemoveClient, Exit, socketVars
<1>3. ASSUME NEW a \in Acceptor, AcceptorThread(a)
      PROVE  UNCHANGED socketVars \/ Accept(a) \/ AddClientToEpoll(a)
  BY <1>3
     DEF AcceptorThread, WaitUntilReady, Woken, Listen, ClientConnected, AddToDb,
         StartPush, FinishPush, AcceptorCrash, Crash, socketVars
<1> QED BY <1>1, <1>2, <1>3 DEF Next, Peer

\* The steps that write a client.
LEMMA ClientWriters ==
  ASSUME Next
  PROVE  \/ UNCHANGED client
         \/ CreateActiveAClient \/ PurgeClient \/ RemoveClient
         \/ \E a \in Acceptor : Accept(a) \/ ClientConnected(a, callbacks) \/ AddToDb(a)
<1>1. CASE MainThread
  BY <1>1
     DEF MainThread, MainCrash, SetServerNotifCallbacks, StartService, StartAcceptor,
         Display, StopConnectionAcceptingSvc, StartConectionAcceptionSvc,
         CancelService, JoinService, ForgetService, Stop, PurgeLock, DeleteController,
         DisplayClientDb
<1>2. CASE ServiceThread
  BY <1>2
     DEF ServiceThread, SvcThread, EpollCreate, SignalReady, RegisterClients,
         EpollWait, EventsDone, GetClientByFd, SkipRecv, Receiving, RecvData, RecvAgain, RecvEnd, CloseFd,
         EpollDel, Exit
<1>3. ASSUME NEW a \in Acceptor, AcceptorThread(a)
      PROVE  UNCHANGED client \/ Accept(a) \/ ClientConnected(a, callbacks) \/ AddToDb(a)
  BY <1>3
     DEF AcceptorThread, WaitUntilReady, Woken, Listen, StartPush, FinishPush,
         AddClientToEpoll, AcceptorCrash, Crash
<1> QED BY <1>1, <1>2, <1>3 DEF Next, Peer

\* The steps that write the controller's list of clients.
LEMMA DbWriters ==
  ASSUME Next
  PROVE  \/ UNCHANGED tcp_client_db
         \/ CreateActiveAClient \/ PurgeClient
         \/ \E a \in Acceptor : AddToDb(a)
<1>1. CASE MainThread
  BY <1>1
     DEF MainThread, MainCrash, SetServerNotifCallbacks, StartService, StartAcceptor,
         Display, StopConnectionAcceptingSvc, StartConectionAcceptionSvc,
         CancelService, JoinService, ForgetService, Stop, PurgeLock, DeleteController,
         DisplayClientDb
<1>2. CASE ServiceThread
  BY <1>2 DEF ServiceThread, SvcThread
<1>3. ASSUME NEW a \in Acceptor, AcceptorThread(a)
      PROVE  UNCHANGED tcp_client_db \/ AddToDb(a)
  BY <1>3
     DEF AcceptorThread, StartPush, FinishPush, AddClientToEpoll, AcceptorCrash, Crash
<1> QED BY <1>1, <1>2, <1>3 DEF Next, Peer

\* The steps that write the service thread's list of clients.
LEMMA ListWriters ==
  ASSUME Next
  PROVE  \/ UNCHANGED svc_client_db
         \/ JoinService \/ RemoveClient
         \/ \E a \in Acceptor : FinishPush(a)
<1>1. CASE MainThread
  BY <1>1
     DEF MainThread, MainCrash, SetServerNotifCallbacks, StartService, StartAcceptor,
         Display, CreateActiveAClient, StopConnectionAcceptingSvc,
         StartConectionAcceptionSvc, CancelService, ForgetService, Stop, PurgeLock, PurgeClient,
         DeleteController, StartTcpClientServiceManagerThread, Cancel, svcVars, listVars
<1>2. CASE ServiceThread
  BY <1>2
     DEF ServiceThread, SvcThread, EpollCreate, SignalReady, RegisterClients,
         EpollWait, EventsDone, GetClientByFd, SkipRecv, Receiving, RecvData, RecvAgain, RecvEnd, CloseFd,
         EpollDel, Exit, svcVars, listVars
<1>3. ASSUME NEW a \in Acceptor, AcceptorThread(a)
      PROVE  UNCHANGED svc_client_db \/ FinishPush(a)
  BY <1>3
     DEF AcceptorThread, WaitUntilReady, Woken, Listen, Accept, ClientConnected,
         AddToDb, StartPush, BeginPush, AddClientToEpoll, AcceptorCrash, Crash,
         svcVars, listVars
<1> QED BY <1>1, <1>2, <1>3 DEF Next, Peer, svcVars, listVars

\* Only the acceptors' own steps and their start change where they are.
LEMMA AcceptorWriters ==
  ASSUME Next
  PROVE  \/ UNCHANGED accVars
         \/ StartAcceptor \/ StartConectionAcceptionSvc
         \/ \E a \in Acceptor : AcceptorThread(a)
<1>1. CASE MainThread
  BY <1>1
     DEF MainThread, MainCrash, SetServerNotifCallbacks, StartService, Display,
         CreateActiveAClient, StopConnectionAcceptingSvc, CancelService, JoinService,
         ForgetService, Stop, PurgeLock, PurgeClient, DeleteController
<1> QED BY <1>1 DEF Next, ServiceThread, Peer

-----------------------------------------------------------------------------
(* Types.                                                                  *)

\* The descriptor table keeps its type when a number is closed,
LEMMA CloseType ==
  ASSUME SocketTypeOK, NEW fd \in FD, close(fd)
  PROVE  SocketTypeOK'
  BY DEF SocketTypeOK, Free, close

\* and the epoll set when numbers are added.
LEMMA EpollAddType ==
  ASSUME SocketTypeOK, NEW fds, fds \subseteq FD, epoll_add(fds)
  PROVE  SocketTypeOK'
  BY DEF SocketTypeOK, Free, epoll_add

\* The kernel's tables have their type: a number is registered with epoll
\* only while it is open.
LEMMA SocketType ==
  ASSUME TypeInv, Next
  PROVE  SocketTypeOK'
<1>0. SocketTypeOK
  BY DEF TypeInv, TypeOK
<1>1. CASE UNCHANGED socketVars
  BY <1>0, <1>1 DEF SocketTypeOK, Free, socketVars
<1>2. CASE PurgeClient
  <2>1. PICK c : Abort(c)
    BY <1>2 DEF PurgeClient, PurgeOne
  <2>2. UNCHANGED socketVars \/ \E fd \in FD : close(fd)
    BY <2>1 DEF Abort
  <2> QED BY <1>0, <1>1, <2>2, CloseType
<1>3. CASE RegisterClients
  <2>1. {client[c].comm_fd : c \in Listed} \subseteq FD
    BY DEF TypeInv, Numbered
  <2> QED BY <1>0, <1>3, <2>1, EpollAddType DEF RegisterClients, Listed
<1>4. CASE RecvData(callbacks)
  BY <1>0, <1>4 DEF RecvData, SocketTypeOK, Free
<1>5. CASE CloseFd
  <2>1. UNCHANGED <<opened, queued, data, fin>>
        /\ fdOf' = [fdOf EXCEPT ![client[served].comm_fd] = NULL]
        /\ epoll' = epoll \ {client[served].comm_fd}
    BY <1>5 DEF CloseFd, close
  <2> QED BY <1>0, <2>1 DEF SocketTypeOK, Free
<1>6. CASE EpollDel
  BY <1>0, <1>6 DEF EpollDel, epoll_del, SocketTypeOK, Free
<1>7. ASSUME NEW a \in Acceptor, Accept(a)
      PROVE  SocketTypeOK'
  <2>1. PICK c \in queued : accept(c)
    BY <1>7 DEF Accept
  <2>2. LowestFree \in FD /\ fdOf[LowestFree] = NULL
    BY <2>1, LowestFreeIsFree DEF accept
  <2>3. c \in Conn /\ c # NULL
    BY <1>0, <2>1, ClientAssumption DEF SocketTypeOK, Client
  <2> HIDE DEF LowestFree
  <2> QED BY <1>0, <2>1, <2>2, <2>3 DEF SocketTypeOK, Free, accept
<1>8. ASSUME NEW a \in Acceptor, AddClientToEpoll(a)
      PROVE  SocketTypeOK'
  <2>1. accepted[a] \in Conn /\ client[accepted[a]].comm_fd \in FD
    BY <1>8
       DEF AddClientToEpoll, goto, TypeInv, TypeOK, AccTypeOK, Numbered, HandingOver
  <2>2. CASE epoll_add({client[accepted[a]].comm_fd})
    BY <1>0, <2>1, <2>2, EpollAddType
  <2> QED BY <1>1, <1>8, <2>2 DEF AddClientToEpoll
<1>9. ASSUME NEW c \in Conn, PeerConnect(c) \/ PeerSend(c) \/ PeerClose(c)
      PROVE  SocketTypeOK'
  BY <1>0, <1>9 DEF PeerConnect, PeerSend, PeerClose, SocketTypeOK, Free
<1> QED
  BY <1>1, <1>2, <1>3, <1>4, <1>5, <1>6, <1>7, <1>8, <1>9, SocketWriters

\* The process ends in one of the ways named.
LEMMA FaultType ==
  ASSUME TypeInv, Next
  PROVE  fault' \in Fault \cup {"none"}
<1>0. fault \in Fault \cup {"none"}
  BY DEF TypeInv, TypeOK, ClientTypeOK
<1>1. CASE MainThread
  BY <1>0, <1>1
     DEF Fault, MainThread, MainCrash, SetServerNotifCallbacks, StartService,
         StartAcceptor, Display, CreateActiveAClient, StopConnectionAcceptingSvc,
         StartConectionAcceptionSvc, CancelService, JoinService, ForgetService, Stop, PurgeLock,
         PurgeClient, PurgeOne, Abort, DeleteController, DisplayClientDb
<1>2. CASE ServiceThread
  BY <1>0, <1>2
     DEF Fault, ServiceThread, SvcThread, EpollCreate, SignalReady, RegisterClients,
         EpollWait, EventsDone, GetClientByFd, SkipRecv, Receiving, RecvData, RecvAgain, RecvEnd, CloseFd,
         EpollDel, RemoveClient, Exit
<1>3. ASSUME NEW a \in Acceptor, AcceptorThread(a)
      PROVE  fault' \in Fault \cup {"none"}
  BY <1>0, <1>3
     DEF Fault, AcceptorThread, WaitUntilReady, Woken, Listen, Accept, ClientConnected,
         AddToDb, StartPush, FinishPush, AddClientToEpoll, AcceptorCrash, Crash,
         svcVars
<1> QED BY <1>0, <1>1, <1>2, <1>3 DEF Next, Peer

\* The clients have their type.
LEMMA ClientType ==
  ASSUME TypeInv, Next
  PROVE  ClientTypeOK'
<1> USE DEF Object
<1> SUFFICES client' \in [Client -> Object]
  BY FaultType DEF ClientTypeOK
<1>0. client \in [Client -> Object]
  BY DEF TypeInv, TypeOK, ClientTypeOK
<1>1. CASE UNCHANGED client
  BY <1>0, <1>1
<1>2. CASE CreateActiveAClient
  <2>1. PICK c \in Active, fd \in FD \cup {0}, ptr \in {"NULL", "garbage"} :
          NewActive(c, fd, ptr)
    BY <1>2 DEF CreateActiveAClient
  <2> QED BY <1>0, <2>1 DEF NewActive, Unused, Flag
<1>3. CASE PurgeClient
  <2>1. client' = client \/ \E c : client' = [client EXCEPT ![c].heap = "freed"]
    BY <1>3 DEF PurgeClient, PurgeOne, Abort, delete
  <2> QED BY <1>0, <2>1
<1>4. CASE RemoveClient
  BY <1>0, <1>4 DEF RemoveClient, delete
<1>5. ASSUME NEW a \in Acceptor, Accept(a)
      PROVE  client' \in [Client -> Object]
  <2>1. PICK c \in queued : accept(c) /\ NewPassive(c, LowestFree)
    BY <1>5 DEF Accept
  <2>2. LowestFree \in FD
    BY <2>1, LowestFreeIsFree DEF accept
  <2> HIDE DEF LowestFree
  <2> QED BY <1>0, <2>1, <2>2 DEF NewPassive, Unused, Flag
<1>6. ASSUME NEW a \in Acceptor, ClientConnected(a, callbacks)
      PROVE  client' \in [Client -> Object]
  <2>1. client' = client \/ client' = [client EXCEPT ![accepted[a]].msgd = "set"]
    BY <1>6 DEF ClientConnected
  <2> QED BY <1>0, <2>1
<1>7. ASSUME NEW a \in Acceptor, AddToDb(a)
      PROVE  client' \in [Client -> Object]
  <2>1. PICK c : c = accepted[a]
    OBVIOUS
  <2>2. client' = [client EXCEPT ![c].flags = client[c].flags \cup {"MULTIPLEX_LISTEN"}]
    BY <1>7, <2>1 DEF AddToDb, SetState
  <2>3. "MULTIPLEX_LISTEN" \in Flag
    BY DEF Flag
  <2> QED BY <1>0, <2>2, <2>3
<1> QED BY <1>1, <1>2, <1>3, <1>4, <1>5, <1>6, <1>7, ClientWriters

\* The acceptors are at a place of their thread.
LEMMA AcceptorType ==
  ASSUME TypeInv, Next
  PROVE  AccTypeOK'
<1>0. AccTypeOK
  BY DEF TypeInv, TypeOK
<1>1. CASE UNCHANGED accVars
  BY <1>0, <1>1 DEF AccTypeOK, accVars
<1>2. CASE StartAcceptor \/ StartConectionAcceptionSvc
  BY <1>0, <1>2
     DEF AccTypeOK, AccPC, StartAcceptor, StartConectionAcceptionSvc,
         StartTcpConnectionAcceptorThread
<1>3. ASSUME NEW a \in Acceptor, AcceptorThread(a)
      PROVE  AccTypeOK'
  <2>1. \A c \in queued : c \in Conn
    BY DEF TypeInv, TypeOK, SocketTypeOK
  <2>2. accPc' \in [Acceptor -> AccPC]
    BY <1>0, <1>3
       DEF AccTypeOK, AccPC, AcceptorThread, WaitUntilReady, Woken, Listen, Accept,
           ClientConnected, AddToDb, StartPush, FinishPush, AddClientToEpoll,
           AcceptorCrash, Crash, goto, accVars
  <2>3. accepted' \in [Acceptor -> Conn \cup {NULL}]
    BY <1>0, <1>3, <2>1
       DEF AccTypeOK, AcceptorThread, WaitUntilReady, Woken, Listen, Accept,
           ClientConnected, AddToDb, StartPush, FinishPush, AddClientToEpoll,
           AcceptorCrash, Crash, accVars
  <2>4. told' \subseteq Conn
    <3>1. CASE ClientConnected(a, callbacks)
      <4>1. accPc[a] = "client_connected"
        BY <3>1 DEF ClientConnected, goto
      <4>2. accepted[a] \in Conn
        BY <1>0, <4>1 DEF AccTypeOK, TypeInv, Numbered, HandingOver
      <4>3. told' \subseteq told \cup {accepted[a]}
        BY <3>1 DEF ClientConnected
      <4> QED BY <1>0, <4>2, <4>3 DEF AccTypeOK
    <3> QED
      BY <1>0, <1>3, <3>1
         DEF AccTypeOK, AcceptorThread, WaitUntilReady, Woken, Listen, Accept,
             AddToDb, StartPush, FinishPush, AddClientToEpoll, AcceptorCrash, Crash,
             accVars
  <2> QED BY <2>2, <2>3, <2>4 DEF AccTypeOK
<1> QED BY <1>1, <1>2, <1>3, AcceptorWriters

\* An acceptor that hands a client over has one.
LEMMA HandedOver ==
  ASSUME TypeInv, NEW a \in Acceptor, accPc[a] \in HandingOver
  PROVE  /\ accepted[a] \in Conn /\ accepted[a] \in Client
         /\ client[accepted[a]].heap # "unused"
         /\ client[accepted[a]].comm_fd \in FD
  BY DEF TypeInv, TypeOK, AccTypeOK, Numbered, Client

\* The controller's list holds clients.
LEMMA DbType ==
  ASSUME TypeInv, Next
  PROVE  DbTypeOK'
<1>0. tcp_client_db \in Seq(Client)
  BY DEF TypeInv, TypeOK, DbTypeOK
<1>1. CASE UNCHANGED tcp_client_db
  BY <1>0, <1>1 DEF DbTypeOK
<1>2. CASE CreateActiveAClient
  <2>1. PICK c \in Active : tcp_client_db' = Append(tcp_client_db, c)
    BY <1>2 DEF CreateActiveAClient, AddClienttoDb
  <2> QED BY <1>0, <2>1, AppendedSet DEF DbTypeOK, Client
<1>3. CASE PurgeClient
  BY <1>0, <1>3, RemovedSet DEF PurgeClient, PurgeOne, DbTypeOK
<1>4. ASSUME NEW a \in Acceptor, AddToDb(a)
      PROVE  DbTypeOK'
  <2>1. accepted[a] \in Client
    BY <1>4, HandedOver DEF AddToDb, goto, HandingOver
  <2>2. tcp_client_db' = Append(tcp_client_db, accepted[a])
    BY <1>4 DEF AddToDb, AddClienttoDb
  <2> QED BY <1>0, <2>1, <2>2, AppendedSet DEF DbTypeOK
<1> QED BY <1>1, <1>2, <1>3, <1>4, DbWriters

\* The service thread's own variables have their type.
LEMMA SvcType ==
  ASSUME TypeInv, Next
  PROVE  SvcTypeOK'
<1> USE DEF readyVars, listVars, loopVars, svcVars
<1>0. SvcTypeOK
  BY DEF TypeInv, TypeOK
<1>1. CASE UNCHANGED svcVars
  BY <1>0, <1>1 DEF SvcTypeOK
<1>2. CASE MainThread
  <2>1. CASE StartService
    BY <1>0, <2>1 DEF StartService, StartTcpClientServiceManagerThread, SvcTypeOK, SvcPC
  <2>2. CASE CancelService
    BY <1>0, <2>2 DEF CancelService, Cancel, SvcTypeOK
  <2>3. CASE JoinService
    BY <1>0, <2>3 DEF JoinService, ClearAndDelete, SvcTypeOK
  <2> QED
    BY <1>1, <1>2, <2>1, <2>2, <2>3
       DEF MainThread, MainCrash, SetServerNotifCallbacks, StartAcceptor, Display,
           CreateActiveAClient, StopConnectionAcceptingSvc,
           StartConectionAcceptionSvc, ForgetService, Stop, PurgeLock, PurgeClient,
           DeleteController
<1>3. CASE ServiceThread
  <2>1. CASE EpollCreate \/ RegisterClients \/ EventsDone \/ RecvAgain \/ RecvEnd \/ CloseFd
             \/ Exit \/ SkipRecv
    BY <1>0, <2>1
       DEF EpollCreate, RegisterClients, EventsDone, RecvAgain, RecvEnd, CloseFd, Exit,
           SkipRecv, SvcTypeOK, SvcPC
  <2>7. CASE RecvData(callbacks)
    <3>1. served \in Client
      BY <2>7
         DEF RecvData, Receiving, TypeInv, TypeOK, SvcTypeOK, Numbered, Serving, Client
    <3> QED BY <1>0, <2>7, <3>1 DEF RecvData, SvcTypeOK
  <2>2. CASE SignalReady
    BY <1>0, <2>2 DEF SignalReady, SvcTypeOK, SvcPC
  <2>3. CASE EpollWait
    <3>1. events' \subseteq FD
      BY <2>3 DEF EpollWait, TypeInv, TypeOK, SocketTypeOK
    <3> QED BY <1>0, <2>3, <3>1 DEF EpollWait, SvcTypeOK, SvcPC
  <2>4. CASE GetClientByFd
    <3>1. PICK fd \in events :
            /\ events' = events \ {fd} /\ ready_fd' = fd
            /\ \/ UNCHANGED <<svcPc, served>>
               \/ /\ WithFd(fd) # {}
                  /\ served' = svc_client_db[Min(WithFd(fd))] /\ svcPc' = "recv"
      BY <2>4 DEF GetClientByFd
    <3>2. UNCHANGED <<readyVars, listVars, full, cancelled>>
      BY <2>4 DEF GetClientByFd
    <3>3. served' \in Client \cup {NULL}
      <4>1. svc_client_db \in Seq(Client)
        BY <1>0 DEF SvcTypeOK
      <4>2. CASE WithFd(fd) # {} /\ served' = svc_client_db[Min(WithFd(fd))]
        <5>1. served' \in ToSet(svc_client_db)
          BY <4>1, <4>2, FirstWithFd
        <5> QED BY <4>1, <5>1 DEF ToSet
      <4> QED BY <1>0, <3>1, <4>2 DEF SvcTypeOK
    <3> QED BY <1>0, <3>1, <3>2, <3>3 DEF SvcTypeOK, SvcPC
  <2>5. CASE EpollDel
    <3>1. ready_fd \in epoll => fdOf[ready_fd] \in Client
      BY DEF TypeInv, TypeOK, SocketTypeOK, Free, Client
    <3> QED BY <1>0, <2>5, <3>1 DEF EpollDel, SvcTypeOK, SvcPC
  <2>6. CASE RemoveClient
    BY <1>0, <2>6, RemovedSet DEF RemoveClient, SvcTypeOK, SvcPC
  <2> QED
    BY <1>3, <2>1, <2>2, <2>3, <2>4, <2>5, <2>6, <2>7 DEF ServiceThread, SvcThread
<1>4. ASSUME NEW a \in Acceptor, AcceptorThread(a)
      PROVE  SvcTypeOK'
  <2>1. CASE WaitUntilReady(a)
    BY <1>0, <2>1 DEF WaitUntilReady, SvcTypeOK
  <2>2. CASE StartPush(a)
    BY <1>0, <2>2 DEF StartPush, BeginPush, SvcTypeOK
  <2>3. CASE FinishPush(a)
    <3>1. accepted[a] \in Client
      BY <2>3, HandedOver DEF FinishPush, goto, HandingOver
    <3>2. Append(svc_client_db, accepted[a]) \in Seq(Client)
      BY <1>0, <3>1 DEF SvcTypeOK
    <3> QED BY <1>0, <2>3, <3>1, <3>2 DEF FinishPush, EndPush, SvcTypeOK
  <2> QED
    BY <1>1, <1>4, <2>1, <2>2, <2>3
       DEF AcceptorThread, Woken, Listen, Accept, ClientConnected, AddToDb,
           AddClientToEpoll, AcceptorCrash, Crash
<1> QED BY <1>1, <1>2, <1>3, <1>4 DEF Next, Peer

\* The controller's fields have their type.
LEMMA CtrlType ==
  ASSUME TypeInv, Next
  PROVE  CtrlTypeOK'
<1>0. CtrlTypeOK
  BY DEF TypeInv, TypeOK, CtrlTypeOK
<1>1. CASE MainThread
  <2> USE DEF CtrlTypeOK, ServerFlag, MainPC, Set, UnSet
  <2>1. CASE SetServerNotifCallbacks \/ StartService \/ StartAcceptor
    BY <1>0, <2>1 DEF SetServerNotifCallbacks, StartService, StartAcceptor
  <2>2. CASE StopConnectionAcceptingSvc \/ StartConectionAcceptionSvc
    BY <1>0, <2>2 DEF StopConnectionAcceptingSvc, StartConectionAcceptionSvc
  <2>3. CASE CancelService \/ JoinService \/ ForgetService
    BY <1>0, <2>3 DEF CancelService, JoinService, ForgetService
  <2>4. CASE Stop \/ PurgeLock \/ DeleteController
    BY <1>0, <2>4 DEF Stop, PurgeLock, DeleteController
  <2>5. CASE MainCrash \/ Display \/ CreateActiveAClient \/ PurgeClient
    BY <1>0, <2>5 DEF MainCrash, Display, CreateActiveAClient, PurgeClient, ctrlVars
  <2> QED BY <1>1, <2>1, <2>2, <2>3, <2>4, <2>5 DEF MainThread
<1>2. CASE UNCHANGED ctrlVars
  BY <1>0, <1>2 DEF CtrlTypeOK, ctrlVars
<1>3. ASSUME NEW a \in Acceptor, AcceptorThread(a)
      PROVE  UNCHANGED ctrlVars
  BY <1>3
     DEF AcceptorThread, AddToDb, StartPush, FinishPush, AddClientToEpoll,
         AcceptorCrash, Crash
<1> QED BY <1>1, <1>2, <1>3 DEF Next, ServiceThread, Peer

\* A client that was created once never becomes unused again.
LEMMA UsedStays ==
  ASSUME TypeInv, Next, NEW c \in Client, client[c].heap # "unused"
  PROVE  client'[c].heap # "unused"
<1> USE DEF Object
<1>0. client \in [Client -> Object]
  BY DEF TypeInv, TypeOK, ClientTypeOK
<1>1. CASE CreateActiveAClient
  BY <1>0, <1>1 DEF CreateActiveAClient, NewActive, Unused
<1>2. CASE PurgeClient
  BY <1>0, <1>2 DEF PurgeClient, PurgeOne, Abort, delete
<1>3. CASE RemoveClient
  BY <1>0, <1>3 DEF RemoveClient, delete
<1>4. ASSUME NEW a \in Acceptor, Accept(a)
      PROVE  client'[c].heap # "unused"
  BY <1>0, <1>4 DEF Accept, NewPassive, Unused
<1>5. ASSUME NEW a \in Acceptor, ClientConnected(a, callbacks)
      PROVE  client'[c].heap # "unused"
  <2>1. CASE client' = [client EXCEPT ![accepted[a]].msgd = "set"]
    BY <1>0, <2>1
  <2>2. CASE UNCHANGED client
    BY <2>2
  <2> QED BY <1>5, <2>1, <2>2 DEF ClientConnected
<1>6. ASSUME NEW a \in Acceptor, AddToDb(a)
      PROVE  client'[c].heap # "unused"
  BY <1>0, <1>6 DEF AddToDb, SetState
<1> QED BY <1>1, <1>2, <1>3, <1>4, <1>5, <1>6, ClientWriters

\* The descriptor number of a client of an accepted connection.
LEMMA NumbersStay ==
  ASSUME TypeInv, Next, NEW c \in Conn, client'[c].heap # "unused"
  PROVE  client'[c].comm_fd \in FD
<1> USE DEF Object
<1>0. /\ client \in [Client -> Object]
      /\ c \in Client
      /\ client[c].heap # "unused" => client[c].comm_fd \in FD
  BY DEF TypeInv, TypeOK, ClientTypeOK, Client, Numbered
<1>1. CASE CreateActiveAClient
  <2>1. c \notin Active
    BY ClientAssumption
  <2> QED BY <1>0, <1>1, <2>1 DEF CreateActiveAClient, NewActive
<1>2. CASE PurgeClient
  <2>1. CASE UNCHANGED client
    BY <1>0, <2>1
  <2>2. CASE client' = [client EXCEPT ![Head(tcp_client_db)].heap = "freed"]
    <3>1. client[Head(tcp_client_db)].heap # "unused"
      <4>1. tcp_client_db \in Seq(Client) /\ tcp_client_db # <<>>
        BY <1>2 DEF TypeInv, TypeOK, DbTypeOK, PurgeClient, PurgeOne
      <4>2. Head(tcp_client_db) \in ToSet(tcp_client_db)
        BY <4>1 DEF ToSet
      <4> QED BY <4>2 DEF TypeInv, Numbered
    <3> QED BY <1>0, <2>2, <3>1
  <2> QED BY <1>2, <2>1, <2>2 DEF PurgeClient, PurgeOne, Abort, delete
<1>3. CASE RemoveClient
  <2>1. client[served].heap # "unused"
    BY <1>3 DEF RemoveClient, TypeInv, Numbered, Serving
  <2>2. client' = [client EXCEPT ![served].heap = "freed"]
    BY <1>3 DEF RemoveClient, delete
  <2> QED BY <1>0, <2>1, <2>2
<1>4. ASSUME NEW a \in Acceptor, Accept(a)
      PROVE  client'[c].comm_fd \in FD
  <2>1. PICK d \in queued : accept(d) /\ NewPassive(d, LowestFree)
    BY <1>4 DEF Accept
  <2>2. LowestFree \in FD
    BY <2>1, LowestFreeIsFree DEF accept
  <2> HIDE DEF LowestFree
  <2>3. CASE c = d
    BY <1>0, <2>1, <2>2, <2>3 DEF NewPassive, Unused
  <2>4. CASE c # d
    BY <1>0, <2>1, <2>4 DEF NewPassive
  <2> QED BY <2>3, <2>4
<1>5. ASSUME NEW a \in Acceptor, ClientConnected(a, callbacks)
      PROVE  client'[c].comm_fd \in FD
  <2>1. client' = client \/ client' = [client EXCEPT ![accepted[a]].msgd = "set"]
    BY <1>5 DEF ClientConnected
  <2> QED BY <1>0, <2>1
<1>6. ASSUME NEW a \in Acceptor, AddToDb(a)
      PROVE  client'[c].comm_fd \in FD
  BY <1>0, <1>6 DEF AddToDb, SetState
<1> QED BY <1>0, <1>1, <1>2, <1>3, <1>4, <1>5, <1>6, ClientWriters

\* An acceptor has a client in its hands exactly where it hands one over.
LEMMA HandsStay ==
  ASSUME TypeInv, Next, NEW a \in Acceptor
  PROVE  /\ (accepted[a] # NULL <=> accPc[a] \in HandingOver)'
         /\ accepted'[a] # NULL => client'[accepted'[a]].heap # "unused"
<1>0. /\ accPc \in [Acceptor -> AccPC] /\ accepted \in [Acceptor -> Conn \cup {NULL}]
      /\ accepted[a] # NULL <=> accPc[a] \in HandingOver
      /\ accepted[a] # NULL => client[accepted[a]].heap # "unused"
  BY DEF TypeInv, TypeOK, AccTypeOK, Numbered
<1>1. accepted[a] # NULL => client'[accepted[a]].heap # "unused"
  BY <1>0, UsedStays DEF Client
<1>2. CASE UNCHANGED accVars
  BY <1>0, <1>1, <1>2 DEF accVars
<1>3. CASE StartAcceptor \/ StartConectionAcceptionSvc
  BY <1>0, <1>1, <1>3
     DEF StartAcceptor, StartConectionAcceptionSvc, StartTcpConnectionAcceptorThread,
         HandingOver
<1>4. ASSUME NEW b \in Acceptor, AcceptorThread(b)
      PROVE  /\ (accepted[a] # NULL <=> accPc[a] \in HandingOver)'
             /\ accepted'[a] # NULL => client'[accepted'[a]].heap # "unused"
  <2> USE DEF goto, HandingOver
  <2>1. CASE WaitUntilReady(b) \/ Woken(b) \/ Listen(b)
    BY <1>0, <1>1, <2>1 DEF WaitUntilReady, Woken, Listen
  <2>2. CASE Accept(b)
    <3>1. PICK c \in queued :
            accept(c) /\ NewPassive(c, LowestFree) /\ accepted' = [accepted EXCEPT ![b] = c]
      BY <2>2 DEF Accept
    <3>2. c \in Conn /\ c \in Client /\ c # NULL
      BY ClientAssumption DEF TypeInv, TypeOK, SocketTypeOK, Client
    <3>3. client'[c].heap # "unused"
      <4>1. c \in DOMAIN client
        BY <3>2 DEF TypeInv, TypeOK, ClientTypeOK
      <4> QED BY <3>1, <4>1 DEF NewPassive, Unused
    <3>4. CASE a = b
      BY <1>0, <2>2, <3>1, <3>2, <3>3, <3>4 DEF Accept
    <3>5. CASE a # b
      BY <1>0, <1>1, <2>2, <3>1, <3>5 DEF Accept
    <3> QED BY <3>4, <3>5
  <2>3. CASE ClientConnected(b, callbacks)
    BY <1>0, <1>1, <2>3 DEF ClientConnected
  <2>4. CASE AddToDb(b) \/ StartPush(b) \/ FinishPush(b)
    BY <1>0, <1>1, <2>4 DEF AddToDb, StartPush, FinishPush
  <2>5. CASE AddClientToEpoll(b)
    BY <1>0, <1>1, <2>5 DEF AddClientToEpoll
  <2>6. CASE AcceptorCrash(b)
    BY <1>0, <1>1, <2>6 DEF AcceptorCrash, Crash, accVars
  <2> QED BY <1>4, <2>1, <2>2, <2>3, <2>4, <2>5, <2>6 DEF AcceptorThread
<1> QED BY <1>2, <1>3, <1>4, AcceptorWriters

\* The controller's list holds clients that were created.
LEMMA DbStays ==
  ASSUME TypeInv, Next, NEW c \in ToSet(tcp_client_db')
  PROVE  client'[c].heap # "unused"
<1> USE DEF Object
<1>0. tcp_client_db \in Seq(Client) /\ client \in [Client -> Object]
  BY DEF TypeInv, TypeOK, DbTypeOK, ClientTypeOK
<1>1. CASE c \in ToSet(tcp_client_db)
  <2>1. c \in Client
    BY <1>0, <1>1 DEF ToSet
  <2> QED BY <1>1, <2>1, UsedStays DEF TypeInv, Numbered
<1>2. CASE UNCHANGED tcp_client_db
  BY <1>1, <1>2
<1>3. CASE CreateActiveAClient
  <2>1. PICK d \in Active, fd \in FD \cup {0}, ptr \in {"NULL", "garbage"} :
          NewActive(d, fd, ptr) /\ tcp_client_db' = Append(tcp_client_db, d)
    BY <1>3 DEF CreateActiveAClient, AddClienttoDb
  <2>2. c \in ToSet(tcp_client_db) \cup {d}
    BY <1>0, <2>1, AppendedSet DEF Client
  <2>3. client'[d].heap # "unused"
    BY <1>0, <2>1 DEF NewActive, Unused, Client
  <2> QED BY <1>1, <2>2, <2>3
<1>4. CASE PurgeClient
  BY <1>0, <1>1, <1>4, RemovedSet DEF PurgeClient, PurgeOne
<1>5. ASSUME NEW a \in Acceptor, AddToDb(a)
      PROVE  client'[c].heap # "unused"
  <2>1. accepted[a] \in Client /\ client[accepted[a]].heap # "unused"
    BY <1>5, HandedOver DEF AddToDb, goto, HandingOver
  <2>2. tcp_client_db' = Append(tcp_client_db, accepted[a])
    BY <1>5 DEF AddToDb, AddClienttoDb
  <2>3. c \in ToSet(tcp_client_db) \cup {accepted[a]}
    BY <1>0, <2>1, <2>2, AppendedSet
  <2> QED BY <1>1, <2>1, <2>3, UsedStays
<1> QED BY <1>2, <1>3, <1>4, <1>5, DbWriters

\* What a step does to the service thread's list.
LEMMA ListChanges ==
  ASSUME TypeInv, Next
  PROVE  \/ Listed' = Listed
         \/ JoinService /\ Listed' = {}
         \/ RemoveClient /\ Listed' = Listed \ {served}
         \/ \E a \in Acceptor :
               /\ FinishPush(a) /\ accepted[a] \in Conn
               /\ Listed' = Listed \cup {accepted[a]}
<1>0. svc_client_db \in Seq(Client)
  BY DEF TypeInv, TypeOK, SvcTypeOK
<1>1. CASE UNCHANGED svc_client_db
  BY <1>1 DEF Listed
<1>2. CASE JoinService
  BY <1>2 DEF JoinService, ClearAndDelete, Listed, ToSet
<1>3. CASE RemoveClient
  BY <1>0, <1>3, RemovedSet DEF RemoveClient, Listed
<1>4. ASSUME NEW a \in Acceptor, FinishPush(a)
      PROVE  accepted[a] \in Conn /\ (Listed' = Listed \/ Listed' = Listed \cup {accepted[a]})
  <2>1. accepted[a] \in Conn /\ accepted[a] \in Client
    BY <1>4, HandedOver DEF FinishPush, goto, HandingOver
  <2>2. CASE svc_client_db' = Append(svc_client_db, accepted[a])
    BY <1>0, <2>1, <2>2, AppendedSet DEF Listed
  <2>3. CASE UNCHANGED svc_client_db
    BY <2>1, <2>3 DEF Listed
  <2> QED BY <1>4, <2>1, <2>2, <2>3 DEF FinishPush, EndPush
<1> QED BY <1>1, <1>2, <1>3, <1>4, ListWriters

\* The service thread's list holds clients of accepted connections.
LEMMA ListStays ==
  ASSUME TypeInv, Next, NEW c \in Listed'
  PROVE  c \in Conn /\ client'[c].heap # "unused"
<1>1. CASE c \in Listed
  BY <1>1, UsedStays DEF TypeInv, Numbered, Client
<1>2. ASSUME NEW a \in Acceptor, FinishPush(a), c = accepted[a]
      PROVE  c \in Conn /\ client'[c].heap # "unused"
  BY <1>2, HandedOver, UsedStays DEF FinishPush, goto, HandingOver
<1> QED BY <1>1, <1>2, ListChanges

\* Only the service thread and the start change where it is, and a thread
\* that has ended takes no step.
LEMMA SvcPlace ==
  ASSUME Next
  PROVE  \/ UNCHANGED <<svcPc, served>>
         \/ StartService
         \/ ServiceThread /\ svcPc # "exited"
<1>1. CASE MainThread
  BY <1>1
     DEF MainThread, MainCrash, SetServerNotifCallbacks, StartAcceptor, Display,
         CreateActiveAClient, StopConnectionAcceptingSvc, StartConectionAcceptionSvc,
         CancelService, JoinService, ForgetService, Stop, PurgeLock, PurgeClient,
         DeleteController, Cancel, ClearAndDelete, svcVars, loopVars
<1>2. CASE ServiceThread
  BY <1>2
     DEF ServiceThread, SvcThread, EpollCreate, SignalReady, RegisterClients,
         EpollWait, EventsDone, GetClientByFd, SkipRecv, Receiving, RecvData, RecvAgain, RecvEnd, CloseFd,
         EpollDel, RemoveClient, Exit
<1>3. ASSUME NEW a \in Acceptor, AcceptorThread(a)
      PROVE  UNCHANGED <<svcPc, served>>
  BY <1>3
     DEF AcceptorThread, WaitUntilReady, Woken, Listen, Accept, ClientConnected,
         AddToDb, StartPush, BeginPush, FinishPush, EndPush, AddClientToEpoll,
         AcceptorCrash, Crash, svcVars, loopVars
<1> QED BY <1>1, <1>2, <1>3 DEF Next, Peer, svcVars, loopVars

\* The client the service thread works on is in its list.
LEMMA ServedStays ==
  ASSUME TypeInv, Next, svcPc' \in Serving
  PROVE  served' \in Listed'
<1> USE DEF Serving
<1>0. svcPc \in Serving => served \in Listed
  BY DEF TypeInv, Numbered
<1>1. CASE UNCHANGED <<svcPc, served>>
  <2>1. ~JoinService /\ ~RemoveClient
    BY <1>1 DEF JoinService, RemoveClient
  <2> QED BY <1>0, <1>1, <2>1, ListChanges
<1>2. CASE StartService
  BY <1>2 DEF StartService, StartTcpClientServiceManagerThread
<1>3. CASE ServiceThread
  <2>1. CASE GetClientByFd
    <3>1. svc_client_db \in Seq(Client) /\ UNCHANGED svc_client_db
      BY <2>1 DEF TypeInv, TypeOK, SvcTypeOK, GetClientByFd, listVars
    <3>2. PICK fd \in events :
            WithFd(fd) # {} /\ served' = svc_client_db[Min(WithFd(fd))]
      BY <2>1 DEF GetClientByFd
    <3> QED BY <3>1, <3>2, FirstWithFd DEF Listed
  <2>2. CASE RecvData(callbacks) \/ RecvEnd \/ CloseFd \/ EpollDel
    BY <1>0, <2>2
       DEF RecvData, Receiving, RecvEnd, CloseFd, EpollDel, svcVars, listVars, loopVars,
           Listed
  <2> QED
    BY <1>3, <2>1, <2>2
       DEF ServiceThread, SvcThread, EpollCreate, SignalReady, RegisterClients,
           EpollWait, EventsDone, SkipRecv, RecvAgain, RemoveClient, Exit
<1> QED BY <1>1, <1>2, <1>3, SvcPlace

\* TypeInv holds initially,
LEMMA TypeInit ==
  ASSUME Init
  PROVE  TypeInv
<1> USE DEF Init, SocketInit, ClientInit, DbInit, SvcInit, AccInit
<1>1. SocketTypeOK
  BY DEF SocketTypeOK, Free
<1>2. ClientTypeOK
  BY DEF ClientTypeOK, Object, Unused, Flag
<1>3. <<>> \in Seq(Client)
  BY EmptyInSeq
<1>6. DbTypeOK /\ SvcTypeOK
  BY <1>3 DEF DbTypeOK, SvcTypeOK, SvcPC
<1>4. AccTypeOK
  BY DEF AccTypeOK, AccPC
<1>5. Numbered
  <2>1. ToSet(<<>>) = {}
    BY DEF ToSet
  <2>2. \A c \in Conn : client[c].heap = "unused"
    BY DEF Client, Unused
  <2> QED BY <2>1, <2>2 DEF Numbered, Listed, HandingOver, Serving
<1> QED
  BY <1>1, <1>2, <1>4, <1>5, <1>6, FirstAcceptorAssumption
     DEF TypeInv, TypeOK, ServerFlag, MainPC

\* and every step preserves it.
LEMMA TypeStep ==
  ASSUME TypeInv, [Next]_vars
  PROVE  TypeInv'
<1>1. CASE Next
  <2>1. TypeOK'
    BY <1>1, SocketType, ClientType, DbType, SvcType, AcceptorType, CtrlType
       DEF TypeOK, CtrlTypeOK
  <2>2. Numbered'
    BY <1>1, NumbersStay, HandsStay, DbStays, ListStays, ServedStays DEF Numbered
  <2> QED BY <2>1, <2>2 DEF TypeInv
<1>2. CASE UNCHANGED vars
  BY <1>2
     DEF vars, socketVars, svcVars, readyVars, listVars, loopVars, accVars, ctrlVars,
         TypeInv, TypeOK, SocketTypeOK, Free, ClientTypeOK, DbTypeOK, SvcTypeOK,
         AccTypeOK, Numbered, Listed
<1> QED BY <1>1, <1>2

-----------------------------------------------------------------------------
(* The main thread, its flags and its pointers.                            *)

\* Every step preserves Control.
LEMMA ControlStep ==
  ASSUME TypeOK, Control, [Next]_vars
  PROVE  Control'
<1> USE DEF Control, Purging
<1>0. tcp_client_svc_mgr \in {"live", "deleted", "NULL"}
  BY DEF TypeOK
<1>1. CASE MainThread
  <2>1. CASE MainCrash
    BY <2>1 DEF MainCrash, svcVars, ctrlVars
  <2>2. CASE SetServerNotifCallbacks
    BY <2>2 DEF SetServerNotifCallbacks, svcVars
  <2>3. CASE StartService
    BY <2>3 DEF StartService, StartTcpClientServiceManagerThread
  <2>4. CASE StartAcceptor
    BY <2>4 DEF StartAcceptor, Set, svcVars
  <2>5. CASE Display \/ CreateActiveAClient
    <3>1. fault' \in {fault, "Display of a deleted client"}
      BY <2>5 DEF Display, DisplayClientDb, CreateActiveAClient
    <3>2. UNCHANGED <<svcPc, ctrlVars>>
      BY <2>5 DEF Display, CreateActiveAClient, svcVars
    <3> QED BY <3>1, <3>2 DEF ctrlVars
  <2>6. CASE StopConnectionAcceptingSvc
    BY <2>6 DEF StopConnectionAcceptingSvc, Calls, Set, svcVars
  <2>7. CASE StartConectionAcceptionSvc
    <3>1. tcp_new_conn_acc' # NULL
      BY <2>7, AcceptorAssumption DEF StartConectionAcceptionSvc
    <3> QED BY <2>7, <3>1 DEF StartConectionAcceptionSvc, Calls, UnSet, svcVars
  <2>8. CASE CancelService
    <3>1. tcp_client_svc_mgr = "live"
      BY <1>0, <2>8 DEF CancelService, Calls
    <3> QED BY <2>8, <3>1 DEF CancelService, Cancel
  <2>9. CASE JoinService
    BY <2>9 DEF JoinService, ClearAndDelete
  <2>10. CASE ForgetService
    BY <2>10 DEF ForgetService, Set, svcVars
  <2>11. CASE Stop
    <3>1. tcp_client_svc_mgr \in {"live", "NULL"}
      BY <1>0, <2>11 DEF Stop, Calls
    <3>2. /\ tcp_new_conn_acc' = NULL
          /\ state_flags' = state_flags \cup {"NOT_ACCEPTING_NEW_CONNECTIONS"}
      <4>1. CASE tcp_new_conn_acc # NULL
        BY <2>11, <4>1 DEF Stop, Set
      <4>2. CASE tcp_new_conn_acc = NULL
        BY <2>11, <4>2 DEF Stop
      <4> QED BY <4>1, <4>2
    <3> QED BY <2>11, <3>1, <3>2 DEF Stop, Calls, svcVars
  <2>12. CASE PurgeLock
    BY <2>12 DEF PurgeLock, svcVars
  <2>14. CASE PurgeClient
    BY <2>14 DEF PurgeClient, PurgeOne, Abort, svcVars
  <2>13. CASE DeleteController
    BY <2>13 DEF DeleteController, UnSet, svcVars
  <2> QED
    BY <1>1, <2>1, <2>2, <2>3, <2>4, <2>5, <2>6, <2>7, <2>8, <2>9, <2>10, <2>11, <2>12,
       <2>13, <2>14 DEF MainThread
<1>2. CASE ServiceThread
  <2>1. svcPc # "exited" /\ fault' \in {fault, "client_msg_recvd is not set"}
    BY <1>2
       DEF ServiceThread, SvcThread, EpollCreate, SignalReady, RegisterClients,
           EpollWait, EventsDone, GetClientByFd, SkipRecv, Receiving, RecvData, RecvAgain, RecvEnd, CloseFd,
           EpollDel, RemoveClient, Exit
  <2>2. UNCHANGED ctrlVars
    BY <1>2 DEF ServiceThread
  <2> QED BY <2>1, <2>2 DEF ctrlVars
<1>3. ASSUME NEW a \in Acceptor, AcceptorThread(a)
      PROVE  Control'
  <2>1. UNCHANGED <<svcPc, ctrlVars>>
    BY <1>3
       DEF AcceptorThread, WaitUntilReady, Woken, Listen, Accept, ClientConnected,
           AddToDb, StartPush, BeginPush, FinishPush, EndPush, AddClientToEpoll,
           AcceptorCrash, Crash, svcVars
  <2>2. fault' # "assertion in ~TcpServerController"
    BY <1>3
       DEF AcceptorThread, WaitUntilReady, Woken, Listen, Accept, ClientConnected,
           AddToDb, StartPush, FinishPush, AddClientToEpoll, AcceptorCrash, Crash
  <2> QED BY <2>1, <2>2 DEF ctrlVars
<1>4. ASSUME NEW c \in Conn, Peer(c)
      PROVE  Control'
  BY <1>4 DEF Peer, svcVars, ctrlVars
<1>5. CASE UNCHANGED vars
  BY <1>5 DEF vars, svcVars, ctrlVars
<1> QED BY <1>1, <1>2, <1>3, <1>4, <1>5 DEF Next

-----------------------------------------------------------------------------
(* The ready signal.                                                       *)

\* Every step preserves Handshake.
LEMMA HandshakeStep ==
  ASSUME TypeInv, Handshake, [Next]_vars
  PROVE  Handshake'
<1> USE DEF Handshake
<1>0. accPc \in [Acceptor -> AccPC] /\ svcPc \in SvcPC
  BY DEF TypeInv, TypeOK, AccTypeOK, SvcTypeOK
<1>1. CASE MainThread
  <2>1. UNCHANGED readyVars /\ (svcPc' = svcPc \/ svcPc' = "epoll_create")
    BY <1>1
       DEF MainThread, MainCrash, SetServerNotifCallbacks, StartService, StartAcceptor,
           Display, CreateActiveAClient, StopConnectionAcceptingSvc,
           StartConectionAcceptionSvc, CancelService, JoinService, ForgetService, Stop, PurgeLock,
           PurgeClient, DeleteController, StartTcpClientServiceManagerThread, Cancel,
           ClearAndDelete, svcVars
  <2>2. queued' = queued
    <3>1. CASE PurgeClient
      BY <3>1 DEF PurgeClient, PurgeOne, Abort, close, socketVars
    <3> QED
      BY <1>1, <3>1
         DEF MainThread, MainCrash, SetServerNotifCallbacks, StartService,
             StartAcceptor, Display, DisplayClientDb, CreateActiveAClient,
             StopConnectionAcceptingSvc, StartConectionAcceptionSvc, CancelService,
             JoinService, ForgetService, Stop, PurgeLock, DeleteController, socketVars
  <2>3. ASSUME NEW a \in Acceptor
        PROVE  accPc'[a] \in {accPc[a], "WaitUntilReady"}
    <3>1. CASE StartAcceptor \/ StartConectionAcceptionSvc
      BY <1>0, <3>1
         DEF StartAcceptor, StartConectionAcceptionSvc, StartTcpConnectionAcceptorThread
    <3> QED
      BY <1>1, <3>1
         DEF MainThread, MainCrash, SetServerNotifCallbacks, StartService, Display,
             CreateActiveAClient, StopConnectionAcceptingSvc, CancelService,
             JoinService, ForgetService, Stop, PurgeLock, PurgeClient, DeleteController, accVars
  <2> QED BY <2>1, <2>2, <2>3 DEF readyVars, HandingOver
<1>2. CASE ServiceThread
  <2>1. /\ epfd' = TRUE \/ epfd' = epfd
        /\ svcPc' \notin {"none", "epoll_create", "exited"} => epfd'
        /\ is_ready' => epfd'
        /\ is_ready => is_ready'
    BY <1>2
       DEF ServiceThread, SvcThread, EpollCreate, SignalReady, RegisterClients,
           EpollWait, EventsDone, GetClientByFd, SkipRecv, Receiving, RecvData, RecvAgain, RecvEnd, CloseFd,
           EpollDel, RemoveClient, Exit, svcVars, readyVars
  <2>2. UNCHANGED <<queued, accPc>>
    BY <1>2
       DEF ServiceThread, SvcThread, EpollCreate, SignalReady, RegisterClients,
           EpollWait, EventsDone, GetClientByFd, SkipRecv, Receiving, RecvData, RecvAgain, RecvEnd, CloseFd,
           EpollDel, RemoveClient, Exit, epoll_add, epoll_del, close, socketVars,
           accVars
  <2> QED BY <2>1, <2>2
<1>3. ASSUME NEW a \in Acceptor, AcceptorThread(a)
      PROVE  Handshake'
  <2>1. UNCHANGED <<svcPc, epfd, is_ready>>
    BY <1>3
       DEF AcceptorThread, WaitUntilReady, Woken, Listen, Accept, ClientConnected,
           AddToDb, StartPush, BeginPush, FinishPush, EndPush, AddClientToEpoll,
           AcceptorCrash, Crash, svcVars, readyVars
  <2>2. queued' \subseteq queued
    BY <1>3
       DEF AcceptorThread, WaitUntilReady, Woken, Listen, Accept, accept,
           ClientConnected, AddToDb, StartPush, FinishPush, AddClientToEpoll, epoll_add,
           AcceptorCrash, Crash, socketVars
  <2>3. ASSUME NEW b \in Acceptor, accPc'[b] \in {"listen", "accept"} \cup HandingOver
        PROVE  is_ready
    <3>1. accPc'[b] = accPc[b] \/ accPc[b] \in {"listen", "accept"} \cup HandingOver
          \/ is_ready
      BY <1>0, <1>3, <2>3
         DEF AcceptorThread, WaitUntilReady, Woken, Listen, Accept, ClientConnected,
             AddToDb, StartPush, FinishPush, AddClientToEpoll, AcceptorCrash, Crash,
             goto, accVars, HandingOver
    <3> QED BY <2>3, <3>1
  <2> QED BY <2>1, <2>2, <2>3
<1>4. ASSUME NEW c \in Conn, Peer(c)
      PROVE  Handshake'
  <2>1. Listening => is_ready
    BY <1>0 DEF Listening, Running, AccPC, HandingOver
  <2>2. queued' = queued \/ Listening
    BY <1>4 DEF Peer, PeerSend, PeerClose
  <2> QED BY <1>4, <2>1, <2>2 DEF Peer, svcVars, readyVars, accVars
<1>5. CASE UNCHANGED vars
  BY <1>5 DEF vars, socketVars, svcVars, readyVars, accVars
<1> QED BY <1>1, <1>2, <1>3, <1>4, <1>5 DEF Next

-----------------------------------------------------------------------------
(* Descriptors and clients.                                                *)

\* The acceptor takes a connection from the backlog, with a free descriptor.
Accepts(a, c, fd) ==
    /\ Accept(a) /\ c \in Conn
    /\ queued' = queued \ {c} /\ opened' = opened
    /\ fdOf[fd] = NULL /\ fdOf' = [fdOf EXCEPT ![fd] = c]
    /\ client' = [client EXCEPT ![c] = [Unused EXCEPT !.heap = "live", !.comm_fd = fd,
                                       !.flags = {"PASSIVE_OPENER", "CONNECTED"}]]
    /\ accepted' = [accepted EXCEPT ![a] = c]

\* accept does so.
LEMMA AcceptTakes ==
  ASSUME TypeInv, NEW a \in Acceptor, Accept(a)
  PROVE  \E c \in queued, fd \in FD : Accepts(a, c, fd)
<1>1. PICK c \in queued :
        accept(c) /\ NewPassive(c, LowestFree) /\ accepted' = [accepted EXCEPT ![a] = c]
  BY DEF Accept
<1>2. PICK fd \in FD : fd = LowestFree /\ fdOf[fd] = NULL
  BY <1>1, LowestFreeIsFree DEF accept
<1>3. c \in Conn
  BY DEF TypeInv, TypeOK, SocketTypeOK
<1>4. /\ queued' = queued \ {c} /\ opened' = opened
      /\ fdOf' = [fdOf EXCEPT ![fd] = c]
  BY <1>1, <1>2 DEF accept
<1>5. client' = [client EXCEPT ![c] = [Unused EXCEPT !.heap = "live",
                    !.comm_fd = fd, !.flags = {"PASSIVE_OPENER", "CONNECTED"}]]
  BY <1>1, <1>2 DEF NewPassive
<1> QED BY <1>1, <1>2, <1>3, <1>4, <1>5 DEF Accepts

\* What a step does to the descriptor table.
LEMMA DescriptorChanges ==
  ASSUME TypeInv, Next
  PROVE  \/ UNCHANGED fdOf
         \/ PurgeClient /\ \E fd \in FD : fdOf' = [fdOf EXCEPT ![fd] = NULL]
         \/ CloseFd /\ fdOf' = [fdOf EXCEPT ![client[served].comm_fd] = NULL]
         \/ \E a \in Acceptor, c \in queued, fd \in FD : Accepts(a, c, fd)
<1>1. CASE PurgeClient
  BY <1>1 DEF PurgeClient, PurgeOne, Abort, close, socketVars
<1>2. CASE CloseFd
  BY <1>2 DEF CloseFd, close
<1>3. ASSUME NEW a \in Acceptor, Accept(a)
      PROVE  \E c \in queued, fd \in FD : Accepts(a, c, fd)
  BY <1>3, AcceptTakes
<1>4. CASE RegisterClients \/ RecvData(callbacks) \/ EpollDel
  BY <1>4 DEF RegisterClients, epoll_add, RecvData, EpollDel, epoll_del
<1>5. ASSUME NEW a \in Acceptor, AddClientToEpoll(a)
      PROVE  UNCHANGED fdOf
  BY <1>5 DEF AddClientToEpoll, epoll_add, socketVars
<1>6. ASSUME NEW c \in Conn, PeerConnect(c) \/ PeerSend(c) \/ PeerClose(c)
      PROVE  UNCHANGED fdOf
  BY <1>6 DEF PeerConnect, PeerSend, PeerClose
<1> QED BY <1>1, <1>2, <1>3, <1>4, <1>5, <1>6, SocketWriters DEF socketVars

\* What a step does to a client: it is created, deleted by the one who has it,
\* or keeps its descriptor number and its place in the heap.
LEMMA ClientChanges ==
  ASSUME TypeInv, Next, NEW c \in Client
  PROVE  \/ client'[c].heap = client[c].heap /\ client'[c].comm_fd = client[c].comm_fd
         \/ client[c].heap = "unused" /\ c \in Active
         \/ c \in queued /\ c \notin queued' /\ c \in opened
         \/ PurgeClient /\ client[c].heap # "unused"
         \/ RemoveClient /\ c = served /\ client[c].heap # "unused"
<1> USE DEF Object
<1>0. client \in [Client -> Object]
  BY DEF TypeInv, TypeOK, ClientTypeOK
<1>1. CASE CreateActiveAClient
  BY <1>0, <1>1 DEF CreateActiveAClient, NewActive
<1>2. CASE PurgeClient
  <2>1. tcp_client_db \in Seq(Client) /\ tcp_client_db # <<>>
    BY <1>2 DEF TypeInv, TypeOK, DbTypeOK, PurgeClient, PurgeOne
  <2>2. client[Head(tcp_client_db)].heap # "unused"
    BY <2>1 DEF TypeInv, Numbered, ToSet
  <2>3. client' = client \/ client' = [client EXCEPT ![Head(tcp_client_db)].heap = "freed"]
    BY <1>2 DEF PurgeClient, PurgeOne, Abort, delete
  <2> QED BY <1>0, <1>2, <2>2, <2>3
<1>3. CASE RemoveClient
  <2>1. client[served].heap # "unused"
    BY <1>3 DEF RemoveClient, TypeInv, Numbered, Serving
  <2>2. client' = [client EXCEPT ![served].heap = "freed"]
    BY <1>3 DEF RemoveClient, delete
  <2> QED BY <1>0, <1>3, <2>1, <2>2
<1>4. ASSUME NEW a \in Acceptor, Accept(a)
      PROVE  \/ client'[c].heap = client[c].heap /\ client'[c].comm_fd = client[c].comm_fd
             \/ c \in queued /\ c \notin queued' /\ c \in opened
  <2>1. PICK d \in queued : accept(d) /\ NewPassive(d, LowestFree)
    BY <1>4 DEF Accept
  <2>2. d \in opened
    BY DEF TypeInv, TypeOK, SocketTypeOK
  <2>3. CASE c = d
    BY <2>1, <2>2, <2>3 DEF accept
  <2>4. CASE c # d
    BY <1>0, <2>1, <2>4 DEF NewPassive
  <2> QED BY <2>3, <2>4
<1>5. ASSUME NEW a \in Acceptor, ClientConnected(a, callbacks)
      PROVE  client'[c].heap = client[c].heap /\ client'[c].comm_fd = client[c].comm_fd
  <2>1. client' = client \/ client' = [client EXCEPT ![accepted[a]].msgd = "set"]
    BY <1>5 DEF ClientConnected
  <2> QED BY <1>0, <2>1
<1>6. ASSUME NEW a \in Acceptor, AddToDb(a)
      PROVE  client'[c].heap = client[c].heap /\ client'[c].comm_fd = client[c].comm_fd
  BY <1>0, <1>6 DEF AddToDb, SetState
<1> QED BY <1>1, <1>2, <1>3, <1>4, <1>5, <1>6, ClientWriters

\* Connections come to the backlog when they are opened.
LEMMA QueueChanges ==
  ASSUME TypeInv, Next
  PROVE  /\ opened \subseteq opened'
         /\ queued' \subseteq queued \cup (Conn \ opened)
<1>1. CASE UNCHANGED <<opened, queued>>
  BY <1>1
<1>2. CASE PurgeClient
  BY <1>2 DEF PurgeClient, PurgeOne, Abort, close, socketVars
<1>3. CASE RegisterClients \/ RecvData(callbacks) \/ CloseFd \/ EpollDel
  BY <1>3 DEF RegisterClients, epoll_add, RecvData, CloseFd, close, EpollDel, epoll_del
<1>4. ASSUME NEW a \in Acceptor, Accept(a) \/ AddClientToEpoll(a)
      PROVE  opened' = opened /\ queued' \subseteq queued
  BY <1>4 DEF Accept, accept, AddClientToEpoll, epoll_add, socketVars
<1>5. ASSUME NEW c \in Conn, PeerConnect(c) \/ PeerSend(c) \/ PeerClose(c)
      PROVE  opened \subseteq opened' /\ queued' \subseteq queued \cup (Conn \ opened)
  BY <1>5 DEF PeerConnect, PeerSend, PeerClose
<1> QED BY <1>1, <1>2, <1>3, <1>4, <1>5, SocketWriters DEF socketVars

\* Every step preserves Fresh.
LEMMA FreshStep ==
  ASSUME TypeInv, Fresh, Next
  PROVE  Fresh'
<1> SUFFICES ASSUME NEW c \in queued' \cup (Conn \ opened')
             PROVE  client'[c].heap = "unused" /\ \A fd \in FD : fdOf'[fd] # c
  BY DEF Fresh
<1>1. c \in queued \cup (Conn \ opened) /\ c \in Conn /\ c \in Client
      /\ c \notin Active /\ c # NULL
  BY QueueChanges, ClientAssumption DEF TypeInv, TypeOK, SocketTypeOK, Client
<1>2. client[c].heap = "unused" /\ \A fd \in FD : fdOf[fd] # c
  BY <1>1 DEF Fresh
<1>3. ~(c \in queued /\ c \notin queued' /\ c \in opened)
  BY QueueChanges
<1>4. client'[c].heap = "unused"
  BY <1>1, <1>2, <1>3, ClientChanges
<1>5. ASSUME NEW fd \in FD
      PROVE  fdOf'[fd] # c
  <2>1. fdOf \in [FD -> Conn \cup {NULL}]
    BY DEF TypeInv, TypeOK, SocketTypeOK
  <2>2. CASE \E f : fdOf' = [fdOf EXCEPT ![f] = NULL]
    BY <1>1, <1>2, <2>1, <2>2
  <2>3. ASSUME NEW d \in queued, queued' = queued \ {d}, opened' = opened, NEW f \in FD,
               fdOf' = [fdOf EXCEPT ![f] = d]
        PROVE  fdOf'[fd] # c
    <3>1. c # d
      BY <2>3 DEF TypeInv, TypeOK, SocketTypeOK
    <3> QED BY <1>2, <2>1, <2>3, <3>1
  <2> QED BY <1>2, <2>2, <2>3, DescriptorChanges DEF Accepts
<1> QED BY <1>4, <1>5

\* Every step preserves OneDescriptor.
LEMMA OneDescriptorStep ==
  ASSUME TypeInv, Fresh, OneDescriptor, Next
  PROVE  OneDescriptor'
<1>1. fdOf \in [FD -> Conn \cup {NULL}]
  BY DEF TypeInv, TypeOK, SocketTypeOK
<1>2. CASE \E f : fdOf' = [fdOf EXCEPT ![f] = NULL]
  BY <1>1, <1>2 DEF OneDescriptor
<1>3. ASSUME NEW d \in queued, NEW f \in FD, fdOf' = [fdOf EXCEPT ![f] = d]
      PROVE  OneDescriptor'
  <2>1. \A fd \in FD : fdOf[fd] # d
    BY DEF Fresh
  <2> QED BY <1>1, <1>3, <2>1 DEF OneDescriptor
<1>4. CASE UNCHANGED fdOf
  BY <1>4 DEF OneDescriptor
<1> QED BY <1>2, <1>3, <1>4, DescriptorChanges DEF Accepts

\* Every step preserves OneHand.
LEMMA OneHandStep ==
  ASSUME TypeInv, Fresh, OneHand, Next
  PROVE  OneHand'
<1> SUFFICES ASSUME NEW a \in Acceptor, NEW b \in Acceptor,
                    accepted'[a] # NULL, accepted'[a] = accepted'[b], a # b
             PROVE  FALSE
  BY DEF OneHand
<1>1. ASSUME NEW e \in Acceptor, accPc[e] \in HandingOver
      PROVE  accepted[e] \notin queued /\ accepted[e] # NULL
  <2>1. client[accepted[e]].heap # "unused" /\ accepted[e] \in Conn
    BY <1>1, HandedOver
  <2> QED BY <2>1, ClientAssumption DEF Fresh, Client
<1>2. CASE accepted'[a] = accepted[a] /\ accepted'[b] = accepted[b]
  BY <1>2 DEF OneHand
<1>3. CASE UNCHANGED accepted
  BY <1>2, <1>3
<1>4. ASSUME NEW e \in Acceptor, NEW c \in queued, accepted' = [accepted EXCEPT ![e] = c]
      PROVE  FALSE
  <2>1. accepted \in [Acceptor -> Conn \cup {NULL}]
    BY DEF TypeInv, TypeOK, AccTypeOK
  <2>2. \A f \in Acceptor : accepted[f] # NULL => accepted[f] \notin queued
    BY <1>1 DEF TypeInv, Numbered
  <2>3. c # NULL
    BY ClientAssumption DEF TypeInv, TypeOK, SocketTypeOK, Client
  <2>4. CASE e = a \/ e = b
    BY <1>4, <2>1, <2>2, <2>3, <2>4
  <2>5. CASE e # a /\ e # b
    BY <1>2, <1>4, <2>1, <2>5
  <2> QED BY <2>4, <2>5
<1>5. ASSUME NEW e \in Acceptor, accepted' = [accepted EXCEPT ![e] = NULL]
      PROVE  FALSE
  <2>1. accepted \in [Acceptor -> Conn \cup {NULL}]
    BY DEF TypeInv, TypeOK, AccTypeOK
  <2>2. e # a /\ e # b
    BY <1>5, <2>1
  <2> QED BY <1>2, <1>5, <2>1, <2>2
<1>6. ASSUME NEW e \in Acceptor, AcceptorThread(e)
      PROVE  FALSE
  <2>1. \/ UNCHANGED accepted \/ accepted' = [accepted EXCEPT ![e] = NULL]
        \/ \E c \in queued : accepted' = [accepted EXCEPT ![e] = c]
    BY <1>6
       DEF AcceptorThread, WaitUntilReady, Woken, Listen, Accept, ClientConnected,
           AddToDb, StartPush, FinishPush, AddClientToEpoll, AcceptorCrash, Crash,
           accVars
  <2> QED BY <1>3, <1>4, <1>5, <2>1
<1> QED
  BY <1>3, <1>6, AcceptorWriters
     DEF accVars, StartAcceptor, StartConectionAcceptionSvc,
         StartTcpConnectionAcceptorThread

\* A manager that is gone does not come back, and Purge runs only without one.
LEMMA ManagerGoes ==
  ASSUME Next
  PROVE  tcp_client_svc_mgr' = "live" => tcp_client_svc_mgr = "live"
<1>1. CASE MainThread
  BY <1>1
     DEF MainThread, MainCrash, SetServerNotifCallbacks, StartService, StartAcceptor,
         Display, CreateActiveAClient, StopConnectionAcceptingSvc,
         StartConectionAcceptionSvc, CancelService, JoinService, ForgetService, Stop, PurgeLock,
         PurgeClient, DeleteController, ctrlVars
<1>2. ASSUME NEW a \in Acceptor, AcceptorThread(a)
      PROVE  UNCHANGED ctrlVars
  BY <1>2
     DEF AcceptorThread, AddToDb, StartPush, FinishPush, AddClientToEpoll,
         AcceptorCrash, Crash
<1> QED BY <1>1, <1>2 DEF Next, ServiceThread, Peer, ctrlVars

\* While there is a service, a client keeps its descriptor until the service
\* thread closes it or removes the client.
LEMMA OwnsStays ==
  ASSUME TypeInv, Control, Fresh, ListOwns, Next,
         tcp_client_svc_mgr = "live",
         NEW c \in Conn, Owns(c),
         c = served => ~CloseFd /\ ~RemoveClient
  PROVE  Owns(c)'
<1>1. c \in Client /\ c \notin Active /\ c # NULL
  BY ClientAssumption DEF Client
<1>2. c \notin queued
  BY DEF Fresh, Owns, Live
<1>3. ~PurgeClient
  BY DEF Control, Purging, PurgeClient
<1>4. client'[c].heap = client[c].heap /\ client'[c].comm_fd = client[c].comm_fd
  BY <1>1, <1>2, <1>3, ClientChanges
<1>5. PICK fd \in FD : fd = client[c].comm_fd /\ fdOf[fd] = c
  BY DEF Owns
<1>6. fdOf \in [FD -> Conn \cup {NULL}]
  BY DEF TypeInv, TypeOK, SocketTypeOK
<1>7. fdOf'[fd] = c
  <2>1. CASE CloseFd /\ fdOf' = [fdOf EXCEPT ![client[served].comm_fd] = NULL]
    <3>1. served \in Listed /\ c # served /\ svcPc = "close"
      BY <2>1 DEF CloseFd, TypeInv, Numbered, Serving
    <3>2. fdOf[client[served].comm_fd] = served
      BY <3>1 DEF ListOwns, Owns
    <3> QED BY <1>5, <1>6, <2>1, <3>1, <3>2
  <2>2. ASSUME NEW d, NEW f \in FD, fdOf[f] = NULL, fdOf' = [fdOf EXCEPT ![f] = d]
        PROVE  fdOf'[fd] = c
    BY <1>1, <1>5, <1>6, <2>2
  <2> QED BY <1>3, <1>5, <2>1, <2>2, DescriptorChanges DEF Accepts
<1> QED BY <1>4, <1>5, <1>7 DEF Owns, Live

\* Where an acceptor's client is not yet in the service thread's list.
LEMMA HandPlaces ==
  ASSUME TypeInv, Next, NEW a \in Acceptor,
         accPc'[a] \in HandingOver \ {"AddClientToEpoll"}
  PROVE  \/ /\ accPc[a] \in HandingOver \ {"AddClientToEpoll"}
            /\ accepted'[a] = accepted[a]
            /\ ~FinishPush(a)
         \/ Accept(a)
<1> USE DEF HandingOver, goto
<1>0. accPc \in [Acceptor -> AccPC] /\ accepted \in [Acceptor -> Conn \cup {NULL}]
  BY DEF TypeInv, TypeOK, AccTypeOK
<1>1. ~FinishPush(a)
  BY <1>0 DEF FinishPush
<1>2. CASE UNCHANGED accVars
  BY <1>1, <1>2 DEF accVars
<1>3. CASE StartAcceptor \/ StartConectionAcceptionSvc
  BY <1>0, <1>1, <1>3
     DEF StartAcceptor, StartConectionAcceptionSvc, StartTcpConnectionAcceptorThread
<1>4. ASSUME NEW b \in Acceptor, AcceptorThread(b), a # b
      PROVE  accPc'[a] = accPc[a] /\ accepted'[a] = accepted[a]
  <2>1. accPc'[a] = accPc[a]
    BY <1>0, <1>4
       DEF AcceptorThread, WaitUntilReady, Woken, Listen, Accept, ClientConnected,
           AddToDb, StartPush, FinishPush, AddClientToEpoll, AcceptorCrash, Crash,
           accVars
  <2>2. accepted'[a] = accepted[a]
    BY <1>0, <1>4
       DEF AcceptorThread, WaitUntilReady, Woken, Listen, Accept, ClientConnected,
           AddToDb, StartPush, FinishPush, AddClientToEpoll, AcceptorCrash, Crash,
           accVars
  <2> QED BY <2>1, <2>2
<1>5. CASE AcceptorThread(a)
  <2>1. CASE WaitUntilReady(a) \/ Woken(a) \/ Listen(a) \/ AddClientToEpoll(a)
    BY <1>0, <2>1 DEF WaitUntilReady, Woken, Listen, AddClientToEpoll
  <2>2. CASE ClientConnected(a, callbacks)
    BY <1>0, <1>1, <2>2 DEF ClientConnected
  <2>3. CASE AddToDb(a) \/ StartPush(a)
    BY <1>0, <1>1, <2>3 DEF AddToDb, StartPush
  <2>4. CASE AcceptorCrash(a)
    BY <1>2, <2>4 DEF AcceptorCrash, Crash
  <2> QED BY <1>1, <1>5, <2>1, <2>2, <2>3, <2>4 DEF AcceptorThread
<1> QED BY <1>1, <1>2, <1>3, <1>4, <1>5, AcceptorWriters

\* An acceptor gets to client_connected by accept only.
LEMMA ArrivedAtConnected ==
  ASSUME TypeInv, Next, NEW a \in Acceptor, accPc'[a] = "client_connected", ~Accept(a)
  PROVE  accepted'[a] = accepted[a] /\ accPc[a] = "client_connected"
<1> USE DEF HandingOver, goto
<1>0. accPc \in [Acceptor -> AccPC]
  BY DEF TypeInv, TypeOK, AccTypeOK
<1>1. CASE UNCHANGED accVars
  BY <1>1 DEF accVars
<1>2. CASE StartAcceptor \/ StartConectionAcceptionSvc
  BY <1>0, <1>2
     DEF StartAcceptor, StartConectionAcceptionSvc, StartTcpConnectionAcceptorThread
<1>3. ASSUME NEW b \in Acceptor, AcceptorThread(b)
      PROVE  accPc[a] = "client_connected"
  BY <1>0, <1>3
     DEF AcceptorThread, WaitUntilReady, Woken, Listen, Accept, ClientConnected, AddToDb,
         StartPush, FinishPush, AddClientToEpoll, AcceptorCrash, Crash, accVars
<1>4. accPc[a] = "client_connected"
  BY <1>1, <1>2, <1>3, AcceptorWriters
<1> QED BY <1>4, HandPlaces

\* Every step preserves HandsOwn.
LEMMA HandsOwnStep ==
  ASSUME TypeInv, Control, Ownership, Next
  PROVE  HandsOwn'
<1> USE DEF Ownership
<1> SUFFICES ASSUME NEW a \in Acceptor,
                    accPc'[a] \in HandingOver \ {"AddClientToEpoll"}
             PROVE  /\ accepted'[a] \notin Listed'
                    /\ tcp_client_svc_mgr' = "live" => Owns(accepted[a])'
  BY DEF HandsOwn
<1>1. CASE Accept(a)
  <2>1. PICK c \in queued, fd \in FD : Accepts(a, c, fd)
    BY <1>1, AcceptTakes
  <2>2. accepted'[a] = c /\ c \in Conn /\ c \in Client
    BY <2>1 DEF Accepts, TypeInv, TypeOK, AccTypeOK, Client
  <2>3. c \notin Listed /\ Listed' = Listed
    BY <1>1 DEF Fresh, TypeInv, Numbered, Accept, svcVars, listVars, Listed
  <2>4. client'[c].heap = "live" /\ client'[c].comm_fd = fd /\ fdOf'[fd] = c
    BY <2>1, <2>2
       DEF Accepts, Unused, Object, TypeInv, TypeOK, ClientTypeOK, SocketTypeOK
  <2> QED BY <2>2, <2>3, <2>4 DEF Owns, Live
<1>2. CASE /\ accPc[a] \in HandingOver \ {"AddClientToEpoll"}
           /\ accepted'[a] = accepted[a]
           /\ ~FinishPush(a)
  <2>1. accepted[a] \in Conn /\ accepted[a] \notin Listed /\ accepted[a] # NULL
    BY <1>2, HandedOver, ClientAssumption DEF HandsOwn, Client
  <2>2. accepted[a] \notin Listed'
    <3>1. ASSUME NEW b \in Acceptor, FinishPush(b)
          PROVE  accepted[b] # accepted[a]
      BY <1>2, <2>1, <3>1 DEF OneHand
    <3> QED BY <2>1, <3>1, ListChanges
  <2>3. ASSUME tcp_client_svc_mgr' = "live"
        PROVE  Owns(accepted[a])'
    <3>1. PICK c \in Conn : c = accepted[a]
      BY <2>1
    <3>2. tcp_client_svc_mgr = "live" /\ Owns(c)
      BY <1>2, <2>3, <3>1, ManagerGoes DEF HandsOwn
    <3>3. c = served => ~CloseFd /\ ~RemoveClient
      BY <2>1, <3>1 DEF TypeInv, Numbered, Serving, CloseFd, RemoveClient
    <3>4. Owns(c)'
      BY <3>2, <3>3, OwnsStays
    <3> QED BY <1>2, <3>1, <3>4 DEF Owns, Live
  <2> QED BY <1>2, <2>2, <2>3
<1> QED BY <1>1, <1>2, HandPlaces

\* Every step preserves ListOwns.
LEMMA ListOwnsStep ==
  ASSUME TypeInv, Control, Ownership, Next
  PROVE  ListOwns'
<1> USE DEF Ownership
<1> SUFFICES ASSUME NEW c \in Listed'
             PROVE  \/ Owns(c)'
                    \/ Live(c)' /\ c = served' /\ svcPc' \in {"epoll_del", "RemoveClient"}
  BY DEF ListOwns, Owns
<1>1. CASE c \in Listed
  <2>1. c \in Conn /\ c \in Client /\ client[c].heap = "live"
        /\ c \notin Active /\ c # NULL /\ c \notin queued
    BY <1>1, ClientAssumption DEF TypeInv, Numbered, Client, ListOwns, Live, Fresh
  <2>2. tcp_client_svc_mgr = "live" /\ ~PurgeClient
    BY <1>1 DEF ListGone, Control, Purging, PurgeClient
  <2>3. CASE CloseFd /\ c = served
    BY <2>1, <2>3 DEF CloseFd, loopVars, Live
  <2>4. CASE Owns(c) /\ (c = served => ~CloseFd /\ ~RemoveClient)
    BY <2>1, <2>2, <2>4, OwnsStays
  <2>5. CASE RemoveClient /\ c = served
    <3>1. Listed' = Listed \ {served}
      BY <2>5, RemovedSet DEF RemoveClient, Listed, TypeInv, TypeOK, SvcTypeOK
    <3> QED BY <2>5, <3>1
  <2>6. CASE c = served /\ svcPc \in {"epoll_del", "RemoveClient"} /\ ~RemoveClient
    <3>1. client'[c].heap = "live"
      BY <2>1, <2>2, <2>6, ClientChanges
    <3>2. CASE ServiceThread
      BY <2>6, <3>1, <3>2
         DEF ServiceThread, SvcThread, EpollCreate, SignalReady, RegisterClients,
             EpollWait, EventsDone, GetClientByFd, SkipRecv, Receiving, RecvData, RecvAgain, RecvEnd,
             CloseFd, EpollDel, Exit, loopVars, Live
    <3> QED BY <2>6, <3>1, <3>2, SvcPlace DEF StartService, Live
  <2> QED BY <1>1, <2>3, <2>4, <2>5, <2>6 DEF ListOwns, CloseFd
<1>2. ASSUME NEW a \in Acceptor, FinishPush(a), c = accepted[a], c \notin Listed
      PROVE  Owns(c)'
  <2>1. accPc[a] = "EndPush" /\ tcp_client_svc_mgr = "live"
    BY <1>2 DEF FinishPush, goto
  <2>2. c \in Conn /\ Owns(c)
    BY <1>2, <2>1, HandedOver DEF HandsOwn, HandingOver
  <2>3. c = served => ~CloseFd /\ ~RemoveClient
    BY <1>2 DEF TypeInv, Numbered, Serving, CloseFd, RemoveClient
  <2> QED BY <2>1, <2>2, <2>3, OwnsStays
<1> QED BY <1>1, <1>2, ListChanges

\* Every step preserves ListGone.
LEMMA ListGoneStep ==
  ASSUME TypeInv, Control, ListGone, Next
  PROVE  ListGone'
<1>1. SUFFICES ASSUME tcp_client_svc_mgr' # "live"
               PROVE  Listed' = {}
  BY DEF ListGone
<1>2. CASE JoinService
  BY <1>2 DEF JoinService, ClearAndDelete, Listed, ToSet
<1>3. CASE ~JoinService
  <2>1. tcp_client_svc_mgr # "live"
    <3>1. CASE MainThread
      BY <1>1, <1>3, <3>1
         DEF MainThread, MainCrash, SetServerNotifCallbacks, StartService,
             StartAcceptor, Display, CreateActiveAClient, StopConnectionAcceptingSvc,
             StartConectionAcceptionSvc, CancelService, ForgetService, Stop, PurgeLock,
             PurgeClient, DeleteController, ctrlVars, Control, Purging
    <3>2. ASSUME NEW a \in Acceptor, AcceptorThread(a)
          PROVE  UNCHANGED ctrlVars
      BY <3>2
         DEF AcceptorThread, AddToDb, StartPush, FinishPush, AddClientToEpoll,
             AcceptorCrash, Crash
    <3> QED BY <1>1, <3>1, <3>2 DEF Next, ServiceThread, Peer, ctrlVars
  <2>2. \A a \in Acceptor : ~FinishPush(a)
    BY <2>1 DEF FinishPush
  <2> QED BY <1>3, <2>1, <2>2, ListChanges DEF ListGone
<1> QED BY <1>2, <1>3

\* Every step preserves Ownership.
LEMMA OwnershipStep ==
  ASSUME TypeInv, Control, Ownership, [Next]_vars
  PROVE  Ownership'
<1>1. CASE Next
  BY <1>1, FreshStep, OneDescriptorStep, OneHandStep, HandsOwnStep, ListOwnsStep,
     ListGoneStep DEF Ownership
<1>2. CASE UNCHANGED vars
  BY <1>2
     DEF vars, socketVars, svcVars, listVars, loopVars, accVars, ctrlVars, Ownership,
         Fresh, OneDescriptor, OneHand, HandsOwn, ListOwns, ListGone, Listed, Owns, Live
<1> QED BY <1>1, <1>2

-----------------------------------------------------------------------------
(* How far a connection is.                                                *)

\* A client keeps its demarcar.
LEMMA DemarcarStays ==
  ASSUME TypeInv, Fresh, Next, NEW c \in Conn,
         client[c].heap # "unused", client[c].msgd = "set"
  PROVE  client'[c].msgd = "set"
<1> USE DEF Object
<1>0. client \in [Client -> Object] /\ c \in Client /\ c \notin Active
  BY ClientAssumption DEF TypeInv, TypeOK, ClientTypeOK, Client
<1>1. CASE CreateActiveAClient
  BY <1>0, <1>1 DEF CreateActiveAClient, NewActive
<1>2. CASE PurgeClient
  BY <1>0, <1>2 DEF PurgeClient, PurgeOne, Abort, delete
<1>3. CASE RemoveClient
  BY <1>0, <1>3 DEF RemoveClient, delete
<1>4. ASSUME NEW a \in Acceptor, Accept(a)
      PROVE  client'[c].msgd = "set"
  <2>1. PICK d \in queued : NewPassive(d, LowestFree)
    BY <1>4 DEF Accept
  <2>2. c # d
    BY DEF Fresh
  <2> QED BY <1>0, <2>1, <2>2 DEF NewPassive
<1>5. ASSUME NEW a \in Acceptor, ClientConnected(a, callbacks)
      PROVE  client'[c].msgd = "set"
  <2>1. client' = client \/ client' = [client EXCEPT ![accepted[a]].msgd = "set"]
    BY <1>5 DEF ClientConnected
  <2> QED BY <1>0, <2>1
<1>6. ASSUME NEW a \in Acceptor, AddToDb(a)
      PROVE  client'[c].msgd = "set"
  BY <1>0, <1>6 DEF AddToDb, SetState
<1> QED BY <1>0, <1>1, <1>2, <1>3, <1>4, <1>5, <1>6, ClientWriters

\* Listed clients have one.
LEMMA ListedHasDemarcar ==
  ASSUME TypeInv, Fresh, Progress, Next, NEW c \in Listed'
  PROVE  client'[c].msgd = "set"
<1>1. CASE c \in Listed
  BY <1>1, DemarcarStays DEF Progress, TypeInv, Numbered
<1>2. ASSUME NEW a \in Acceptor, FinishPush(a), c = accepted[a]
      PROVE  client'[c].msgd = "set"
  <2>1. accPc[a] \in HandingOver \ {"client_connected"}
    BY <1>2 DEF FinishPush, goto, HandingOver
  <2> QED BY <1>2, <2>1, HandedOver, DemarcarStays DEF Progress
<1> QED BY <1>1, <1>2, ListChanges

\* So is a client on its way to the list.
LEMMA HandHasDemarcar ==
  ASSUME TypeInv, Fresh, Progress, Next, NEW a \in Acceptor,
         accPc'[a] \in HandingOver \ {"client_connected"}
  PROVE  client'[accepted'[a]].msgd = "set"
<1> USE DEF HandingOver, goto
<1>0. accPc \in [Acceptor -> AccPC] /\ accepted \in [Acceptor -> Conn \cup {NULL}]
  BY DEF TypeInv, TypeOK, AccTypeOK
<1>1. CASE /\ accPc[a] \in HandingOver \ {"client_connected"}
           /\ accepted'[a] = accepted[a]
  BY <1>1, HandedOver, DemarcarStays DEF Progress
<1>2. CASE UNCHANGED accVars
  BY <1>1, <1>2 DEF accVars
<1>3. CASE StartAcceptor \/ StartConectionAcceptionSvc
  BY <1>0, <1>1, <1>3
     DEF StartAcceptor, StartConectionAcceptionSvc, StartTcpConnectionAcceptorThread
<1>4. ASSUME NEW b \in Acceptor, AcceptorThread(b), a # b
      PROVE  accPc'[a] = accPc[a] /\ accepted'[a] = accepted[a]
  <2>1. accPc'[a] = accPc[a]
    BY <1>0, <1>4
       DEF AcceptorThread, WaitUntilReady, Woken, Listen, Accept, ClientConnected,
           AddToDb, StartPush, FinishPush, AddClientToEpoll, AcceptorCrash, Crash,
           accVars
  <2>2. accepted'[a] = accepted[a]
    BY <1>0, <1>4
       DEF AcceptorThread, WaitUntilReady, Woken, Listen, Accept, ClientConnected,
           AddToDb, StartPush, FinishPush, AddClientToEpoll, AcceptorCrash, Crash,
           accVars
  <2> QED BY <2>1, <2>2
<1>5. CASE AcceptorThread(a)
  <2>1. CASE WaitUntilReady(a) \/ Woken(a) \/ Listen(a) \/ AddClientToEpoll(a)
    BY <1>0, <2>1 DEF WaitUntilReady, Woken, Listen, AddClientToEpoll
  <2>2. CASE ClientConnected(a, callbacks)
    <3>1. accPc'[a] # accPc[a] /\ accPc[a] = "client_connected"
      BY <1>0, <2>2 DEF ClientConnected
    <3>2. client' = [client EXCEPT ![accepted[a]].msgd = "set"] /\ accepted' = accepted
      BY <2>2, <3>1 DEF ClientConnected
    <3>3. accepted[a] \in Client
      BY <3>1, HandedOver
    <3> QED BY <3>2, <3>3 DEF TypeInv, TypeOK, ClientTypeOK, Object
  <2>3. CASE AddToDb(a) \/ StartPush(a) \/ FinishPush(a)
    BY <1>0, <1>1, <2>3 DEF AddToDb, StartPush, FinishPush
  <2>4. CASE AcceptorCrash(a)
    BY <1>2, <2>4 DEF AcceptorCrash, Crash
  <2>5. CASE Accept(a)
    BY <1>0, <2>5 DEF Accept
  <2> QED BY <1>5, <2>1, <2>2, <2>3, <2>4, <2>5 DEF AcceptorThread
<1> QED BY <1>1, <1>2, <1>3, <1>4, <1>5, AcceptorWriters

\* A client that is about to be announced has none yet.
LEMMA HandHasNone ==
  ASSUME TypeInv, Fresh, OneHand, Progress, Next, NEW a \in Acceptor,
         accPc'[a] = "client_connected"
  PROVE  client'[accepted'[a]].msgd = "NULL"
<1> USE DEF Object
<1>0. /\ accPc \in [Acceptor -> AccPC] /\ accepted \in [Acceptor -> Conn \cup {NULL}]
      /\ client \in [Client -> Object]
  BY DEF TypeInv, TypeOK, AccTypeOK, ClientTypeOK
<1>1. CASE Accept(a)
  <2>1. PICK c \in queued, fd \in FD : Accepts(a, c, fd)
    BY <1>1, AcceptTakes
  <2>2. accepted'[a] = c /\ c \in Client
    BY <1>0, <2>1 DEF Accepts, Client
  <2> QED BY <1>0, <2>1, <2>2 DEF Accepts, Unused
<1>2. CASE ~Accept(a)
  <2>1. accepted'[a] = accepted[a] /\ accPc[a] = "client_connected"
    BY <1>2, ArrivedAtConnected
  <2>2. PICK c \in Conn : c = accepted[a]
    BY <2>1, HandedOver DEF HandingOver
  <2>3. /\ c \in Client /\ c \notin Active /\ c # NULL /\ c \notin queued
        /\ client[c].msgd = "NULL"
    BY <2>1, <2>2, HandedOver, ClientAssumption DEF Client, Fresh, Progress, HandingOver
  <2>4. client'[c].msgd = "NULL"
    <3>1. CASE CreateActiveAClient
      BY <1>0, <2>3, <3>1 DEF CreateActiveAClient, NewActive
    <3>2. CASE PurgeClient
      BY <1>0, <2>3, <3>2 DEF PurgeClient, PurgeOne, Abort, delete
    <3>3. CASE RemoveClient
      BY <1>0, <2>3, <3>3 DEF RemoveClient, delete
    <3>4. ASSUME NEW b \in Acceptor, Accept(b)
          PROVE  client'[c].msgd = "NULL"
      <4>1. PICK d \in queued : NewPassive(d, LowestFree)
        BY <3>4 DEF Accept
      <4> QED BY <1>0, <2>3, <4>1 DEF NewPassive
    <3>5. ASSUME NEW b \in Acceptor, ClientConnected(b, callbacks)
          PROVE  client'[c].msgd = "NULL"
      <4>1. \/ client' = client
            \/ accPc[b] = "client_connected" /\ accPc'[b] = "AddClienttoDb"
               /\ client' = [client EXCEPT ![accepted[b]].msgd = "set"]
        BY <1>0, <3>5 DEF ClientConnected, goto
      <4>2. b # a => accepted[b] # c
        BY <2>2, <2>3 DEF OneHand
      <4> QED BY <1>0, <2>3, <4>1, <4>2
    <3>6. ASSUME NEW b \in Acceptor, AddToDb(b)
          PROVE  client'[c].msgd = "NULL"
      BY <1>0, <2>3, <3>6 DEF AddToDb, SetState
    <3> QED BY <2>3, <3>1, <3>2, <3>3, <3>4, <3>5, <3>6, ClientWriters
  <2> QED BY <2>1, <2>2, <2>4
<1> QED BY <1>1, <1>2

\* The client an acceptor is about to announce has no demarcar, and its
\* connection has left the backlog.
LEMMA HandedNew ==
  ASSUME IInv, NEW a \in Acceptor, accPc[a] = "client_connected"
  PROVE  client[accepted[a]].msgd # "set" /\ accepted[a] \in opened \ queued
<1>1. accepted[a] \in Conn /\ client[accepted[a]].heap # "unused"
  BY HandedOver DEF IInv, HandingOver
<1> QED BY <1>1 DEF IInv, Ownership, Fresh, Progress

\* What a step does to the bytes and ends that are to be received.
LEMMA DataChanges ==
  ASSUME Next
  PROVE  \/ UNCHANGED <<data, fin>>
         \/ RecvData(callbacks) /\ data' = data \ {Source} /\ Source \in data
            /\ UNCHANGED fin
         \/ \E c \in Conn : PeerSend(c) /\ data' = data \cup {c} /\ c \notin fin
                            /\ UNCHANGED fin
         \/ \E c \in Conn : PeerClose(c) /\ fin' = fin \cup {c} /\ UNCHANGED data
<1>1. CASE PurgeClient
  BY <1>1 DEF PurgeClient, PurgeOne, Abort, close, socketVars
<1>2. CASE RegisterClients \/ CloseFd \/ EpollDel
  BY <1>2 DEF RegisterClients, epoll_add, CloseFd, close, EpollDel, epoll_del
<1>3. CASE RecvData(callbacks)
  BY <1>3 DEF RecvData
<1>4. ASSUME NEW a \in Acceptor, Accept(a) \/ AddClientToEpoll(a)
      PROVE  UNCHANGED <<data, fin>>
  BY <1>4 DEF Accept, accept, AddClientToEpoll, epoll_add, socketVars
<1>5. ASSUME NEW c \in Conn, PeerConnect(c)
      PROVE  UNCHANGED <<data, fin>>
  BY <1>5 DEF PeerConnect
<1>6. ASSUME NEW c \in Conn, PeerSend(c)
      PROVE  data' = data \cup {c} /\ c \notin fin /\ UNCHANGED fin
  BY <1>6 DEF PeerSend
<1>7. ASSUME NEW c \in Conn, PeerClose(c)
      PROVE  fin' = fin \cup {c} /\ UNCHANGED data
  BY <1>7 DEF PeerClose
<1> QED BY <1>1, <1>2, <1>3, <1>4, <1>5, <1>6, <1>7, SocketWriters DEF socketVars

\* Where the service thread closes, the connection has ended and is read out.
LEMMA EndedAtClose ==
  ASSUME TypeInv, Ownership, Progress, Next, svcPc' = "close"
  PROVE  served' \in fin' \ data'
<1>1. CASE svcPc = "close" /\ served' = served
  <2>1. served \in fin \ data
    BY <1>1 DEF Progress
  <2>2. ~RecvData(callbacks)
    BY <1>1 DEF RecvData, Receiving
  <2> QED BY <1>1, <2>1, <2>2, DataChanges
<1>2. CASE RecvEnd
  <2>1. served \in Listed /\ svcPc = "recv"
    BY <1>2 DEF RecvEnd, Receiving, TypeInv, Numbered, Serving
  <2>2. Source = served /\ served \in Conn
    BY <2>1 DEF Ownership, ListOwns, Owns, Source, TypeInv, Numbered
  <2> QED BY <1>2, <2>2 DEF RecvEnd, socketVars, loopVars
<1>3. CASE ServiceThread
  BY <1>2, <1>3
     DEF ServiceThread, SvcThread, EpollCreate, SignalReady, RegisterClients,
         EpollWait, EventsDone, GetClientByFd, SkipRecv, Receiving, RecvData, svcVars, RecvAgain, CloseFd,
         EpollDel, RemoveClient, Exit, SvcTypeOK
<1> QED
  BY <1>1, <1>2, <1>3, SvcPlace DEF StartService, StartTcpClientServiceManagerThread

\* Where the service thread removes a client, its descriptor is closed.
LEMMA ClosedAtRemoval ==
  ASSUME TypeInv, Ownership, Progress, Next, svcPc' \in {"epoll_del", "RemoveClient"}
  PROVE  ~Accepted(served)'
<1>0. fdOf \in [FD -> Conn \cup {NULL}]
  BY DEF TypeInv, TypeOK, SocketTypeOK
<1>1. CASE CloseFd
  <2>1. served \in Listed /\ svcPc = "close" /\ served' = served
    BY <1>1 DEF CloseFd, TypeInv, Numbered, Serving, loopVars
  <2>2. /\ fdOf[client[served].comm_fd] = served /\ client[served].comm_fd \in FD
        /\ served # NULL
    BY <2>1, ClientAssumption DEF Ownership, ListOwns, Owns, TypeInv, Numbered, Client
  <2>3. \A fd \in FD : fdOf[fd] = served => fd = client[served].comm_fd
    BY <2>2 DEF Ownership, OneDescriptor
  <2>4. fdOf' = [fdOf EXCEPT ![client[served].comm_fd] = NULL]
    BY <1>1 DEF CloseFd, close
  <2> QED BY <1>0, <2>1, <2>2, <2>3, <2>4 DEF Accepted
<1>2. CASE svcPc \in {"epoll_del", "RemoveClient"} /\ served' = served
  <2>1. served \in Listed /\ ~Accepted(served)
    BY <1>2 DEF TypeInv, Numbered, Serving, Progress
  <2>2. served \notin queued /\ served # NULL
    BY <2>1, ClientAssumption DEF TypeInv, Numbered, Ownership, Fresh, Client
  <2>3. ASSUME NEW fd \in FD
        PROVE  fdOf'[fd] # served
    <3>1. CASE \E f : fdOf' = [fdOf EXCEPT ![f] = NULL]
      BY <1>0, <2>1, <2>2, <3>1 DEF Accepted
    <3>2. ASSUME NEW d \in queued, NEW f, fdOf' = [fdOf EXCEPT ![f] = d]
          PROVE  fdOf'[fd] # served
      BY <1>0, <2>1, <2>2, <3>2 DEF Accepted
    <3> QED BY <2>1, <3>1, <3>2, DescriptorChanges DEF Accepts, Accepted
  <2> QED BY <1>2, <2>3 DEF Accepted
<1>3. CASE ServiceThread
  BY <1>1, <1>2, <1>3
     DEF ServiceThread, SvcThread, EpollCreate, SignalReady, RegisterClients,
         EpollWait, EventsDone, GetClientByFd, SkipRecv, Receiving, RecvData, svcVars, RecvAgain, RecvEnd,
         EpollDel, RemoveClient, Exit, loopVars
<1> QED
  BY <1>1, <1>2, <1>3, SvcPlace DEF StartService, StartTcpClientServiceManagerThread

\* Every step preserves Progress.
LEMMA ProgressStep ==
  ASSUME TypeInv, Ownership, Progress, [Next]_vars
  PROVE  Progress'
<1>1. CASE Next
  BY <1>1, ListedHasDemarcar, HandHasDemarcar, HandHasNone, EndedAtClose, ClosedAtRemoval
     DEF Progress, Ownership
<1>2. CASE UNCHANGED vars
  BY <1>2
     DEF vars, socketVars, svcVars, listVars, loopVars, accVars, Progress, Listed,
         Accepted
<1> QED BY <1>1, <1>2

-----------------------------------------------------------------------------
(* The invariant.                                                          *)

\* It holds at the start.
LEMMA InvInit ==
  ASSUME Init
  PROVE  IInv
<1>1. TypeInv
  BY TypeInit
<1>2. Control
  BY AcceptorAssumption, FirstAcceptorAssumption DEF Init, ClientInit, SvcInit, Control, Purging
<1>3. Handshake
  BY DEF Init, SocketInit, SvcInit, AccInit, Handshake, HandingOver
<1>4. Listed = {}
  BY DEF Init, SvcInit, Listed, ToSet
<1>5. Ownership
  BY <1>4, ClientAssumption
     DEF Init, SocketInit, ClientInit, Unused, SvcInit, AccInit, Ownership, Fresh,
         OneDescriptor, OneHand, HandsOwn, ListOwns, ListGone, HandingOver, Client
<1>6. Progress
  BY <1>4 DEF Init, SvcInit, AccInit, Progress, HandingOver
<1> QED BY <1>1, <1>2, <1>3, <1>5, <1>6 DEF IInv

\* Every step preserves it.
LEMMA InvStep ==
  ASSUME IInv, [Next]_vars
  PROVE  IInv'
BY TypeStep, ControlStep, HandshakeStep, OwnershipStep, ProgressStep DEF IInv, TypeInv

\* So every reachable state satisfies it.
LEMMA Invariant == Spec => []IInv
<1>1. Init => IInv
  BY InvInit
<1>2. IInv /\ [Next]_vars => IInv'
  BY InvStep
<1> QED BY <1>1, <1>2, PTL DEF Spec

-----------------------------------------------------------------------------
(* The server is a ClientService.                                          *)

\* What the stage of a connection depends on.
SameView(c) ==
    /\ (c \in opened)' = (c \in opened) /\ (c \in queued)' = (c \in queued)
    /\ Accepted(c)' = Accepted(c)
    /\ (client[c].msgd = "set")' = (client[c].msgd = "set")
    /\ (c \in Listed)' = (c \in Listed)

\* A connection that looks the same is at the same stage.
LEMMA SameStage ==
  ASSUME NEW c \in Conn, SameView(c)
  PROVE  stage'[c] = stage[c]
  BY DEF SameView, stage, Served, Ready, Listed

\* The stage of a connection, from what it depends on.
StageFacts(c) ==
    /\ c \notin opened => stage[c] = "none"
    /\ c \in queued => stage[c] = "queued"
    /\ c \in opened \ queued =>
          /\ Accepted(c) /\ client[c].msgd # "set" => stage[c] = "accepted"
          /\ Accepted(c) /\ client[c].msgd = "set" /\ c \notin Listed =>
                stage[c] = "ready"
          /\ Accepted(c) /\ client[c].msgd = "set" /\ c \in Listed => stage[c] = "served"
          /\ ~Accepted(c) => stage[c] = "closed"
    /\ Accepted(c) => c \in opened \ queued

\* The stage of a connection, from the tables it is read off.
LEMMA StageIs ==
  ASSUME SocketTypeOK, Fresh, NEW c \in Conn
  PROVE  StageFacts(c)
<1>1. c \notin opened => c \notin queued
  BY DEF SocketTypeOK
<1>2. Accepted(c) => c \in opened \ queued
  BY DEF Fresh, Accepted
<1> QED BY <1>1, <1>2 DEF StageFacts, stage, Served, Ready, Listed

\* The same in the next state.
LEMMA StageIsNext ==
  ASSUME SocketTypeOK', Fresh', NEW c \in Conn
  PROVE  StageFacts(c)'
<1>1. c \notin opened' => c \notin queued'
  BY DEF SocketTypeOK
<1>2. Accepted(c)' => c \in opened' \ queued'
  BY DEF Fresh, Accepted
<1> QED BY <1>1, <1>2 DEF StageFacts, stage, Served, Ready, Listed

\* Stages change at one connection.
LEMMA OneStage ==
  ASSUME NEW c \in Conn, NEW to, stage'[c] = to,
         \A d \in Conn : d # c => stage'[d] = stage[d]
  PROVE  stage' = [stage EXCEPT ![c] = to]
<1>1. stage = [d \in Conn |-> stage[d]] /\ stage' = [d \in Conn |-> stage'[d]]
  BY DEF stage
<1> QED BY <1>1

\* A step that leaves every connection looking the same is a stutter, if it
\* receives nothing, nothing comes in and nothing is told.
LEMMA AllSame ==
  ASSUME \A c \in Conn : SameView(c), UNCHANGED <<data, fin, told, callbacks>>
  PROVE  UNCHANGED Service!vars
<1>1. stage = [d \in Conn |-> stage[d]] /\ stage' = [d \in Conn |-> stage'[d]]
  BY DEF stage
<1>2. \A d \in Conn : stage'[d] = stage[d]
  BY SameStage
<1>3. stage' = stage
  BY <1>1, <1>2
<1> QED BY <1>3 DEF Service!vars

\* A connection changes its stage.
LEMMA OneChanges ==
  ASSUME NEW c \in Conn, NEW from, NEW to, stage[c] = from, stage'[c] = to,
         \A d \in Conn : d # c => SameView(d),
         UNCHANGED <<data, fin>>
  PROVE  Service!Change(c, from, to)
<1>1. \A d \in Conn : d # c => stage'[d] = stage[d]
  BY SameStage
<1>2. stage' = [stage EXCEPT ![c] = to]
  BY <1>1, OneStage
<1> QED BY <1>2 DEF Service!Change

\* A step of one connection.
LEMMA OneMoves ==
  ASSUME NEW c \in Conn, NEW from, NEW to, stage[c] = from, stage'[c] = to,
         \A d \in Conn : d # c => SameView(d),
         UNCHANGED <<data, fin, told, callbacks>>
  PROVE  Service!Move(c, from, to)
BY OneChanges DEF Service!Move

\* A step that leaves tables, lists and announcements alone.
LEMMA QuietStep ==
  ASSUME UNCHANGED <<opened, queued, fdOf, data, fin, svc_client_db, told, callbacks>>,
         \A c \in Conn : client'[c].msgd = client[c].msgd
  PROVE  UNCHANGED Service!vars
<1>1. \A c \in Conn : SameView(c)
  BY DEF SameView, Accepted, Listed
<1> QED BY <1>1, AllSame

\* The peers' steps.
LEMMA PeerRefines ==
  ASSUME TypeInv, Fresh, TypeInv', Fresh', NEW c \in Conn, Peer(c)
  PROVE  Service!Next
<1>0. SocketTypeOK /\ SocketTypeOK' /\ UNCHANGED <<client, svc_client_db, told, callbacks>>
  BY DEF TypeInv, TypeOK, Peer, svcVars, listVars, accVars, ctrlVars
<1>1. CASE PeerConnect(c)
  <2>1. \A d \in Conn : d # c => SameView(d)
    BY <1>0, <1>1 DEF PeerConnect, SameView, Accepted, Listed
  <2>2. stage[c] = "none"
    BY <1>0, <1>1, StageIs DEF PeerConnect, StageFacts
  <2>3. stage'[c] = "queued"
    BY <1>0, <1>1, StageIsNext DEF PeerConnect, StageFacts
  <2>4. Service!Connect(c)
    BY <1>0, <1>1, <2>1, <2>2, <2>3, OneMoves DEF PeerConnect, Service!Connect
  <2> QED BY <2>4 DEF Service!Next
<1>2. CASE PeerSend(c) \/ PeerClose(c)
  <2>1. stage' = stage
    <3>1. UNCHANGED <<opened, queued, fdOf>>
      BY <1>2 DEF PeerSend, PeerClose
    <3> QED BY <1>0, <3>1 DEF stage, Accepted, Ready, Served
  <2>2. stage[c] # "none"
    <3>1. c \in opened
      BY <1>2 DEF PeerSend, PeerClose
    <3>2. stage[c] \in {"queued", "accepted", "ready", "served", "closed"}
      BY <1>0, <3>1, StageIs DEF StageFacts
    <3> QED BY <3>2
  <2>3. CASE PeerSend(c)
    <3>1. Service!Send(c)
      BY <1>0, <2>1, <2>2, <2>3 DEF PeerSend, Service!Send
    <3> QED BY <3>1 DEF Service!Next
  <2>4. CASE PeerClose(c)
    <3>1. Service!Close(c)
      BY <1>0, <2>1, <2>2, <2>4 DEF PeerClose, Service!Close
    <3> QED BY <3>1 DEF Service!Next
  <2> QED BY <1>2, <2>3, <2>4
<1> QED BY <1>1, <1>2 DEF Peer

\* The acceptors' steps.
LEMMA AcceptorRefines ==
  ASSUME IInv, IInv', NEW a \in Acceptor, AcceptorThread(a)
  PROVE  Service!Next \/ UNCHANGED Service!vars
<1>0. TypeInv /\ Fresh /\ SocketTypeOK /\ Fresh' /\ SocketTypeOK'
  BY DEF IInv, TypeInv, TypeOK, Ownership
<1> USE DEF goto
<1>9. UNCHANGED callbacks
  BY DEF AcceptorThread, AddToDb, StartPush, FinishPush, AddClientToEpoll, AcceptorCrash,
     Crash, ctrlVars
<1>1. CASE Accept(a)
  <2>1. PICK c \in queued, fd \in FD : Accepts(a, c, fd)
    BY <1>0, <1>1, AcceptTakes
  <2>2. c \in Conn /\ fdOf \in [FD -> Conn \cup {NULL}] /\ client \in [Client -> Object]
        /\ c # NULL /\ c \in Client /\ c \in opened
    BY <2>1, ClientAssumption
       DEF Accepts, IInv, TypeInv, TypeOK, SocketTypeOK, ClientTypeOK, Client
  <2>3. UNCHANGED <<data, fin, svc_client_db, told, callbacks>>
    BY <1>1, <1>9 DEF Accept, accept, svcVars, listVars
  <2>4. ASSUME NEW d \in Conn, d # c
        PROVE  SameView(d)
    <3>1. (d \in queued)' = (d \in queued) /\ (d \in opened)' = (d \in opened)
      BY <2>1, <2>4 DEF Accepts
    <3>2. Accepted(d)' = Accepted(d)
      <4>1. d # NULL
        BY <2>4, ClientAssumption DEF Client
      <4>2. \A f \in FD : fdOf'[f] = d <=> fdOf[f] = d
        BY <2>1, <2>2, <2>4, <4>1 DEF Accepts
      <4> QED BY <4>2 DEF Accepted
    <3>3. client'[d] = client[d]
      BY <2>1, <2>2, <2>4 DEF Accepts, Client
    <3> QED BY <2>3, <3>1, <3>2, <3>3 DEF SameView, Listed
  <2>5. stage[c] = "queued"
    BY <1>0, <2>1, <2>2, StageIs DEF StageFacts
  <2>6. stage'[c] = "accepted"
    <3>1. client'[c].msgd = "NULL" /\ c \notin queued' /\ c \in opened'
      BY <2>1, <2>2 DEF Accepts, Unused, Object
    <3>2. Accepted(c)'
      BY <2>1, <2>2 DEF Accepts, Accepted
    <3> QED BY <1>0, <2>2, <3>1, <3>2, StageIsNext DEF StageFacts
  <2>7. Service!Accept(c)
    BY <2>2, <2>3, <2>4, <2>5, <2>6, OneMoves DEF Service!Accept
  <2> QED BY <2>2, <2>7 DEF Service!Next
<1>2. CASE ClientConnected(a, callbacks)
  <2>1. UNCHANGED <<opened, queued, fdOf, data, fin, svc_client_db>>
    BY <1>2 DEF ClientConnected, socketVars, svcVars, listVars
  <2>2. PICK c : c = accepted[a]
    OBVIOUS
  <2>3. c \in Conn /\ c \in Client /\ c \notin Listed /\ client \in [Client -> Object]
    BY <1>0, <1>2, <2>2, HandedOver
       DEF ClientConnected, HandingOver, IInv, Ownership, HandsOwn, TypeInv, TypeOK,
           ClientTypeOK
  <2>4. CASE UNCHANGED <<client, told>>
    BY <1>9, <2>1, <2>4, QuietStep
  <2>5. CASE /\ client' = [client EXCEPT ![c].msgd = "set"]
             /\ told' = IF callbacks THEN told \cup {c} ELSE told
    <3>1. ASSUME NEW d \in Conn, d # c
          PROVE  SameView(d)
      BY <2>1, <2>3, <2>5, <3>1 DEF SameView, Accepted, Listed, Client
    <3>2. client'[c].msgd = "set"
      BY <2>3, <2>5 DEF Object
    <3>3. client[c].msgd # "set" /\ c \in opened \ queued
      BY <1>2, <2>2, HandedNew DEF ClientConnected
    <3>4. \/ stage[c] = "closed" /\ stage'[c] = "closed"
          \/ stage[c] = "accepted" /\ stage'[c] = "ready"
      <4>1. Accepted(c)' = Accepted(c) /\ c \notin Listed' /\ c \in opened' \ queued'
        BY <2>1, <2>3, <3>3 DEF Accepted, Listed
      <4>2. CASE Accepted(c)
        BY <1>0, <2>3, <3>2, <3>3, <4>1, <4>2, StageIs, StageIsNext DEF StageFacts
      <4>3. CASE ~Accepted(c)
        BY <1>0, <2>3, <3>3, <4>1, <4>3, StageIs, StageIsNext DEF StageFacts
      <4> QED BY <4>2, <4>3
    <3>5. \/ Service!Change(c, "closed", "closed")
          \/ Service!Change(c, "accepted", "ready")
      BY <2>1, <2>3, <3>1, <3>4, OneChanges
    <3>6. CASE callbacks
      <4>1. Service!Announce(c)
        BY <1>9, <2>5, <3>5, <3>6 DEF Service!Announce
      <4> QED BY <2>3, <4>1 DEF Service!Next
    <3>7. CASE ~callbacks
      <4>1. UNCHANGED <<told, callbacks>>
        BY <1>9, <2>5, <3>7
      <4>2. CASE stage[c] = "closed" /\ stage'[c] = "closed"
        <5>1. \A d \in Conn : stage'[d] = stage[d]
          BY <3>1, <4>2, SameStage
        <5>2. stage' = stage
          BY <5>1 DEF stage
        <5> QED BY <2>1, <4>1, <5>2 DEF Service!vars
      <4>3. CASE stage[c] = "accepted" /\ stage'[c] = "ready"
        <5>1. Service!Skip(c)
          BY <2>1, <2>3, <3>1, <3>7, <4>1, <4>3, OneMoves DEF Service!Skip
        <5> QED BY <2>3, <5>1 DEF Service!Next
      <4> QED BY <3>4, <4>2, <4>3
    <3> QED BY <3>6, <3>7
  <2> QED BY <1>2, <2>2, <2>4, <2>5 DEF ClientConnected
<1>3. CASE AddToDb(a)
  <2>1. \A c \in Conn : client'[c].msgd = client[c].msgd
    BY <1>3
       DEF AddToDb, SetState, IInv, TypeInv, TypeOK, ClientTypeOK, Object, Client
  <2> QED BY <1>3, <1>9, <2>1, QuietStep DEF AddToDb, socketVars, svcVars, listVars
<1>4. CASE FinishPush(a)
  <2>1. UNCHANGED <<opened, queued, fdOf, data, fin, client, told, callbacks>>
    BY <1>4, <1>9 DEF FinishPush, socketVars
  <2>2. PICK c : c = accepted[a]
    OBVIOUS
  <2>3. /\ c \in Conn /\ c \in Client /\ c \notin Listed /\ Accepted(c)
        /\ client[c].msgd = "set"
    BY <1>0, <1>4, <2>2, HandedOver
       DEF FinishPush, HandingOver, IInv, Ownership, HandsOwn, Owns, Accepted, Progress
  <2>4. CASE UNCHANGED svc_client_db
    BY <2>1, <2>4, QuietStep
  <2>5. CASE svc_client_db' = Append(svc_client_db, c)
    <3>1. Listed' = Listed \cup {c}
      BY <2>3, <2>5, AppendedSet DEF Listed, IInv, TypeInv, TypeOK, SvcTypeOK
    <3>2. ASSUME NEW d \in Conn, d # c
          PROVE  SameView(d)
      BY <2>1, <3>1, <3>2 DEF SameView, Accepted
    <3>3. c \in opened \ queued /\ stage[c] = "ready"
      BY <1>0, <2>3, StageIs DEF StageFacts
    <3>4. Accepted(c)' /\ c \in Listed' /\ c \in opened' \ queued' /\ client'[c].msgd = "set"
      BY <2>1, <2>3, <3>1, <3>3 DEF Accepted
    <3>5. stage'[c] = "served"
      BY <1>0, <2>3, <3>4, StageIsNext DEF StageFacts
    <3>6. Service!Serve(c)
      BY <2>1, <2>3, <3>2, <3>3, <3>5, OneMoves DEF Service!Serve
    <3> QED BY <2>3, <3>6 DEF Service!Next
  <2> QED BY <1>4, <2>2, <2>4, <2>5 DEF FinishPush, EndPush
<1>5. CASE AddClientToEpoll(a)
  BY <1>5, <1>9, QuietStep DEF AddClientToEpoll, epoll_add, socketVars, svcVars, listVars
<1>6. CASE WaitUntilReady(a) \/ Woken(a) \/ Listen(a) \/ StartPush(a) \/ AcceptorCrash(a)
  BY <1>6, <1>9, QuietStep
     DEF WaitUntilReady, Woken, Listen, StartPush, BeginPush, AcceptorCrash, Crash,
         socketVars, svcVars, listVars, accVars
<1> QED BY <1>1, <1>2, <1>3, <1>4, <1>5, <1>6 DEF AcceptorThread

\* The service thread's steps.
LEMMA ServiceRefines ==
  ASSUME IInv, IInv', ServiceThread
  PROVE  Service!Next \/ UNCHANGED Service!vars
<1>0. TypeInv /\ Fresh /\ SocketTypeOK /\ Fresh' /\ SocketTypeOK'
  BY DEF IInv, TypeInv, TypeOK, Ownership
<1>5. UNCHANGED <<told, callbacks>>
  BY DEF ServiceThread, accVars, ctrlVars
<1>1. CASE RecvData(callbacks)
  <2>1. /\ served \in Listed /\ UNCHANGED <<opened, queued, fdOf, fin, svc_client_db, client>>
        /\ Source \in data /\ data' \in {data, data \ {Source}}
    BY <1>1
       DEF RecvData, Receiving, IInv, TypeInv, Numbered, Serving, readyVars, listVars
  <2>2. /\ served \in Conn /\ Source = served /\ Accepted(served)
        /\ client[served].msgd = "set"
    <3>1. svcPc = "recv"
      BY <1>1 DEF RecvData, Receiving
    <3>2. served \in Conn /\ Source = served
      BY <2>1, <3>1 DEF Source, IInv, TypeInv, Numbered, Ownership, ListOwns, Owns
    <3>3. Accepted(served)
      BY <2>1, <3>2 DEF Source, Accepted, IInv, TypeInv, Numbered
    <3>4. client[served].msgd = "set"
      BY <2>1 DEF IInv, Progress
    <3> QED BY <3>2, <3>3, <3>4
  <2>3. stage[served] = "served"
    BY <1>0, <2>1, <2>2, StageIs DEF StageFacts
  <2>4. stage' = stage
    BY <2>1 DEF stage, Accepted, Ready, Served
  <2>5. CASE data' = data
    BY <1>5, <2>1, <2>5, QuietStep
  <2>6. CASE data' = data \ {Source}
    <3>1. Service!Receive(served)
      BY <1>5, <2>1, <2>2, <2>3, <2>4, <2>6 DEF Service!Receive
    <3> QED BY <2>2, <3>1 DEF Service!Next
  <2> QED BY <2>1, <2>5, <2>6
<1>2. CASE CloseFd
  <2>1. /\ served \in Listed /\ served \in fin \ data
        /\ UNCHANGED <<opened, queued, data, fin, svc_client_db, client>>
    BY <1>2
       DEF CloseFd, close, IInv, TypeInv, Numbered, Serving, Progress, svcVars, listVars
  <2>2. PICK c \in Conn, fd \in FD :
          c = served /\ fd = client[c].comm_fd /\ fdOf[fd] = c
    BY <1>2, <2>1 DEF CloseFd, IInv, Ownership, ListOwns, Owns, TypeInv, Numbered
  <2>3. c # NULL /\ Accepted(c) /\ c \in Listed /\ client[c].msgd = "set"
    BY <2>1, <2>2, ClientAssumption DEF Accepted, IInv, Progress, Client
  <2>4. fdOf' = [fdOf EXCEPT ![fd] = NULL] /\ fdOf \in [FD -> Conn \cup {NULL}]
    BY <1>0, <1>2, <2>2 DEF CloseFd, close, SocketTypeOK
  <2>5. ~Accepted(c)'
    <3>1. \A f \in FD : fdOf[f] = c => f = fd
      BY <2>2, <2>3 DEF IInv, Ownership, OneDescriptor
    <3>2. \A f \in FD : fdOf'[f] # c
      BY <2>3, <2>4, <3>1
    <3> QED BY <3>2 DEF Accepted
  <2>6. ASSUME NEW d \in Conn, d # c
        PROVE  SameView(d)
    <3>1. d # NULL
      BY ClientAssumption DEF Client
    <3>2. Accepted(d)' = Accepted(d)
      BY <2>2, <2>4, <2>6, <3>1 DEF Accepted
    <3> QED BY <2>1, <3>2 DEF SameView, Listed
  <2>7. stage[c] = "served" /\ c \in opened \ queued
    BY <1>0, <2>3, StageIs DEF StageFacts
  <2>8. stage'[c] = "closed"
    BY <1>0, <2>1, <2>5, <2>7, StageIsNext DEF StageFacts
  <2>9. Service!End(c)
    BY <1>5, <2>1, <2>2, <2>6, <2>7, <2>8, OneMoves DEF Service!End
  <2> QED BY <2>9 DEF Service!Next
<1>3. CASE RemoveClient
  <2>1. /\ served \in Listed /\ served \in Conn /\ ~Accepted(served)
        /\ UNCHANGED <<opened, queued, fdOf, data, fin>>
    BY <1>3 DEF RemoveClient, IInv, TypeInv, Numbered, Serving, Progress, socketVars
  <2>2. Listed' = Listed \ {served}
    BY <1>3, <2>1, RemovedSet
       DEF RemoveClient, Listed, IInv, TypeInv, TypeOK, SvcTypeOK
  <2>3. \A d \in Conn : client'[d].msgd = client[d].msgd
    BY <1>0, <1>3 DEF RemoveClient, delete, TypeInv, TypeOK, ClientTypeOK, Object, Client
  <2>4. \A d \in Conn : d # served => SameView(d)
    BY <2>1, <2>2, <2>3 DEF SameView, Accepted
  <2>5. stage'[served] = stage[served]
    BY <2>1 DEF stage, Accepted, Ready, Served
  <2>6. \A d \in Conn : stage'[d] = stage[d]
    BY <2>4, <2>5, SameStage
  <2>7. stage' = stage
    BY <2>6 DEF stage
  <2> QED BY <1>5, <2>1, <2>7 DEF Service!vars
<1>4. CASE \/ EpollCreate \/ SignalReady \/ RegisterClients \/ EpollWait \/ EventsDone
           \/ GetClientByFd \/ SkipRecv \/ RecvAgain \/ RecvEnd \/ EpollDel \/ Exit
  <2>1. UNCHANGED <<client, svc_client_db>>
    BY <1>4
       DEF EpollCreate, SignalReady, RegisterClients, EpollWait, EventsDone,
           GetClientByFd, SkipRecv, RecvAgain, RecvEnd, EpollDel, Exit, listVars
  <2>2. UNCHANGED <<opened, queued, fdOf, data, fin>>
    BY <1>4
       DEF EpollCreate, SignalReady, RegisterClients, EpollWait, EventsDone,
           GetClientByFd, SkipRecv, RecvAgain, RecvEnd, EpollDel, Exit, epoll_add, epoll_del,
           socketVars
  <2> QED BY <1>5, <2>1, <2>2, QuietStep
<1> QED BY <1>1, <1>2, <1>3, <1>4 DEF ServiceThread, SvcThread

\* The main thread's steps.
LEMMA MainRefines ==
  ASSUME IInv, IInv', MainThread
  PROVE  Service!Next \/ UNCHANGED Service!vars
<1>0. /\ TypeInv /\ Fresh /\ SocketTypeOK /\ Fresh' /\ SocketTypeOK'
      /\ client \in [Client -> Object]
  BY DEF IInv, TypeInv, TypeOK, Ownership, ClientTypeOK
<1>1. CASE JoinService
  <2>1. Listed' = {} /\ UNCHANGED <<opened, queued, fdOf, data, fin, client, told, callbacks>>
    BY <1>1 DEF JoinService, ClearAndDelete, Listed, ToSet, socketVars, accVars
  <2>2. ASSUME NEW c \in Conn
        PROVE  stage'[c] = IF stage[c] = "served" THEN "ready" ELSE stage[c]
    <3>1. CASE Accepted(c) /\ client[c].msgd = "set"
      <4>1. stage[c] \in {"ready", "served"} /\ c \in opened \ queued
        BY <1>0, <3>1, StageIs DEF StageFacts
      <4>2. stage'[c] = "ready"
        BY <1>0, <2>1, <3>1, <4>1, StageIsNext DEF StageFacts, Accepted
      <4> QED BY <4>1, <4>2
    <3>2. CASE ~(Accepted(c) /\ client[c].msgd = "set")
      <4>1. stage[c] # "served"
        BY <1>0, <3>2, StageIs DEF StageFacts
      <4>2. stage'[c] = stage[c]
        BY <2>1, <3>2 DEF stage, Accepted, Ready, Served
      <4> QED BY <4>1, <4>2
    <3> QED BY <3>1, <3>2
  <2>3. stage' = [c \in Conn |-> stage'[c]]
    BY DEF stage
  <2>4. Service!StopService
    BY <2>1, <2>2, <2>3 DEF Service!StopService
  <2> QED BY <2>4 DEF Service!Next
<1>2. CASE PurgeClient
  <2>1. /\ Listed = {}
        /\ UNCHANGED <<opened, queued, data, fin, svc_client_db, told, callbacks>>
        /\ tcp_client_db \in Seq(Client) /\ tcp_client_db # <<>>
    BY <1>2
       DEF PurgeClient, PurgeOne, Abort, close, IInv, TypeInv, TypeOK, DbTypeOK, Control,
           Purging, Ownership, ListGone, socketVars, svcVars, listVars, accVars
  <2>2. PICK h \in Client : h = Head(tcp_client_db)
    BY <2>1
  <2>3. \A c \in Conn : client'[c].msgd = client[c].msgd
    <3>1. client' = client \/ client' = [client EXCEPT ![h].heap = "freed"]
      BY <1>2, <2>2 DEF PurgeClient, PurgeOne, Abort, delete
    <3> QED BY <1>0, <3>1 DEF Object, Client
  <2>4. CASE UNCHANGED fdOf
    BY <2>1, <2>3, <2>4, QuietStep
  <2>5. ASSUME NEW fd \in FD, fdOf' = [fdOf EXCEPT ![fd] = NULL]
        PROVE  Service!Next \/ UNCHANGED Service!vars
    <3>0. fdOf \in [FD -> Conn \cup {NULL}]
      BY <1>0 DEF SocketTypeOK
    <3>1. CASE fdOf[fd] = NULL
      BY <2>4, <2>5, <3>0, <3>1
    <3>2. ASSUME NEW d \in Conn, fdOf[fd] = d
          PROVE  Service!Next
      <4>1. d # NULL /\ Accepted(d)
        BY <3>2, ClientAssumption DEF Accepted, Client
      <4>2. ~Accepted(d)'
        BY <2>5, <3>0, <3>2, <4>1 DEF Accepted, IInv, Ownership, OneDescriptor
      <4>3. ASSUME NEW c \in Conn, c # d
            PROVE  SameView(c)
        <5>1. c # NULL
          BY ClientAssumption DEF Client
        <5>2. Accepted(c)' = Accepted(c)
          BY <2>5, <3>0, <3>2, <4>3, <5>1 DEF Accepted
        <5> QED BY <2>1, <2>3, <5>2 DEF SameView, Listed
      <4>4. d \in opened \ queued /\ stage[d] \in {"accepted", "ready"}
        BY <1>0, <2>1, <4>1, StageIs DEF StageFacts
      <4>5. stage'[d] = "closed"
        BY <1>0, <2>1, <4>2, <4>4, StageIsNext DEF StageFacts
      <4>6. Service!Abort(d)
        BY <2>1, <4>3, <4>4, <4>5, OneMoves DEF Service!Abort
      <4> QED BY <4>6 DEF Service!Next
    <3> QED BY <3>0, <3>1, <3>2
  <2>6. UNCHANGED fdOf \/ \E fd \in FD : fdOf' = [fdOf EXCEPT ![fd] = NULL]
    BY <1>2 DEF PurgeClient, PurgeOne, Abort, close, socketVars
  <2> QED BY <2>4, <2>5, <2>6
<1>3. CASE CreateActiveAClient
  <2>1. PICK c \in Active, fd \in FD \cup {0}, ptr \in {"NULL", "garbage"} :
          NewActive(c, fd, ptr)
    BY <1>3 DEF CreateActiveAClient
  <2>2. \A d \in Conn : client'[d].msgd = client[d].msgd
    BY <1>0, <2>1, ClientAssumption DEF NewActive, Client
  <2> QED
    BY <1>3, <2>2, QuietStep
       DEF CreateActiveAClient, socketVars, svcVars, listVars, accVars, ctrlVars
<1>4. CASE \/ MainCrash \/ SetServerNotifCallbacks \/ StartService \/ StartAcceptor
           \/ Display \/ StopConnectionAcceptingSvc \/ StartConectionAcceptionSvc
           \/ CancelService \/ ForgetService \/ Stop \/ PurgeLock \/ DeleteController
  <2>1. UNCHANGED <<socketVars, client, told>>
    BY <1>4
       DEF MainCrash, SetServerNotifCallbacks, StartService, StartAcceptor, Display,
           DisplayClientDb, StopConnectionAcceptingSvc, StartConectionAcceptionSvc,
           StartTcpConnectionAcceptorThread, CancelService, ForgetService, Stop,
           PurgeLock, DeleteController, accVars
  <2>2. UNCHANGED svc_client_db
    BY <1>4
       DEF MainCrash, SetServerNotifCallbacks, StartService, StartAcceptor, Display,
           StartTcpClientServiceManagerThread, Cancel, StopConnectionAcceptingSvc,
           StartConectionAcceptionSvc, CancelService, ForgetService, Stop, PurgeLock,
           DeleteController, svcVars, listVars
  <2>3. CASE SetServerNotifCallbacks
    <3>1. callbacks' = TRUE
      BY <2>3 DEF SetServerNotifCallbacks
    <3>2. stage' = stage
      BY <2>1, <2>2 DEF stage, Accepted, Ready, Served, socketVars
    <3>3. Service!Register
      BY <2>1, <3>1, <3>2 DEF Service!Register, socketVars
    <3> QED BY <3>3 DEF Service!Next
  <2>4. CASE ~SetServerNotifCallbacks
    <3>1. UNCHANGED callbacks
      BY <1>4, <2>4
         DEF MainCrash, StartService, StartAcceptor, Display, StopConnectionAcceptingSvc,
             StartConectionAcceptionSvc, CancelService, ForgetService, Stop, PurgeLock,
             DeleteController, ctrlVars
    <3> QED BY <2>1, <2>2, <3>1, QuietStep DEF socketVars
  <2> QED BY <2>3, <2>4
<1> QED BY <1>1, <1>2, <1>3, <1>4 DEF MainThread

-----------------------------------------------------------------------------
(* The theorems.                                                           *)

\* Everything keeps its type: the epoll set holds open descriptors only, and
\* the lists hold clients.
THEOREM TypeCorrect == Spec => []TypeOK
<1>1. IInv => TypeOK
  BY DEF IInv, TypeInv
<1> QED BY <1>1, Invariant, PTL

\* No connection is accepted, or waits to be, before epoll_create1 was
\* called: the ready handshake orders the threads.
THEOREM AcceptedAfterEpoll == Spec => []AcceptAfterEpoll
<1>1. IInv => AcceptAfterEpoll
  BY DEF IInv, TypeInv, Numbered, Handshake, AcceptAfterEpoll
<1> QED BY <1>1, Invariant, PTL

\* Every client the service thread may find by descriptor number is alive and
\* has that descriptor, whatever numbers were used again.
THEOREM ListedClientsOwn == Spec => []ListedOwnsFd
<1>1. IInv => ListedOwnsFd
  BY DEF IInv, Ownership, ListOwns, Listed, Owns, ListedOwnsFd
<1> QED BY <1>1, Invariant, PTL

\* recv and close act on the connection of the client they are for.
THEOREM SocketOfServed == Spec => []RecvOwnSocket
<1>1. IInv => RecvOwnSocket
  BY DEF IInv, TypeInv, Numbered, Serving, Ownership, ListOwns, Owns, Source,
     RecvOwnSocket
<1> QED BY <1>1, Invariant, PTL

\* The service manager is deleted only after its thread has ended.
THEOREM ManagerOutlivesThread == Spec => []DeletedAfterExit
<1>1. IInv => DeletedAfterExit
  BY DEF IInv, Control, DeletedAfterExit
<1> QED BY <1>1, Invariant, PTL

\* Between operations the stop flags and the pointers say the same.
THEOREM FlagsAgree == Spec => []FlagsMatchPointers
<1>1. IInv => FlagsMatchPointers
  BY DEF IInv, Control, Purging, FlagsMatchPointers
<1> QED BY <1>1, Invariant, PTL

\* The assertions of the controller's destructor hold, whatever was stopped
\* and started before.
THEOREM DestructorHolds == Spec => []DestructorAsserts
<1>1. IInv => DestructorAsserts
  BY DEF IInv, Control, DestructorAsserts
<1> QED BY <1>1, Invariant, PTL

\* The server implements ClientService: whatever the threads do between two
\* of their steps, each connection is accepted, made ready, served and closed
\* in this order; client_connected is called for every connection that is made
\* ready once the callbacks are registered; data is received only from served
\* connections; and a served one is closed only at its end and after its last
\* byte.
THEOREM ServerIsClientService == Spec => IsClientService
<1>1. Init => Service!Init
  <2> SUFFICES ASSUME Init
               PROVE  Service!Init
    OBVIOUS
  <2>1. opened = {} /\ data = {} /\ fin = {} /\ told = {} /\ callbacks = FALSE
    BY DEF Init, SocketInit, AccInit
  <2>2. \A c \in Conn : stage[c] = "none"
    <3>1. SocketTypeOK /\ Fresh
      BY InvInit DEF IInv, TypeInv, TypeOK, Ownership
    <3> QED BY <2>1, <3>1, StageIs DEF StageFacts
  <2>3. stage = [c \in Conn |-> "none"]
    <3>1. stage = [c \in Conn |-> stage[c]]
      BY DEF stage
    <3> HIDE DEF stage
    <3> QED BY <2>2, <3>1
  <2> QED BY <2>1, <2>3 DEF Service!Init
<1>2. IInv /\ IInv' /\ [Next]_vars => [Service!Next]_(Service!vars)
  <2> SUFFICES ASSUME IInv, IInv', [Next]_vars
               PROVE  Service!Next \/ UNCHANGED Service!vars
    OBVIOUS
  <2>1. ASSUME NEW c \in Conn, Peer(c)
        PROVE  Service!Next
    BY <2>1, PeerRefines DEF IInv, Ownership
  <2>2. CASE UNCHANGED vars
    BY <2>2, QuietStep DEF vars, socketVars, svcVars, listVars, accVars, ctrlVars
  <2> QED
    BY <2>1, <2>2, AcceptorRefines, ServiceRefines, MainRefines DEF Next
<1> QED BY <1>1, <1>2, Invariant, PTL DEF Spec, IsClientService, Service!Spec
=============================================================================
