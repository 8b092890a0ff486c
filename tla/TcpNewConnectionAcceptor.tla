---------------------- MODULE TcpNewConnectionAcceptor ----------------------
(***************************************************************************)
(* The acceptor threads.  There is one per TcpNewConnectionAcceptor object *)
(* that was started, and none ever ends: StopTcpNewConnectionAcceptor-     *)
(* Thread has no caller.  Each object listens on a socket of its own, all  *)
(* on the same port.                                                       *)
(***************************************************************************)
EXTENDS TcpClientServiceManager

VARIABLES
    accPc,          \* where each acceptor thread is
    accepted,       \* the client it is handing over, or NULL
    told            \* history: the clients client_connected was called for

accVars == <<accPc, accepted, told>>

AccPC == {"unused", "created", "WaitUntilReady", "cond_wait", "listen", "accept",
          "client_connected", "AddClienttoDb", "BeginPush", "EndPush",
          "AddClientToEpoll"}

\* The threads that were started.
Running == {a \in Acceptor : accPc[a] \notin {"unused", "created"}}

\* Some acceptor listens, so a peer can connect.
Listening == \E a \in Running : accPc[a] \notin {"WaitUntilReady", "cond_wait", "listen"}

\* The first acceptor object, first, is made by the controller's constructor.
AccInit(first) ==
    /\ accPc = [a \in Acceptor |-> IF a = first THEN "created" ELSE "unused"]
    /\ accepted = [a \in Acceptor |-> NULL]
    /\ told = {}

StartTcpConnectionAcceptorThread(a) ==
    /\ accPc' = [accPc EXCEPT ![a] = "WaitUntilReady"]
    /\ UNCHANGED <<accepted, told>>

-----------------------------------------------------------------------------
(* The thread.                                                             *)

goto(a, here, there) == accPc[a] = here /\ accPc' = [accPc EXCEPT ![a] = there]

\* Mutant: the acceptor does not wait for the service thread.
NoWait(a) ==
    /\ goto(a, "WaitUntilReady", "listen")
    /\ UNCHANGED <<socketVars, client, fault, svcVars, accepted, told>>

\* while (!is_ready) pthread_cond_wait: the thread is a waiter until a
\* signal picks it, and looks at is_ready again.
WaitUntilReady(a) ==
    /\ \/ is_ready /\ goto(a, "WaitUntilReady", "listen") /\ UNCHANGED waiters
       \/ ~is_ready /\ goto(a, "WaitUntilReady", "cond_wait")
          /\ waiters' = waiters \cup {a}
    /\ UNCHANGED <<socketVars, client, fault, svcPc, epfd, is_ready, svc_client_db,
                   pushRaced, lost, loopVars, cancelled, accepted, told>>

Woken(a) ==
    /\ a \notin waiters
    /\ goto(a, "cond_wait", "WaitUntilReady")
    /\ UNCHANGED <<socketVars, client, fault, svcVars, accepted, told>>

Listen(a) ==
    /\ goto(a, "listen", "accept")
    /\ UNCHANGED <<socketVars, client, fault, svcVars, accepted, told>>

\* accept, and a new TcpClient for the connection.  (accept fails and is
\* tried again while no connection is queued or no descriptor is free.)
Accept(a) ==
    /\ \E c \in queued :
          /\ accept(c)
          /\ NewPassive(c, LowestFree)
          /\ accepted' = [accepted EXCEPT ![a] = c]
    /\ goto(a, "accept", "client_connected")
    /\ UNCHANGED <<fault, svcVars, told>>

\* Mutant: the client is handed over without the call.
ConnectedUntold(a, connected_set) ==
    /\ goto(a, "client_connected", "AddClienttoDb")
    /\ client' = [client EXCEPT ![accepted[a]].msgd = "set"]
    /\ UNCHANGED <<socketVars, fault, svcVars, accepted, told>>

\* client_connected is called if it is set, and the client gets its demarcar
\* either way.  The controller's constructor leaves the pointer as the heap
\* was: before registration it is NULL or garbage.
ClientConnected(a, connected_set) ==
    /\ accPc[a] = "client_connected"
    /\ \/ /\ goto(a, "client_connected", "AddClienttoDb")
          /\ told' = IF connected_set THEN told \cup {accepted[a]} ELSE told
          /\ client' = [client EXCEPT ![accepted[a]].msgd = "set"]
          /\ UNCHANGED fault
       \/ /\ ~connected_set
          /\ fault' = "client_connected is garbage"
          /\ UNCHANGED <<client, accPc, told>>
    /\ UNCHANGED <<socketVars, svcVars, accepted>>

AccTypeOK ==
    /\ accPc \in [Acceptor -> AccPC]
    /\ accepted \in [Acceptor -> Conn \cup {NULL}]
    /\ told \subseteq Conn
==============================================================================
