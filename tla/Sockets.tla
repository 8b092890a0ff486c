------------------------------- MODULE Sockets -------------------------------
(***************************************************************************)
(* The part of the operating system the server stands on: connections, the *)
(* descriptor table, and one epoll set.  It is not in the repository; it   *)
(* is modelled from the calls the server makes.                            *)
(*                                                                         *)
(* Two facts matter.  accept hands out the lowest free descriptor number,  *)
(* so a number is used again as soon as it is closed.  And the epoll set   *)
(* is keyed by the number: a close takes the number out of the set, and    *)
(* EPOLL_CTL_DEL takes out whatever is registered under it now.            *)
(***************************************************************************)
EXTENDS Integers, FiniteSets

CONSTANTS
    Conn,           \* the connections peers may open
    FD,             \* the descriptor numbers left for connections
    NULL,
    PeersClose      \* whether peers end their connections

ASSUME FDAssumption == FD \subseteq Nat \ {0} /\ IsFiniteSet(FD)

VARIABLES
    opened,         \* connections ever opened
    queued,         \* those waiting in a listen backlog
    fdOf,           \* the descriptor table
    data,           \* connections with bytes to read
    fin,            \* connections whose peer has closed
    epoll           \* descriptor numbers in the epoll set

socketVars == <<opened, queued, fdOf, data, fin, epoll>>

SocketInit ==
    /\ opened = {} /\ queued = {} /\ data = {} /\ fin = {}
    /\ fdOf = [fd \in FD |-> NULL]
    /\ epoll = {}

Free == {fd \in FD : fdOf[fd] = NULL}
LowestFree == CHOOSE fd \in Free : \A other \in Free : fd <= other

\* What EPOLLIN reports.
Readable(fd) == fdOf[fd] \in data \cup fin

-----------------------------------------------------------------------------
(* Peers.                                                                  *)

PeerConnect(c) ==
    /\ c \notin opened
    /\ opened' = opened \cup {c}
    /\ queued' = queued \cup {c}
    /\ UNCHANGED <<fdOf, data, fin, epoll>>

PeerSend(c) ==
    /\ c \in opened \ (fin \cup data)
    /\ data' = data \cup {c}
    /\ UNCHANGED <<opened, queued, fdOf, fin, epoll>>

PeerClose(c) ==
    /\ PeersClose
    /\ c \in opened \ fin
    /\ fin' = fin \cup {c}
    /\ UNCHANGED <<opened, queued, fdOf, data, epoll>>

-----------------------------------------------------------------------------
(* System calls.                                                           *)

accept(c) ==
    /\ c \in queued /\ Free # {}
    /\ queued' = queued \ {c}
    /\ fdOf' = [fdOf EXCEPT ![LowestFree] = c]
    /\ UNCHANGED <<opened, data, fin, epoll>>

close(fd) ==
    /\ fdOf' = [fdOf EXCEPT ![fd] = NULL]
    /\ epoll' = epoll \ {fd}
    /\ UNCHANGED <<opened, queued, data, fin>>

\* ADD of a closed number fails; ADD of a registered one changes nothing.
epoll_add(fds) ==
    /\ epoll' = epoll \cup (fds \ Free)
    /\ UNCHANGED <<opened, queued, fdOf, data, fin>>

epoll_del(fd) ==
    /\ epoll' = epoll \ {fd}
    /\ UNCHANGED <<opened, queued, fdOf, data, fin>>

SocketTypeOK ==
    /\ opened \subseteq Conn /\ queued \subseteq opened
    /\ data \subseteq opened /\ fin \subseteq opened
    /\ fdOf \in [FD -> Conn \cup {NULL}]
    /\ epoll \subseteq FD \ Free
==============================================================================
