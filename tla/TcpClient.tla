------------------------------ MODULE TcpClient ------------------------------
(***************************************************************************)
(* TcpClient objects.  The acceptor creates one for each connection it     *)
(* accepts, CreateActiveAClient one for each outgoing connection.  The     *)
(* constructor sets neither comm_fd nor msgd: an active client keeps what  *)
(* the heap held.                                                          *)
(*                                                                         *)
(* A thread that follows a pointer it must not follow, or a call that      *)
(* cannot be, ends the process: fault says how, and nothing happens        *)
(* afterwards.                                                             *)
(***************************************************************************)
EXTENDS Sockets, Sequences, SequencesExt

CONSTANT Active         \* the clients CreateActiveAClient may create

Client == Conn \cup Active

ASSUME ClientAssumption == NULL \notin Client /\ Conn \cap Active = {}

VARIABLES client, fault

Flag == {"CONNECTED", "PASSIVE_OPENER", "ACTIVE_OPENER", "MULTIPLEX_LISTEN"}

Fault == {"Abort of a deleted or half-built client", "Display of a deleted client",
          "client_msg_recvd is not set", "client_connected is garbage",
          "acceptor uses a deleted service manager",
          "acceptor uses a deleted controller", "second Start",
          "Start without a fresh acceptor",
          "cancel of a thread that was never started",
          "lookup of a deleted server", "assertion in ~TcpServerController"}

Unused == [heap |-> "unused", comm_fd |-> 0, flags |-> {}, msgd |-> "NULL"]

ClientInit == client = [c \in Client |-> Unused] /\ fault = "none"

Live(c) == client[c].heap = "live"
Freed(c) == client[c].heap = "freed"

\* The client of an accepted connection: accept gave it the descriptor.
NewPassive(c, fd) ==
    client' = [client EXCEPT ![c] =
                  [Unused EXCEPT !.heap = "live", !.comm_fd = fd,
                                 !.flags = {"PASSIVE_OPENER", "CONNECTED"}]]

\* The client of an outgoing connection: fd and ptr are heap garbage, and
\* the CONNECTED flag does not depend on what connect returns.
NewActive(c, fd, ptr) ==
    client' = [client EXCEPT ![c] =
                  [Unused EXCEPT !.heap = "live", !.comm_fd = fd, !.msgd = ptr,
                                 !.flags = {"ACTIVE_OPENER", "CONNECTED"}]]

SetState(c, flag) == client' = [client EXCEPT ![c].flags = @ \cup {flag}]

delete(c) == client' = [client EXCEPT ![c].heap = "freed"]

\* Abort closes whatever number comm_fd holds, destroys the demarcar and
\* deletes the client.  The client is gone already, or its msgd is garbage:
\* the process does not survive.
Abort(c) ==
    IF Freed(c) \/ client[c].msgd = "garbage"
    THEN /\ fault' = "Abort of a deleted or half-built client"
         /\ UNCHANGED <<client, socketVars>>
    ELSE /\ IF client[c].comm_fd \in FD
            THEN close(client[c].comm_fd)
            ELSE UNCHANGED socketVars
         /\ delete(c)
         /\ UNCHANGED fault

Object == [heap : {"unused", "live", "freed"}, comm_fd : FD \cup {0},
           flags : SUBSET Flag, msgd : {"NULL", "set", "garbage"}]

ClientTypeOK ==
    /\ client \in [Client -> Object]
    /\ fault \in Fault \cup {"none"}
==============================================================================
