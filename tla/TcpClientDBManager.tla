-------------------------- MODULE TcpClientDBManager --------------------------
(***************************************************************************)
(* The controller's list of clients.  The acceptor adds to it and the main *)
(* thread displays and purges it.  No operation takes one client out, so   *)
(* the list keeps clients that the service thread has deleted.             *)
(***************************************************************************)
EXTENDS TcpClient

VARIABLE tcp_client_db

DbInit == tcp_client_db = <<>>

\* list::remove takes every copy of an item out and keeps the others in their
\* order.
remove(list, item) ==
    LET kept[i \in 0 .. Len(list)] ==
            IF i = 0 THEN <<>>
            ELSE IF list[i] = item THEN kept[i - 1]
            ELSE Append(kept[i - 1], list[i])
    IN  kept[Len(list)]

AddClienttoDb(c) == tcp_client_db' = Append(tcp_client_db, c)

\* Every client of the list is dereferenced.
DisplayClientDb ==
    /\ fault' = IF \E c \in ToSet(tcp_client_db) : Freed(c)
                THEN "Display of a deleted client" ELSE fault
    /\ UNCHANGED <<socketVars, client, tcp_client_db>>

\* One iteration of Purge's loop: the first client is removed, then aborted.
PurgeOne ==
    /\ tcp_client_db # <<>>
    /\ tcp_client_db' = remove(tcp_client_db, Head(tcp_client_db))
    /\ Abort(Head(tcp_client_db))

DbTypeOK == tcp_client_db \in Seq(Client)
==============================================================================
