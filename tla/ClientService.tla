---------------------------- MODULE ClientService ----------------------------
(***************************************************************************)
(* What the server promises about one connection, told without threads,    *)
(* lists or descriptors.  A connection is accepted, made ready, served and *)
(* closed.  The application is told of it (client_connected) when it is    *)
(* made ready, unless it has not registered its callbacks by then; so a    *)
(* connection it was not told of is never served, but for one made ready   *)
(* before the registration.  Data reaches the application only while the   *)
(* connection is served, and the end of a served connection is noticed     *)
(* only when all its data was received.                                    *)
(***************************************************************************)
CONSTANT Conn

VARIABLES
    stage,          \* of each connection
    told,           \* connections the application was told of
    registered,     \* the application has registered its callbacks
    unread,         \* connections with data the server has not received
    ended           \* connections whose peer has closed

vars == <<stage, told, registered, unread, ended>>

Stage == {"none", "queued", "accepted", "ready", "served", "closed"}

Init ==
    /\ stage = [c \in Conn |-> "none"] /\ told = {} /\ registered = FALSE
    /\ unread = {} /\ ended = {}

Change(c, from, to) ==
    stage[c] = from /\ stage' = [stage EXCEPT ![c] = to] /\ UNCHANGED <<unread, ended>>

Move(c, from, to) == Change(c, from, to) /\ UNCHANGED <<told, registered>>

\* The peer.
Connect(c) == Move(c, "none", "queued")
Send(c) ==
    /\ stage[c] # "none" /\ c \notin ended
    /\ unread' = unread \cup {c}
    /\ UNCHANGED <<stage, told, registered, ended>>
Close(c) ==
    /\ stage[c] # "none"
    /\ ended' = ended \cup {c}
    /\ UNCHANGED <<stage, told, registered, unread>>

\* The application.
Register ==
    /\ registered' = TRUE
    /\ UNCHANGED <<stage, told, unread, ended>>

\* The server.
Accept(c) == Move(c, "queued", "accepted")
\* A connection that was aborted meanwhile is announced all the same.
Announce(c) ==
    /\ registered
    /\ told' = told \cup {c}
    /\ Change(c, "accepted", "ready") \/ Change(c, "closed", "closed")
    /\ UNCHANGED registered
Skip(c) == ~registered /\ Move(c, "accepted", "ready")
Serve(c) == Move(c, "ready", "served")
Receive(c) ==
    /\ stage[c] = "served" /\ c \in unread
    /\ unread' = unread \ {c}
    /\ UNCHANGED <<stage, told, registered, ended>>
End(c) == c \in ended \ unread /\ Move(c, "served", "closed")

\* The service stops; connections that are not served may be cut off.
StopService ==
    /\ stage' = [c \in Conn |-> IF stage[c] = "served" THEN "ready" ELSE stage[c]]
    /\ UNCHANGED <<told, registered, unread, ended>>
Abort(c) == Move(c, "accepted", "closed") \/ Move(c, "ready", "closed")

Next ==
    \/ Register \/ StopService
    \/ \E c \in Conn :
          \/ Connect(c) \/ Send(c) \/ Close(c)
          \/ Accept(c) \/ Announce(c) \/ Skip(c) \/ Serve(c) \/ Receive(c)
          \/ End(c) \/ Abort(c)

Spec == Init /\ [][Next]_vars
==============================================================================
