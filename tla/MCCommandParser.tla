--------------------------- MODULE MCCommandParser ---------------------------
(* TLC instance of the command line: the tree of testapp.cpp with one of the *)
(* commands that differ in nothing but their name, one "no", and "show       *)
(* history" without its number (what it runs is any line anyway).  The .cfg  *)
(* gives three parameters a hook that testapp.cpp does not register: a       *)
(* validation (Checked), a list of values (Lister), "brief" (Brief).  What   *)
(* the library does for a parameter with one is so checked too; what it does *)
(* for one without, by the parameters beside them.                           *)
EXTENDS TestappCommands

CONSTANTS v1, v2

Left == {"dis_conn_accept", "disable_client_listen", "start", "connect",
         "remote_addr", "remote_port", "no_in_config", "N"}

MCParam == DOMAIN AllParent \ Left
MCNoCmd == AllNoCmd \ Left
MCLeaf == AllLeaf \ Left
MCHandler == AllHandler \ Left
MCHistory == AllHistory \ Left
MCparent == [p \in MCParam |-> AllParent[p]]
\* What is typed for a leaf is only compared.
Values == Permutations({v1, v2})
===============================================================================
