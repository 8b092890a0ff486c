-------------------------- MODULE TestappCommands --------------------------
(***************************************************************************)
(* The command tree of testapp.cpp: the hooks of init_libcli that matter   *)
(* here (show, show history, config), and what tcp_build_cli registers     *)
(* below them.  "config" and "config tcp-server <name>" support negation.  *)
(***************************************************************************)
EXTENDS CommandParser

HookParent ==
    [root |-> NULL, do_hook |-> NULL, config |-> "root", show |-> "root",
     history |-> "show", N |-> "history"]

ConfigParent ==
    [tcp_server |-> "config", tcp_server_name |-> "tcp_server",
     dis_conn_accept |-> "tcp_server_name",
     disable_client_listen |-> "tcp_server_name", stop |-> "tcp_server_name",
     tcp_server_addr |-> "tcp_server_name", tcp_server_port |-> "tcp_server_addr",
     start |-> "tcp_server_name", connect |-> "tcp_server_name",
     remote_addr |-> "connect", remote_port |-> "remote_addr",
     no_in_server |-> "tcp_server_name", no_in_config |-> "config"]

ShowParent ==
    [show_tcp_server |-> "show", show_tcp_server_name |-> "show_tcp_server"]

AllParent == HookParent @@ ConfigParent @@ ShowParent
AllLeaf == {"N", "tcp_server_name", "tcp_server_addr", "tcp_server_port",
            "remote_addr", "remote_port", "show_tcp_server_name"}
AllNoCmd == {"no_in_server", "no_in_config"}
AllHandler ==
    {"config", "history", "N", "tcp_server_name", "dis_conn_accept",
     "disable_client_listen", "stop", "tcp_server_port", "start", "remote_port",
     "show_tcp_server_name"} \cup AllNoCmd
AllHistory == {"history", "N"}
==============================================================================
