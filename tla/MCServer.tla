------------------------------- MODULE MCServer -------------------------------
(* TLC instances of the threaded server.                                     *)
EXTENDS TcpServerController

CONSTANTS c1, c2, c3, a1, a2, o1
===============================================================================
