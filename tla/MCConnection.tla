---------------------------- MODULE MCConnection ----------------------------
(* TLC instance of one connection, for both builds: two-valued bytes, so     *)
(* that both header bytes count, payloads from empty to the longest length   *)
(* two such bytes can say, and two that a fixed size of 2 allows.            *)
EXTENDS TcpConnection

MCPayloads == {<<>>, <<1>>, <<0, 1>>, <<1, 0>>, <<1, 0, 1>>}
=============================================================================
