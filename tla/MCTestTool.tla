----------------------------- MODULE MCTestTool -----------------------------
(* TLC instance of the test tool: a script that runs a script, and three    *)
(* results, of which any is reused.                                         *)
EXTENDS TestTool

CONSTANTS h1, h2, n1, n2, n3

MCHeads == <<h1, h2>>

\* One allocation is as good as another.
Results == Permutations({n1, n2, n3})
==============================================================================
