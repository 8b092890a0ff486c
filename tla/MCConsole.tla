----------------------------- MODULE MCConsole -----------------------------
(* TLC instance of the console: a line of each kind, the number of the first *)
(* line of the history, and histories an earlier process may have left.      *)
EXTENDS Console

MCTyped == {Text("tree", 1), Text("number", 0), Text("number", 1), Blank} \cup
           {Text(kind, 0) : kind \in {"ambiguous", "long", "repeat",
                                      "show history", "config load"}}

MCHistories == {<<>>} \cup {<<Text("tree", 2), Text(kind, 0)>> :
                               kind \in {"show history", "ambiguous"}}
============================================================================
