SPECIFICATION Spec
CONSTANTS
    NULL = NULL
    h1 = h1
    h2 = h2
    n1 = n1
    n2 = n2
    n3 = n3
    Node = {h1, h2, n1, n2, n3}
    Heads <- MCHeads
    StepNo = {1}
    Match = {TRUE}
    MaxCmds = 2
SYMMETRY Results
INVARIANTS
    TypeOK
    ResultsOfCase
    OwnAnswer
    ConsolePrints
CHECK_DEADLOCK FALSE
