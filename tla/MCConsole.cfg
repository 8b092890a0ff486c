SPECIFICATION Spec
CONSTANTS
    MAX_SAVED_CMDS = 3
    Commands = {1, 2}
    Numbers = {0, 1}
    Typed <- MCTyped
    Histories <- MCHistories
    MaxTyped = 4
    MaxFrames = 4
    MaxRestarts = 1
INVARIANTS
    TypeOK
    HistoryIsLog
    RepeatRunsLast
CHECK_DEADLOCK FALSE
