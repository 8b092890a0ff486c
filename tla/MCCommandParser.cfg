SPECIFICATION Spec
CONSTANTS
    NULL = NULL
    v1 = v1
    v2 = v2
    Value = {v1, v2}
    Param <- MCParam
    Leaf <- MCLeaf
    NoCmd <- MCNoCmd
    Handler <- MCHandler
    Checked = {"tcp_server_port"}
    Lister = {"show_tcp_server"}
    Brief = {"show_tcp_server_name"}
    History <- MCHistory
    parent <- MCparent
    root = "root"
    do_hook = "do_hook"
    config = "config"
    DoOptions = {"show"}
    TLV_MAX_BUFFER_SIZE = 2
    MaxFrames = 3
    MaxKept = 2
SYMMETRY Values
INVARIANTS
    TypeOK
    PromptBuffer
    HandlerSeesPath
    PromptShowsCursor
CHECK_DEADLOCK FALSE
