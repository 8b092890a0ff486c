SPECIFICATION Spec
CONSTANTS
    c1 = c1
    c2 = c2
    c3 = c3
    a1 = a1
    a2 = a2
    o1 = o1
    NULL = NULL
    Conn = {c1, c2, c3}
    FD = {4, 5}
    Acceptor = {a1}
    Oversize = {c1}
    FirstAcceptor = a1
    Active = {}
    PeersClose = TRUE
    RegisterFirst = TRUE
    Ops = {}
INVARIANTS
    TypeOK
    AcceptAfterEpoll
    ListedOwnsFd
    RecvOwnSocket
PROPERTIES
    DataReceived
    EndedIsClosed
    IsClientService
CHECK_DEADLOCK FALSE
