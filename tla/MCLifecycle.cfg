SPECIFICATION Spec
CONSTANTS
    c1 = c1
    c2 = c2
    c3 = c3
    a1 = a1
    a2 = a2
    o1 = o1
    NULL = NULL
    Conn = {c1}
    FD = {4}
    Acceptor = {a1, a2}
    Oversize = {}
    FirstAcceptor = a1
    Active = {o1}
    PeersClose = TRUE
    RegisterFirst = FALSE
    Ops = {"Start", "Display", "StopClientSvcMgr", "Stop", "CreateActiveAClient", "StopConnectionAcceptingSvc", "StartConectionAcceptionSvc"}
INVARIANTS
    DeletedAfterExit
    DestructorAsserts
    FlagsMatchPointers
PROPERTIES
    StopReturns
    ServerListens
    IsClientService
CHECK_DEADLOCK FALSE
