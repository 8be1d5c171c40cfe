CONSTANTS
    MaxConn = 3
    Strangers = {3}
    MaxReq = 2
    Kinds = {"unsupported", "inplace", "twice", "forward"}
    Addrs = {a1, a2}
    Fds = {1}
    Vendors = {v1}
    Loop = loop
    MaxDebug = 1
    ClientMayStall = TRUE
    NULL = NULL
    a1 = a1
    a2 = a2
    v1 = v1
SPECIFICATION FairSpec
INVARIANTS
    ListenOrServe
PROPERTIES
    Answered
    Served
CONSTRAINT FourInAll
