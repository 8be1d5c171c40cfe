CONSTANTS
    MaxConn = 2
    Strangers = {}
    MaxReq = 2
    Kinds = {"short", "unsupported", "invalid", "inplace", "twice", "forward", "large"}
    Addrs = {a1, a2}
    Fds = {1, 2}
    Vendors = {v1, v2}
    Loop = loop
    MaxDebug = 0
    ClientMayStall = FALSE
    NULL = NULL
    a1 = a1
    a2 = a2
    v1 = v1
    v2 = v2
SPECIFICATION Spec
SYMMETRY Symmetry
INVARIANTS
    OneOwner
    AnsweredOnce
    OldCancelled
CONSTRAINT OneOdd
