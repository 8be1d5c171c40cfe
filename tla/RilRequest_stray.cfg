CONSTANTS
    MaxConn = 2
    Strangers = {}
    MaxReq = 1
    Kinds = {"forward"}
    Addrs = {a1}
    Fds = {1}
    Vendors = {v1}
    Loop = loop
    MaxDebug = 0
    ClientMayStall = FALSE
    NULL = NULL
    a1 = a1
    v1 = v1

SPECIFICATION Spec
SYMMETRY Symmetry
INVARIANTS
    NoStrayResponse
