SPECIFICATION Spec
CONSTANTS
    Vendors = {v1}
    Loop = loop
    Addrs = {a1, a2}
    MaxMsg = 2
    MaxConn = 0
    MaxNested = 0
    Kinds <- LockKinds
    NULL = NULL
SYMMETRY Symmetry
INVARIANT LockHeldUntilExit
CHECK_DEADLOCK FALSE
