SPECIFICATION FairSpec
CONSTANTS
    Vendors = {v1}
    Loop = loop
    Addrs = {a1, a2, a3, a4}
    MaxMsg = 2
    MaxConn = 1
    MaxNested = 0
    Kinds <- LockKinds
    NULL = NULL
PROPERTY LockReleased
CHECK_DEADLOCK FALSE
