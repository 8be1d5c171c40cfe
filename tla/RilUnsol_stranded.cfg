SPECIFICATION FairSpec
CONSTANTS
    Vendors = {v1}
    Loop = loop
    Addrs = {a1, a2, a3}
    MaxMsg = 1
    MaxConn = 1
    MaxNested = 0
    Kinds <- NitzKinds
    NULL = NULL
PROPERTY KeptIsDelivered
CHECK_DEADLOCK FALSE
