SPECIFICATION Spec
CONSTANTS
    Vendors = {v1, v2}
    Loop = loop
    Addrs = {a1, a2}
    MaxMsg = 2
    MaxConn = 2
    MaxNested = 1
    Kinds <- RaceKinds
    NULL = NULL
SYMMETRY Symmetry
INVARIANT LockHasReleaser
INVARIANT TimersLive
INVARIANT NitzAtMostOnce
CONSTRAINT ThreeInAll
CHECK_DEADLOCK FALSE
