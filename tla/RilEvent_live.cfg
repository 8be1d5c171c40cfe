CONSTANTS
    NULL = NULL
    FdEvents = {wake, listen, commands}
    WakeEvent = wake
    Persistent = {wake, commands}
    TimerEvents = {t1}
    Threads = {a}
    Fds = {0, 1, 2}
    MaxFdEvents = 3
    Delays = {0}
    MaxTime = 1
    SelectMayFail = FALSE
SPECIFICATION FairSpec
INVARIANTS
    TableInv
    NoDroppedAdd
    FiredOnce
PROPERTIES
    ReadyServed
    TimerServed
