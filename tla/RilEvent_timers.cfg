CONSTANTS
    NULL = NULL
    FdEvents = {wake, listen}
    WakeEvent = wake
    Persistent = {wake}
    TimerEvents = {t1, t2, t3}
    Threads = {a, b}
    Fds = {0, 1}
    MaxFdEvents = 1
    Delays = {0, 1, 2}
    MaxTime = 3
    SelectMayFail = TRUE
SPECIFICATION Spec
SYMMETRY Symmetry
INVARIANTS
    NoLostWakeup
    TimersInOrder
