SPECIFICATION ThreadsSpec
CONSTANTS
    ProcessThreads = {p1, p2}
    TimerThreads = {t}
    OwnTimers = {o1, o2}
    Due <- EarlyDue
    Infinity = 3
INVARIANTS NoLostWakeUp
PROPERTIES AdditionsGetCalled
\* The reactor may wait for ever once there is nothing to do.
CHECK_DEADLOCK FALSE
