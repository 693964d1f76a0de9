SPECIFICATION ThreadsSpec
CONSTANTS
    ProcessThreads = {}
    TimerThreads = {t}
    OwnTimers = {o}
    Due <- EarlyDue
    Infinity = 3
INVARIANTS AddTimerIsSafe
\* The reactor may wait for ever once there is nothing to do.
CHECK_DEADLOCK FALSE
