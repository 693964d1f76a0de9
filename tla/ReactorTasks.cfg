SPECIFICATION FairSpec
CONSTANTS
    Files = {f1}
    Fds = {1}
    Procs = {p1}
    TimerIds = {t1, t2}
    Prios = {0, 1}
    MAXPRIO = 2
    MaxDelay = 1
    MaxLate = 1
    MaxBad = 0
    None = None
PROPERTIES TimersInOrder Served
