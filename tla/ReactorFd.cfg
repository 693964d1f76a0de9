SPECIFICATION Spec
CONSTANTS
    Files = {f1, f2, f3}
    Fds = {1, 2}
    Procs = {}
    TimerIds = {}
    Prios = {0}
    MAXPRIO = 1
    MaxDelay = 0
    MaxLate = 0
    MaxBad = 2
    None = None
SYMMETRY Symmetry
INVARIANTS IInv
PROPERTIES NoStaleCall ResumeKeepsContext
