SPECIFICATION SuspendSpec
CONSTANTS
    Suspends = {s1, s2, s3}
    WithTimeout = {s1, s2}
    NoSuspend = NoSuspend
INVARIANTS SuspendOK NoOrphan TakenIsKept
PROPERTIES WokenByCurrent EndsInTime
\* The program ends, or the loop does.
CHECK_DEADLOCK FALSE
