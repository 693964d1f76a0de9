SPECIFICATION Spec
CONSTANTS
    Requests <- AnyRequest
    Handlers <- AnyHandler
    Compress = {TRUE, FALSE}
INVARIANTS IInv TimerGuardsRequest NothingLost AnsweredBeforeClosed
PROPERTIES WholeRequest ConnectionEnds
\* A connection ends.
CHECK_DEADLOCK FALSE
