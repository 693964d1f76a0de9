SPECIFICATION Spec
CONSTANTS
    None = None
    Result = Result
    MaxSend = 4
    MaxDepth = 4
INVARIANTS IInv DataInOrder
\* A composed generator ends.
CHECK_DEADLOCK FALSE
