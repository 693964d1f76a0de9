SPECIFICATION Spec
CONSTANTS
    None = None
    Result = Result
    NULL = NULL
    MaxSend = 3
    MaxDepth = 4
    QUEUE_SIZE = 4
    INITIAL_STACK_SIZE = 2
    MAX_STACK_SIZE = 3
INVARIANTS StorageBounds
PROPERTIES ImplementsCompose
\* A composed generator ends.
CHECK_DEADLOCK FALSE
