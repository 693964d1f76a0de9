SPECIFICATION Spec
CONSTANTS
    Requests <- AnyRequest
    Responses <- AnyResponse
    MaxHandshakes = 3
    None = None
INVARIANTS IInv NothingLeftBehind ReadToItsEnd
PROPERTIES RetriedUnanswered RequestEnds
\* A request ends.
CHECK_DEADLOCK FALSE
