SPECIFICATION ClientsSpec
CONSTANTS
    None = None Requester = q Reader = h Mine = {g1, g2} g1 = g1 g2 = g2
    Client = {q, h, g1, g2}
    Programs <- AnyProgram
    Numbers = {1, 2, 3, 4}
    Options <- AnyOption
    MaxHandshakes = 2
    MaxRequests = 2
    Responses <- AnyResponse
    Incoming <- AnyIncoming
    MaxBlocks = 3
    MaxTimers = 1
INVARIANTS Watched CleanedUp Outcomes
PROPERTIES ClientsEnd
\* A program ends.
CHECK_DEADLOCK FALSE
