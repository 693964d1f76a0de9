SPECIFICATION Spec
CONSTANTS
    root = root t = t u = u p = p c = c a = a b = b None = None
    Object = {root, t, u, p, c, a, b}
    Component = {root, t, u, p, c}
    Transparent = {t, u}
    Implementer = {a, b, c}
    Graphs <- Built
    Names = {"n"}
    InitialName <- Name
    Additions <- Add
    Renames <- Rename
    Senders = {root}
    MaxChanges = 1
    Deliveries = 2
INVARIANTS IInv OnceOnly InOrder AsWritten
PROPERTIES DeliveriesEnd
\* A program ends.
CHECK_DEADLOCK FALSE
