CONSTANTS
    e1 = e1
    e2 = e2
    Edges = {e1, e2}
    None = None
    MaxConnectors = 3
    MaxCodes = 3
    MaxLives = 1
    MaxBatches = 1
    MaxOutbox = 1
SPECIFICATION Spec
INVARIANT NewCodeWorks
CHECK_DEADLOCK FALSE
