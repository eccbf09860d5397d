CONSTANTS
    e1 = e1
    e2 = e2
    Edges = {e1, e2}
    None = None
    MaxConnectors = 3
    MaxCodes = 4
    MaxLives = 2
    MaxBatches = 2
    MaxOutbox = 2
SPECIFICATION Spec
INVARIANTS TypeOK EvidenceKept HeadTaken
PROPERTY PairingEvictsNobody
CHECK_DEADLOCK FALSE
