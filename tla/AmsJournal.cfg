CONSTANTS
    i1 = i1
    i2 = i2
    x = x
    y = y
    Identities = {i1, i2}
    Feeds = {x, y}
    None = None
    SlotCount = 3
    MaxLimit = 2
    MaxSequence = 5
    MaxQueued = 2
    MaxBoots = 2
SPECIFICATION Spec
INVARIANTS TypeOK HistoryKept AllStatesCounted PageExact
CHECK_DEADLOCK FALSE
