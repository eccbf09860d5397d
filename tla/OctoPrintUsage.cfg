CONSTANTS
    s1 = s1
    a = a
    b = b
    b1 = b1
    b2 = b2
    Slots = {s1}
    Spools = {a, b}
    NoSpool = NoSpool
    Bindings = {b1, b2}
    Home = b1
    None = None
    NoJob = NoJob
    NoPayload = NoPayload
    Outcomes = {"completed"}
    MaxJobs = 2
    MaxFed = 2
    MaxSequence = 3
    MaxChanges = 2
SPECIFICATION Spec
INVARIANTS TypeOK FilamentAccounted HeadTaken
PROPERTIES ClosedStays QueueMoves
CHECK_DEADLOCK FALSE
