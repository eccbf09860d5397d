\* Two routes, two prints, a save that fails, restarts at any time.
SPECIFICATION Spec
CONSTANTS
    Routes = {a, b}
    Files = {f, g}
    NoFile = NoFile
    NoRoute = NoRoute
    Native = Native
    NoTracker = NoTracker
    MaxUsed = 3
    MaxPrints = 2
    MaxEvents = 3
    MaxChanges = 2
    MaxUnsaved = 1
SYMMETRY Symmetry
INVARIANTS
    TypeOK
    NeverOvercharged
    SegmentsInOrder
    SteadyPrintCharged
PROPERTIES
    EvidenceKept
CHECK_DEADLOCK FALSE
