\* Liveness with a state file that can be written.
SPECIFICATION FairSpec
CONSTANTS
    MaxOutbox = 2
    MaxSequence = 4
    MaxPrinted = 4
    MaxCrashes = 2
    SaveCanFail = FALSE
    NoCall = NoCall
INVARIANTS
    HeadNeverRefused
PROPERTIES
    Delivered
CHECK_DEADLOCK FALSE
