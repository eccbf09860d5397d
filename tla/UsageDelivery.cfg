\* Safety: crashes, lost and late requests, and saves that fail.
SPECIFICATION Spec
CONSTANTS
    MaxOutbox = 2
    MaxSequence = 4
    MaxPrinted = 4
    MaxCrashes = 2
    SaveCanFail = TRUE
    NoCall = NoCall
INVARIANTS
    TypeOK
    LedgerInOrder
    EvidenceConserved
    DiskLoads
PROPERTIES
    ImplementsLedger
CHECK_DEADLOCK FALSE
