\* One spool, two jobs, and a label that was first too low.
SPECIFICATION Spec
CONSTANTS
    Net = 3
    Label = 2
    Labels = {3}
    Openings = {0, 1}
    Statements = {1}
    Rates = {1}
    NoSegment = NoSegment
    MaxTime = 4
    MaxJobs = 2
    MaxRecords = 3
INVARIANTS
    TypeOK
    BalanceExact
    LedgerAdds
    EmptyHoldsNothing
    JobFact
CHECK_DEADLOCK FALSE
