\* Three helpers of one printer; the observations of c are refused.
SPECIFICATION HandoverFairSpec
CONSTANTS
    Helpers = {a, b, c}
    None = None
    Observers = {a, b}
    Burst = 1
    MaxPrinted = 2
    MaxOutages = 1
    MaxRevoked = 1
    MaxTenures = 3
INVARIANTS
    HandoverTypeOK
    OncePerTenure
PROPERTIES
    FollowsRule
    NoGapInJob
    SecondDrains
CHECK_DEADLOCK FALSE
