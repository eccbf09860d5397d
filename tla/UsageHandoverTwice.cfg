\* A takeover by a helper that has made its first segment of the print.
SPECIFICATION HandoverFairSpec
CONSTANTS
    Helpers = {a, b}
    None = None
    Observers = {a, b}
    Burst = 4
    MaxPrinted = 2
    MaxOutages = 1
    MaxRevoked = 0
    MaxTenures = 3
INVARIANTS
    NeverDeductTwice
CHECK_DEADLOCK FALSE
