\* A takeover in the middle of a print.
SPECIFICATION HandoverFairSpec
CONSTANTS
    Helpers = {a, b}
    None = None
    Observers = {a}
    Burst = 4
    MaxPrinted = 2
    MaxOutages = 1
    MaxRevoked = 0
    MaxTenures = 3
PROPERTIES
    QueueDrains
CHECK_DEADLOCK FALSE
