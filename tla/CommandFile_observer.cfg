SPECIFICATION SharedSpec
CONSTANTS
    Issuers = {i1, i2}
    Observers = {w1}
    MaxOrders = 2
    MaxLines = 2
    Cap = 1
    MaxCrashes = 1
INVARIANT ObserverPerturbsNothing
CHECK_DEADLOCK FALSE
