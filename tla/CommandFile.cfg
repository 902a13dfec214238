SPECIFICATION SharedSpec
CONSTANTS
    Issuers = {i1, i2}
    Observers = {w1}
    MaxOrders = 2
    MaxLines = 3
    Cap = 2
    MaxCrashes = 2
CHECK_DEADLOCK FALSE
INVARIANTS NeverSuccessOnSilence CreditedOnce NeverReplayed
PROPERTIES EveryOrderAnswered
