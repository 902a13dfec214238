SPECIFICATION Spec
CONSTANTS
    Issuers = {i1, i2}
    MaxOrders = 2
    MaxLines = 1
    Cap = 1
    MaxCrashes = 0
INVARIANT ReportedIsOwn
CHECK_DEADLOCK FALSE
