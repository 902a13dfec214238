SPECIFICATION Spec
CONSTANTS
    Bases = {b1}
    Forecasts = {{b1}}
    MaxTurn = 2
    MaxAsked = 2
    MaxOrders = 1
    MaxReloads = 0
    MaxLate = 1
    Keep = 2
    MaxOpen = 2
INVARIANT ResolvedOnItsBoard
CHECK_DEADLOCK FALSE
