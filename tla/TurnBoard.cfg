SPECIFICATION Spec
CONSTANTS
    Bases = {b1, b2}
    Forecasts = {{b1, b2}}
    MaxTurn = 2
    MaxAsked = 3
    MaxOrders = 1
    MaxReloads = 1
    MaxLate = 2
    Keep = 1
    MaxOpen = 2
SYMMETRY Alike
CHECK_DEADLOCK FALSE
INVARIANTS CurrentInView
PROPERTIES SlotsMoveForward ClosedOnce
