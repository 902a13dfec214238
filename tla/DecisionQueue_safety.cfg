SPECIFICATION Spec
CONSTANTS
    Workers = {w1, w2}
    Agents = {a1, a2}
    MaxId = 3
    MaxRun = 2
    Unstamped = {}
    Deadlines = {TRUE}
    MaxDepth = 2
    SettledMemory = 1
    RepairAttempts = 0
SYMMETRY Interchangeable
INVARIANTS LiveHasWaiter LiveOfOneRun NoSleeperBesideWork TruthfulRefusal
PROPERTIES KeepsLedger
