SPECIFICATION Spec
CONSTANTS
    Workers = {w1, w2}
    Agents = {a1}
    MaxId = 3
    MaxRun = 1
    Unstamped = {}
    Deadlines = {TRUE}
    MaxDepth = 2
    SettledMemory = 2
    RepairAttempts = 1
INVARIANTS UnansweredIsAbandoned
