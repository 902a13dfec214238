SPECIFICATION Spec
CONSTANTS
    Workers = {w1, w2}
    Agents = {a1}
    MaxId = 3
    MaxRun = 2
    Unstamped = {}
    Deadlines = {FALSE}
    MaxDepth = 2
    SettledMemory = 2
    RepairAttempts = 1
PROPERTIES OnlyDeadRunsRetired
