SPECIFICATION FairSpec
CONSTANTS
    Workers = {w1, w2}
    Agents = {a1}
    MaxId = 2
    MaxRun = 3
    Unstamped = {1}
    Deadlines = {TRUE, FALSE}
    MaxDepth = 1
    SettledMemory = 1
    RepairAttempts = 1
INVARIANTS OutcomeIsTrue
PROPERTIES BlockedIsReleased
