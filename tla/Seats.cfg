SPECIFICATION Spec
CONSTANTS
    Unset = Unset
    Junk = Junk
    RawAttempts = {Unset, 0, 3}
    Legal = {a}
    Illegal = {z}
    a = a
    z = z
    MaxRepairs = 1
    MaxDecisions = 2
    SeatActions = {"x", "y"}
    EngineLimits = {0, 2, 8}
    Timeouts = {0, 3}
    Margin = 4
    Delays = {0, 3}
    Spends = {0, 3}
    SeatRepairs = 1
    MaxRequests = 2
    MaxPosts = 3
    Decisions = {d1, d2, d3}
    d1 = d1
    d2 = d2
    d3 = d3
    Pollers = {p1}
    p1 = p1
    Capacity = 2
    TrimFactor = 2
    Batch = 1
    MaxReports = 5
    MaxLives = 2
    Desks = {e1, e2}
    e1 = e1
    e2 = e2
    Menu = {"x"}
    Waits = {0, 9}
    WaitCap = 1
    HttpTimeout = 3
    Slack = 1
    MaxOpened = 2
    MaxServices = 2
SYMMETRY DeskSymmetry
CHECK_DEADLOCK FALSE
INVARIANTS EveryAttemptIsMetered GivesUpFirst SubmittersHear PassedIsHeard ClaimIsHeard
