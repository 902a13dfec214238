SPECIFICATION Spec
CONSTANTS
    Requests = {r1, r2}
    Keys = {k1}
    Tribute = {k1}
    Actions = {comply, other}
    Comply = comply
    EndTurn = other
    MaxTurn = 2
    MaxMetric = 1
    MaxRepairs = 1
    MaxInstalls = 2
    k1 = k1
    comply = comply
    other = other
    Asked <- MCAsked
CHECK_DEADLOCK FALSE
INVARIANTS StandingStands DegradedIsHonest WokenWithReason
PROPERTIES ReplyComesNearer
