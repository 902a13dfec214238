SPECIFICATION Spec
CONSTANTS
    f1 = f1
    f2 = f2
    nobody = nobody
    Factions = {f1, f2}
    Nobody = nobody
    MaxTurn = 2
    ruleA = ruleA
    ruleB = ruleB
    gap = gap
    unitA = unitA
    unitB = unitB
    Rules = {ruleA, ruleB}
    Cost <- Costs
    Views <- Asked
    QueryLabels = 2
    FactLimit = 0
    Budget = 0
    KeptTurns = 1
    Tactics = {lesson}
    Units = {unitA}
    RecallLimit = 2
    MaxIntents = 2
    MaxBoots = 2
    MaxClock = 2
    MaxServed = 2
    MaxOutages = 1
    Ceiling = 0
    Generous = 1
    Announcers = {a1}
    Deciders = {d1, d2}
    Absent = Absent
    energy = energy
    morale = morale
    buy = buy
    talk = talk
    fact = fact
    Metrics = {energy, morale}
    Pools = {energy}
    Actions = {buy, talk}
    Effect <- Effects
    Facts = {fact}
    Policies <- Floors
    BoardViews <- Boards
    Answers <- Replies
    Judges = {j1}
    Askers = {q1}
    MaxEpoch = 2
    MaxAnswered = 3
INVARIANT Reestablishes
CHECK_DEADLOCK FALSE
