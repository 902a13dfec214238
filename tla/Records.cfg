SPECIFICATION Spec
CONSTANTS
    d1 = d1
    d2 = d2
    Deciders = {d1, d2}
    Surfaces = {"base.production", "faction.strategy_review"}
    Shapes <- MCShapes
    Seeded = {"old"}
    MaxTurn = 2
    MaxTaken = 3
    MaxBoots = 2
    MaxFaults = 1
    Factions = {1, 2}
    Ours = 1
    Setups <- MCSetups
    Offsets = {1, 2}
    LastTurn = 4
    MaxLines = 3
    MinTurns = 1
SYMMETRY MCSymmetry
CHECK_DEADLOCK FALSE
INVARIANTS LossIsBounded FunnelCountsOnce ReportersAgree SeriesIsHonest
