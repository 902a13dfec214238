SPECIFICATION FairSpec
CONSTANTS
    Dialogs <- Seen
    NoProgress = 13
    SilentLimit = 2
    BusyLimit = 2
    ViableByTurn = 2
    MaxTurn = 3
    Runs = {r1, r2}
    Unlabelled = {r2}
    MaxPasses = 2
    MaxMoves = 7
    Paths = {"alphax", "basenames", "readme", "save"}
    Rules = "alphax"
    Excluded = {"save"}
    ModTop = {"alphax", "readme"}
    ModNested = {"basenames"}
    Links <- LinkedFile
    MaxCommands = 5
    MaxSaves = 3
    MaxCaptures = 3
    Checkers = {c1, c2}
    Hosts <- HostKinds
    TooTight = 30
    MaxRestarts = 2
    Seeds = {1, 2, 3}
    LadderArms = {"brain"}
    Profiles = {"level", "handicap"}
    MaxPlayed = 4
CHECK_DEADLOCK FALSE
INVARIANTS ClearedInOneRound IgnoredIsSaid MetIsEarned
PROPERTIES DriverStops WorkSurvives StagedIsClean
