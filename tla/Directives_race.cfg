SPECIFICATION Spec
CONSTANTS
    Requests = {r1, r2}
    Vocabulary <- Metrics
    RateOf <- Rates
    Survival = 9
    RelevanceLimit = 2
    MaxHops = 2
    Issuable <- Brief
    Views <- Decisions
    Seed <- Seeded
    Separate = FALSE
    MaxTurn = 2
    MaxAsked = 3
    MaxRefusals = 1
    MaxCrashes = 0
PROPERTIES KeptUntilHorizon
CHECK_DEADLOCK FALSE
