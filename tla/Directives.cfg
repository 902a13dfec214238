SPECIFICATION Spec
CONSTANTS
    Requests = {r1}
    Vocabulary <- Metrics
    RateOf <- Rates
    Survival = 9
    RelevanceLimit = 2
    MaxHops = 2
    Issuable <- Written
    Views <- Decisions
    Seed <- Seeded
    Separate = TRUE
    MaxTurn = 3
    MaxAsked = 3
    MaxRefusals = 1
    MaxCrashes = 1
CHECK_DEADLOCK FALSE
INVARIANTS RestartRestores StandingIsTold NearerShownFirst
