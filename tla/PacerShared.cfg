SPECIFICATION FairSpec
CONSTANTS
    Units = {u1, u2}
    MaxWorkers = 2
    None = None
    MaxPages = 2
    MaxAttempts = 1
    MaxRetries = 1
    MinInterval = 1
    NoResetWait = 3
    Threshold = 2
    HeadroomPct = 50
    FairInterval = TRUE
    Cap = 4
    FetchDelay = 1
    Remainings = {2, 4}
    Resets = {2}
    Costs = {2}
    RetryAfters = {2}
    MaxLag = 1
INVARIANTS
    IInv
    SpendWithinCap
    StragglersBounded
PROPERTIES
    HeadroomOfTheRest
    PacedApart
    EveryUnitEnds
