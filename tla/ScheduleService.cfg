SPECIFICATION FairSpec
CONSTANTS
    Schedules = {1, 2}
    Workers = {w1, w2}
    Never = Never
    Hour = 2
    Day = 4
    Plans <- ServicePlans
    MaxOutage = 2
    MaxLag = 1
    MaxHazards = 1
ACTION_CONSTRAINT FirstIdleWakes
INVARIANTS
    IInv
    DoublesExplained
PROPERTIES
    MissedWindowRuns
    AlwaysServedAgain
