SPECIFICATION Spec
CONSTANTS
    Schedules = {1}
    Workers = {w1}
    Never = Never
    Hour = 2
    Day = 8
    Plans <- DailyPlans
    MaxOutage = 1
    MaxLag = 0
    MaxHazards = 0
PROPERTIES
    RunsAtAnchor
