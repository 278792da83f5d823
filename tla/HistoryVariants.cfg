CONSTANTS
    Titles = {"a", "b"}
    Sources = {1}
    JSONSources = {1}
    Cats = {"card", "foil"}
    MaxPrice = 2
    MaxLen = 2
    Pages <- VariantPages
    Criteria <- MCCriteria
    MaxRuns = 3
    MaxAnswers = 3
    Workers = 2
    MaxEdits = 0
    MaxFaults = 0
SPECIFICATION Spec
INVARIANTS SkippedStillCount
CHECK_DEADLOCK FALSE
