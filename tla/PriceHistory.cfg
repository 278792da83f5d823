CONSTANTS
    Titles = {"a", "b"}
    Sources = {1}
    JSONSources = {1}
    Cats = {"card", "foil"}
    MaxPrice = 2
    MaxLen = 2
    Pages <- MCPages
    Criteria <- MCCriteria
    MaxRuns = 3
    MaxAnswers = 3
    Workers = 2
    MaxEdits = 1
    MaxFaults = 1
SPECIFICATION Spec
INVARIANTS IInv TracksVendor ChartTellsWhatWasSeen SparklineEndsAtLatest StatusFollowsRows
CHECK_DEADLOCK FALSE
