CONSTANTS
    Items = {1, 2, 3}
    Sources = {"s"}
    Values = {"v"}
    Observed <- MCObserved
    Tags = {"t"}
    Patterns = {"p"}
    Priorities = {"low", "high"}
    Providers = {"m1", "m2"}
    Protected = {3}
    Starts <- MCStarts
    Asks <- MCAsks
    Manual = "hand"
    Leave = "leave"
    MaxTimes = 2
    MaxRounds = 1
    MaxEdits = 1
    MaxFaults = 1
SPECIFICATION Spec
INVARIANTS IInv AskedIsThere UndisturbedIsExact RowsReadAsAsked
PROPERTIES LeavesUnasked
CHECK_DEADLOCK FALSE
