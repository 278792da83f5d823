SPECIFICATION FairSpec
CONSTANTS
    Units = {u1, u2}
    Workers = {w1, w2}
    NoUnit = NoUnit
    StaleKeys = {}
    MaxAttempts = 1
    MaxCrashes = 0
    MaxRedeliveries = 1
    MaxFaults = 0
    MaxLostAcks = 0
    MaxRemovals = 0
    MaxExpiries = 1
    MaxHazards = 1
INVARIANTS NoUnitLost CountersExact
PROPERTIES DoneIsFinal RunCloses
CHECK_DEADLOCK FALSE
