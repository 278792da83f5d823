SPECIFICATION FairSpec
CONSTANTS
    Units = {u1, u2}
    Workers = {w1, w2}
    NoUnit = NoUnit
    StaleKeys = {}
    MaxAttempts = 1
    MaxCrashes = 0
    MaxRedeliveries = 0
    MaxFaults = 1
    MaxLostAcks = 0
    MaxRemovals = 0
    MaxExpiries = 0
    MaxHazards = 1
PROPERTY LastJobCloses
CHECK_DEADLOCK FALSE
