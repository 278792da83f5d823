SPECIFICATION Spec
CONSTANTS
    Units = {u1, u2}
    Workers = {w1, w2}
    NoUnit = NoUnit
    StaleKeys = {u1, u2}
    MaxAttempts = 1
    MaxCrashes = 1
    MaxRedeliveries = 1
    MaxFaults = 1
    MaxLostAcks = 1
    MaxRemovals = 1
    MaxExpiries = 1
    MaxHazards = 2
SYMMETRY Symmetry
INVARIANTS StoredOnce DoneMeansRecorded IInv
PROPERTIES FailedIsFinal Implements
CHECK_DEADLOCK FALSE
