CONSTANTS
    Workers = {w1, w2}
    Idle = 2
    WriteInterval = 1
    MinInterval = 2
    UpdateInterval = 2
    MaxItems = 2
    MaxAdd = 2
    MaxLag = 2
    Nobody = Nobody
    MaxTime = 7
    MaxFaults = 1
    MaxRestarts = 1
SPECIFICATION Spec
INVARIANTS IInv NeverUnderActive FreshWhenDue CapsBounded
PROPERTIES GatesHold
CHECK_DEADLOCK FALSE
