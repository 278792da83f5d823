SPECIFICATION Spec
CONSTANTS
    Providers = {p1, p2}
    Ids = {i1, i2}
    None = None
    Editors = {o1}
    Workers = {w1, w2}
    Batch = 1
    MaxRequests = 2
    MaxCopies = 1
    MaxCrashes = 0
INVARIANTS
    PinPrevails
