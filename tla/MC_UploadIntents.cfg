\* Three PUTs that do not fit the quota together; the GC queue is not drained.
SPECIFICATION Spec
CONSTANTS
    i1 = i1
    i2 = i2
    i3 = i3
    None = None
    Intents = {i1, i2, i3}
    Workers = {}
    StorageKeys <- MCKeys
    MaxAttempts = 1
    Size <- MCSize
    Quota = 3
    Quotas = {2, 3}
INVARIANTS
    LedgerExact
    WithinQuota
CHECK_DEADLOCK FALSE
SYMMETRY Symmetry
