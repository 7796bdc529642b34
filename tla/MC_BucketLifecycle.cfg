\* Two PUTs, one marker, a day that passes, one rule set.
SPECIFICATION BucketSpec
CONSTANTS
    None = None
    Keys = {k1}
    Puts = {p1, p2}
    Markers = {m1}
    Size <- MCSize
    Retentions <- Locks
    DefaultRetentions <- NoLocks
    Times = {0, 4}
    RuleSets <- MCRuleSets
    Day = 2
    MaxRevision = 3
INVARIANTS
    HistoryConsistent
PROPERTIES
    OnlyDueVersionsExpire
    OnlyDueHeadsChange
    LockedVersionsLeaveOnlyByStalePut
    ComplianceNeverWeakens
CHECK_DEADLOCK FALSE
SYMMETRY Symmetry
