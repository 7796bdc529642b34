\* Three PUTs and a marker on one key, a retention that time may end.
SPECIFICATION Spec
CONSTANTS
    None = None
    Keys = {k1}
    Puts = {p1, p2, p3}
    Markers = {m1}
    Size <- MCSize
    Retentions <- Locks
    DefaultRetentions <- NoLocks
    Times = {0, 1}
INVARIANTS
    TypeOK
    HeadIsNewest
    NoncurrentMarksHistory
    GenerationsOrdered
    GcTasksExact
PROPERTIES
    OpaqueVersionsSurvivePuts
    LifecycleSpec
CHECK_DEADLOCK FALSE
SYMMETRY Symmetry
