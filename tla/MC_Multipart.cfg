\* A stored part that another upload replaces, and two completion attempts.
SPECIFICATION StagedSpec
CONSTANTS
    p1 = p1
    p2 = p2
    p3 = p3
    None = None
    Staged = {p2}
    Puts = {p1, p2}
    PartNumber <- MCPartNumber
    Tag <- MCTag
    Size <- MCSize
    Completers = {c1, c2}
    MinPart = 1
    MaxUpload = 2
    Quota = 3
INVARIANTS
    AcknowledgedPartsKept
    CompletedIsWhole
    OneVersion
    LedgerExact
PROPERTIES
    Settles
CHECK_DEADLOCK FALSE
