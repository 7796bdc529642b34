\* A direct upload and a session of one key, two handlers, one loop, both stores.
SPECIFICATION FairSpec
CONSTANTS
    Direct = {d1}
    Sessions = {s1}
    Clients = {c1, c2}
    Workers = {w1}
    Backends = {"local", "s3"}
    Quota = 2
    MaxFaults = 1
INVARIANTS LedgerExact FailedSessionsLeaveNothing
PROPERTIES PayloadKept EverythingSettles
CHECK_DEADLOCK FALSE
