\* Two accounts, two requests under way.
SPECIFICATION Spec
CONSTANTS
    Users = {u1, u2}
    Clients = {c1, c2}
    Tokens = {t1, t2, t3}
    Cookies = {k1, k2}
    MaxPasswords = 1
    MaxApps = 1
    MaxAudit = 2
    None = None
INVARIANTS
    AuditTellsStatus
    SessionsEndTogether
CHECK_DEADLOCK FALSE
SYMMETRY Symmetry
