\* A job over two media, two workers, two attempts; a synchronous batch sent twice.
SPECIFICATION FairSpec
CONSTANTS
    NoJob = NoJob
    j1 = j1
    k1 = k1
    Jobs = {j1}
    Media = {1, 2}
    Workers = {w1, w2}
    Keys = {k1}
    KeyAction <- MCKeyAction
    Callers = {c1, c2}
    MaxClaims = 1
    MaxAttempts = 2
    Scenes <- MCScenes
    MaxEdits = 1
INVARIANTS
    ItemsMatchJob
    ReplaySafe
PROPERTIES
    EveryJobSettles
CHECK_DEADLOCK FALSE
