\* One PUT from start to GC, two cleanup workers, two attempts.
SPECIFICATION Spec
CONSTANTS
    i1 = i1
    i2 = i2
    i3 = i3
    None = None
    Intents = {i1}
    Workers = {w1, w2}
    StorageKeys <- MCKeys
    MaxAttempts = 2
    Size <- MCSize
    Quota = 3
    Quotas = {}
INVARIANTS
    ActivePayloadPresent
PROPERTIES
    OrphansMeetTheQueue
    EveryIntentEnds
CHECK_DEADLOCK FALSE
