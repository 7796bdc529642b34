\* One event, two endpoints, two workers.
SPECIFICATION FairSpec
CONSTANTS
    Events = {e1}
    Endpoints = {x1, x2}
    Workers = {w1, w2}
    MaxAttempts = 2
    MaxReplays = 1
    MaxFaults = 1
    Nobody = Nobody
INVARIANTS
    DeliveredIsReceived
    DoneIsServed
PROPERTIES
    EveryDeliveryEnds
CHECK_DEADLOCK FALSE
