\* No process dies; gateways answer in the provider's place. Every accepted command is settled.
SPECIFICATION FairSpec
CONSTANTS
    Commands = {c1}
    Workers = {w1, w2}
    Reconcilers = {r1}
    Nobody = Nobody
    MaxClaims = 2
    Budget = 2
    SafeReexecution = FALSE
    Faults = {"gateway"}
    MaxVersion = 1
CHECK_DEADLOCK FALSE
PROPERTIES
    EventuallySettled
    TransientIsRetried
