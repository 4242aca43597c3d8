\* A worker dies while its attempt is in flight.
SPECIFICATION FairSpec
CONSTANTS
    Commands = {c1}
    Workers = {w1}
    Reconcilers = {r1}
    Nobody = Nobody
    MaxClaims = 2
    Budget = 2
    SafeReexecution = FALSE
    Faults = {"worker_crash"}
    MaxVersion = 1
CHECK_DEADLOCK FALSE
PROPERTY
    InFlightResolved
