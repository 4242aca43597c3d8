\* One operator mutation against two workers that lose leases or die.
SPECIFICATION Spec
CONSTANTS
    Commands = {c1}
    Workers = {w1, w2}
    Reconcilers = {r1}
    Nobody = Nobody
    MaxClaims = 2
    Budget = 1
    SafeReexecution = FALSE
    Faults = {"lease_loss", "worker_crash"}
    MaxVersion = 2
CHECK_DEADLOCK FALSE
SYMMETRY Symmetry
INVARIANTS
    CancelledHasNoEffect
PROPERTIES
    FinalStatesStay
    KeepsPromise
