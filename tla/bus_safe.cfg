\* An adapter that advertises safe_reexecution; crash, lease loss, an operator.
SPECIFICATION Spec
CONSTANTS
    Commands = {c1}
    Workers = {w1}
    Reconcilers = {r1}
    Nobody = Nobody
    MaxClaims = 2
    Budget = 2
    SafeReexecution = TRUE
    Faults = {"worker_crash", "lease_loss"}
    MaxVersion = 2
CHECK_DEADLOCK FALSE
INVARIANTS
    CompletedIsVerified
