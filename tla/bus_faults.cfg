\* No operator: every fault, two workers and two reconcilers race.
SPECIFICATION Spec
CONSTANTS
    Commands = {c1}
    Workers = {w1, w2}
    Reconcilers = {r1, r2}
    Nobody = Nobody
    MaxClaims = 3
    Budget = 2
    SafeReexecution = FALSE
    Faults = {"worker_crash", "recon_crash", "lease_loss", "preflight", "gate", "denial"}
    MaxVersion = 1
CHECK_DEADLOCK FALSE
SYMMETRY Symmetry
INVARIANTS
    NoBlindResend
    InDoubtNotClaimable
    CompletedRowIsClosed
    IInv
