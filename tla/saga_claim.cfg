\* A saga worker that is slow between claim_saga and process_saga.
SPECIFICATION Spec
CONSTANTS
    Events = {e1}
    SagaWorkers = {w1, w2}
    RetryLimit = 2
    NoWorker = none
    NoEvent = none
PROPERTIES
    WritesOwnClaim
