\* Two n8n dispatch workers or two telephony workers, one fault, late and repeated callbacks.
SPECIFICATION AllSpec
CONSTANTS
    Execs = {x1}
    N8nWorkers = {w1, w2}
    N8nAttempts = 2
    N8nFaults = 1
    N8nCallbacks = 2
    Deliveries = {1, 2}
    OdooWorkers = {o1}
    DeliveryLimit = 1
    BadBodies = {}
    OdooPauses = 0
    Commands = {1}
    TelWorkers = {w1, w2}
    TelAttempts = 2
    TelFaults = 1
    TelResults = 1
    TelAnnounced = 2
INVARIANTS
    RunsAreAttempts
    RetriesAccounted
    OwnerDispatchesOnce
    JournalFollowsAdapter
PROPERTIES
    SettledStays
    EveryExecutionEnds
    EveryCommandSettles
CHECK_DEADLOCK FALSE
