\* The breaker, the campaign saga, the leads, the speech streams, the deliveries to Odoo.
SPECIFICATION AllSpec
CONSTANTS
    Threshold = 5
    MaxProbes = 1
    Unrecorded = {"CLOSED", "HALF_OPEN"}
    MaxFailures = 7
    Events = {e1}
    SagaWorkers = {w1, w2}
    RetryLimit = 2
    NoWorker = none
    NoEvent = none
    Leads = {1}
    LeadWorkers = {w1, w2}
    LeadTries = 2
    LeadMishaps = 1
    Speeches = {s1, s2}
    SpeechRetries = 1
    Restarts = 1
    NoSpeech = none
    Deliveries = {1, 2}
    OdooWorkers = {o1, o2}
    DeliveryLimit = 2
    BadBodies = {2}
    OdooPauses = 1
INVARIANTS
    TypesOK
    CountDecides
    KeyDurableFirst
    DeliveredIsApplied
    OneStream
    StartedOnce
    DeliveredIsAccepted
PROPERTIES
    FinalStays
    TransportRetryKeepsKey
    DoneStays
    EverySagaEnds
    WaitingLeadTaken
    SlotReturned
    DeliveryEnds
CHECK_DEADLOCK FALSE
