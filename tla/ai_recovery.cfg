\* The OpenAI worker alone, as the polling worker is retired.
SPECIFICATION Spec
CONSTANTS
    Jobs = {j1}
    ApiSlots = {}
    OpenSlots = {o1}
    Classes = {"chat-light"}
    MaxAttempts = 1
    MaxQueued = 1
    MaxChunks = 1
    MaxLate = 0
PROPERTIES LostLeaseRecovered
