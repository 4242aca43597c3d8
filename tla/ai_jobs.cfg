SPECIFICATION Spec
CONSTANTS
    Jobs = {j1}
    ApiSlots = {a1, a2}
    OpenSlots = {o1}
    Classes = {"chat-light"}
    MaxAttempts = 3
    MaxQueued = 1
    MaxChunks = 2
    MaxLate = 2
INVARIANTS AttemptsBounded CompletionIsUnique RoundSettles
PROPERTIES CancelWins WritesAreFenced
