\* One speech whose row is cancelled under the handler.
SPECIFICATION Spec
CONSTANTS
    Speeches = {s1}
    SpeechRetries = 1
    Restarts = 1
    NoSpeech = none
PROPERTIES
    CapacityReleased
CHECK_DEADLOCK FALSE
