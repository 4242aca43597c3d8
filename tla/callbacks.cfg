\* One callback, the scheduler, and a popup worker that may die.
SPECIFICATION Spec
CONSTANTS
    Calls = {c1}
    PopWorkers = {p1}
    Channels = {"POPUP"}
    ReportedStages = {"DUE"}
    MaxChanges = 1
INVARIANTS
    NoObsoletePopup
    TerminalIsQuiet
PROPERTIES
    DeliveredStays
    EveryCallbackAttended
CHECK_DEADLOCK FALSE
