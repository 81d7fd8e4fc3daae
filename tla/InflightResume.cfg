SPECIFICATION Spec
CONSTANTS
    MaxId = 2
    Levels = {1, 2}
    Settings <- ResumeSettings
    MaxConns = 3
INVARIANTS
    ReceiveMaximumKept
    ResumeResends
    AtMostOnce
PROPERTIES
    CompletesItsOwn
CHECK_DEADLOCK FALSE
