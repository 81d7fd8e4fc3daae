SPECIFICATION Spec
CONSTANTS
    Settings <- MCSettings
INVARIANTS
    NameComesBack
    DeliveredAsMatched
    ReplayReadsAll
CHECK_DEADLOCK FALSE
