CONSTANTS
    Owner = o
    Survivors = {s1}
    Every = 2
    MinProbeTimeout = 1
    OwnerPingTimeout = 1
    Slack = 1
    MaxTime = 10
SPECIFICATION FenceSpec
INVARIANTS
    SilenceMeansClosed
PROPERTIES
    AdoptsOnlyClosed
CHECK_DEADLOCK FALSE
