SPECIFICATION FairSpec
CONSTANTS
    Settings <- MCSettings
    QueueDepth = 2
    DeliveredSeqWindow = 1
    RouteOutlasts = FALSE
INVARIANTS
    NothingTwice
    NothingOvertaken
PROPERTIES
    MissedAreSent
CHECK_DEADLOCK FALSE
