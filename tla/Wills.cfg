CONSTANTS
    Brokers = {b1, b2}
    First = b1
    MaxConns = 2
    Delayed = {1}
    MaxFaults = 1
SPECIFICATION FairSpec

    
    
PROPERTIES
    ResumptionSilences
    EveryWillSeenTo
CHECK_DEADLOCK FALSE
