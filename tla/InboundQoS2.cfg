SPECIFICATION FairSpec
CONSTANTS
    Brokers = {b1, b2}
    First = b1
    Ids = {1, 2}
    Levels = {1, 2}
    ReceiveMax = 1
    Dedupe = TRUE
    MaxMsgs = 2
    MaxConns = 2
    MaxFaults = 1
INVARIANTS AckedWasForwarded ForwardedOnce
PROPERTY Settled
CHECK_DEADLOCK FALSE
