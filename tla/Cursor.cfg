SPECIFICATION FairSpec
CONSTANTS
    Filters = {f1}
    f1 = f1
    MaxSeq = 3
    MaxConns = 2
    MaxRequests = 2
    QueueDepth = 1
    MaxReplayHoles = 1
    CursorIDBound = 1
    CursorScanAfter = 1
ACTION_CONSTRAINT Paced
CONSTRAINT ThreeMessagesOrTwoConnections
INVARIANTS NothingOwedSkipped HeldNotPassed ResumeLosesNothing
PROPERTIES ReadNeverRepeats TurnedAwayIsSent PinReleased
CHECK_DEADLOCK FALSE
