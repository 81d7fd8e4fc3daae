SPECIFICATION FairSpec
CONSTANTS
    MaxId = 1
    Levels = {1, 2}
    Settings <- SettleSettings
    MaxConns = 2
PROPERTIES
    AllSettled
    SlotsReturn
CHECK_DEADLOCK FALSE
