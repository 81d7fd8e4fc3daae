SPECIFICATION Spec
CONSTANTS
    Brokers = {b1, b2}
    First = b1
    Filters = {f}
    MaxConns = 2
    Ephemeral = {2}
    ClaimAttempts = 2
    MaxChanges = 2
    MaxFaults = 1
INVARIANT OneRegistered
PROPERTIES RestoresAcked NoStalePosition SweepSpares Implements
CHECK_DEADLOCK FALSE
