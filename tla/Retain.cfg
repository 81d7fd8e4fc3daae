SPECIFICATION FairSpec
CONSTANTS
    Topics = {t1, t2}
    t1 = t1
    t2 = t2
    Brokers = {b1, b2}
    b1 = b1
    b2 = b2
    Plans <- MCPlans
    MaxTasks = 1
    MaxFaults = 1
INVARIANTS FedIsShown OnlyReplacedLeaves
 
CHECK_DEADLOCK FALSE
