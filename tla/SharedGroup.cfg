SPECIFICATION GroupSpec
CONSTANTS
    Instances <- MCInstances
    Clients <- MCClients
    Brokers <- MCBrokers
    ClientOf <- MCClientOf
    Home <- MCHome
    First <- MCFirst
    MaxChanges = 2
    MaxRefreshes = 1
    MaxFaults = 1
INVARIANTS MemberHasBacklog LastLeaverEnds
CHECK_DEADLOCK FALSE
