SPECIFICATION FairSpec
CONSTANTS
    Instances <- MCInstances
    Clients <- MCClients
    Brokers <- MCBrokers
    ClientOf <- MCClientOf
    Home <- MCHome
    First <- MCFirst
    MaxChanges = 2
    MaxFaults = 1
INVARIANTS HeldIsKept OwnedIsKept
PROPERTY EventuallySettled
CHECK_DEADLOCK FALSE
