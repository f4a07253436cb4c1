SPECIFICATION FairSpec
CONSTANTS
    Operator = Operator
    Poller = Poller
    Nobody = Nobody
    Beats = {beat1, beat2}
    Attempts = 2
    Orders = {"rearm"}
    MaxFaults = 1
    MaxClients = 2
    MaxConnects = 2
INVARIANTS
    NobodyCutOff
    BeatsWhileConnected
    CleanDisconnectIsSafe
PROPERTIES
    WatchdogDoesItsWork
CHECK_DEADLOCK FALSE
