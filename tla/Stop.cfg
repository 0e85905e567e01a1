CONSTANTS
    MaxRuns = 1
    MaxGen = 1
    MaxClients = 0
    Lines = 1
    MaxRx = 2
    MaxBacklog = 2
    MaxFaults = 2
    Stalls = {"hold", "reset"}
    Errors = {"hold", "reset"}
    Upsets = {"alarm", "alarm50", "restart"}
    Callers = {"stop"}
    LateEntry = FALSE
SPECIFICATION FairSpec
INVARIANTS
    NormalMeansAtRest
PROPERTIES
    ReadinessRegained
    StopCompletes
    ReadinessSettles
CHECK_DEADLOCK FALSE
