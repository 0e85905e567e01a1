CONSTANTS
    MaxRuns = 1
    MaxGen = 2
    MaxClients = 0
    Lines = 1
    MaxRx = 2
    MaxBacklog = 1
    MaxFaults = 2
    Stalls = {}
    Errors = {"poll"}
    Upsets = {"alarm", "alarm50", "drop", "open", "handshake"}
    Callers = {"disconnect", "poll"}
    LateEntry = FALSE
SPECIFICATION FairSpec
INVARIANTS
    TypeOK
    OwnerIsCurrentRun
    LifecycleOwned
PROPERTIES
    DeadLinkNoticed
CHECK_DEADLOCK FALSE
