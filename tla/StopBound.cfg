CONSTANTS
    MaxRuns = 1
    MaxGen = 1
    MaxClients = 0
    Lines = 1
    MaxRx = 2
    MaxBacklog = 2
    MaxFaults = 1
    Stalls = {"poll"}
    Errors = {}
    Upsets = {}
    Callers = {"stop"}
    LateEntry = FALSE
SPECIFICATION FairSpec
PROPERTIES
    StopCompletes
CHECK_DEADLOCK FALSE
