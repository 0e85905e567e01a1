CONSTANTS
    MaxRuns = 1
    MaxGen = 2
    MaxClients = 0
    Lines = 1
    MaxRx = 2
    MaxBacklog = 2
    MaxFaults = 1
    Stalls = {}
    Errors = {}
    Upsets = {"alarm50"}
    Callers = {"disconnect"}
    LateEntry = TRUE
SPECIFICATION Spec
INVARIANTS
    NormalMeansAtRest
CHECK_DEADLOCK FALSE
