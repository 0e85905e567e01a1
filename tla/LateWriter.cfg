CONSTANTS
    MaxRuns = 2
    MaxGen = 2
    MaxClients = 0
    Lines = 1
    MaxRx = 2
    MaxBacklog = 2
    MaxFaults = 2
    Stalls = {"line"}
    Errors = {}
    Upsets = {"alarm", "alarm50"}
    Callers = {"disconnect", "poll"}
    LateEntry = FALSE
SPECIFICATION Spec
INVARIANTS
    OneWriter
CHECK_DEADLOCK FALSE
