CONSTANTS
    MaxRuns = 1
    MaxGen = 2
    MaxClients = 0
    Lines = 1
    MaxRx = 2
    MaxBacklog = 2
    MaxFaults = 1
    Stalls = {"reset"}
    Errors = {}
    Upsets = {"drop", "close"}
    Callers = {"stop", "disconnect"}
    LateEntry = FALSE
SPECIFICATION Spec
INVARIANTS
    StopOwnsRun
PROPERTIES
    ReadinessRegained
CHECK_DEADLOCK FALSE
