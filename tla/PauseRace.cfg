CONSTANTS
    MaxRuns = 1
    MaxGen = 1
    MaxClients = 1
    Lines = 1
    MaxRx = 2
    MaxBacklog = 2
    MaxFaults = 0
    Stalls = {}
    Errors = {}
    Upsets = {}
    Callers = {"pause", "resume"}
    LateEntry = FALSE
SPECIFICATION Spec
INVARIANTS
    NoSpuriousFailure
CHECK_DEADLOCK FALSE
