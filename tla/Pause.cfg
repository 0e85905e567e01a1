CONSTANTS
    MaxRuns = 1
    MaxGen = 1
    MaxClients = 1
    Lines = 2
    MaxRx = 2
    MaxBacklog = 2
    MaxFaults = 1
    Stalls = {}
    Errors = {"hold", "resume", "poll"}
    Upsets = {"alarm", "silent", "reject"}
    Callers = {"pause", "resume", "poll"}
    LateEntry = FALSE
SPECIFICATION FairSpec
INVARIANTS
    ExecutingImpliesReady
    PausedMachineHeld
PROPERTIES
    PauseSettles
    RunEnds
CHECK_DEADLOCK FALSE
