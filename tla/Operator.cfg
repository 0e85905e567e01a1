CONSTANTS
    MaxRuns = 1
    MaxGen = 1
    MaxClients = 2
    Lines = 1
    MaxRx = 2
    MaxBacklog = 2
    MaxFaults = 0
    Stalls = {}
    Errors = {}
    Upsets = {}
    Callers = {"pause", "resume", "stop", "machineHold", "machineResume", "softReset"}
    LateEntry = FALSE
SPECIFICATION Spec
INVARIANTS
    OneWriter
PROPERTIES
    NoLineAfterStopReset
CHECK_DEADLOCK FALSE
