CONSTANTS
    Documents = {1}
    Packages = {1}
    Sessions = {11, 12}
    DocumentOf <- OwnerByNumber
    MaxRuns = 2
    MaxPending = 32
    MaxAttempts = 0
    Late = {}
    Clicks = {"run", "pause", "resume", "stop"}
    MaxRequests = 2
    MaxActions = 2
    MaxFaults = 0
    Overtaking = TRUE
SPECIFICATION Spec
INVARIANTS
    RunAttributed
    BlockedIsCurrent
    SettledAgrees
CHECK_DEADLOCK FALSE
