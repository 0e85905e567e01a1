CONSTANTS
    Documents = {1, 2}
    Packages = {}
    Sessions = {11, 21}
    DocumentOf <- OwnerByNumber
    MaxRuns = 2
    MaxPending = 32
    MaxAttempts = 1
    Late = {2}
    Clicks = {"run", "exit"}
    MaxRequests = 2
    MaxActions = 0
    MaxFaults = 0
    Overtaking = FALSE
SPECIFICATION FairSpec
INVARIANTS
    FrozenWhileShuttingDown
PROPERTIES
    RequestsEnd
CHECK_DEADLOCK FALSE
