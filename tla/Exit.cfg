CONSTANTS
    Documents = {1, 2}
    Packages = {}
    Sessions = {11, 21}
    DocumentOf <- OwnerByNumber
    MaxRuns = 1
    MaxPending = 32
    MaxAttempts = 1
    Late = {2}
    Clicks = {"run", "close", "exit"}
    MaxRequests = 1
    MaxActions = 0
    MaxFaults = 1
    Overtaking = FALSE
SPECIFICATION FairSpec
INVARIANTS
    TypeOK
    CloseTracked
    FrozenWhileShuttingDown
PROPERTIES
    ImplementsSafeExit
    RequestsEnd
CHECK_DEADLOCK FALSE
