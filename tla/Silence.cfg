CONSTANTS
    MaxCommands = 2
    MaxValue = 1
    Timeout = 3
    Margin = 2
    Lag = 1
    Kinds = {"manual", "unlock", "reset"}
    Offered <- LevelAndReset
    MaxLines = 1
    MaxBacklog = 1
    MaxRx = 2
    Upsets = {"write", "dead", "alarm50", "silentreset"}
    MaxUpsets = 1
SPECIFICATION FairSpec
INVARIANTS
    DeadNoticedInTime
PROPERTIES
    LeaseEnds
