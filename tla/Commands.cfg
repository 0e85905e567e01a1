CONSTANTS
    MaxCommands = 2
    MaxValue = 2
    Timeout = 3
    Margin = 2
    Lag = 1
    Kinds = {"manual", "macro"}
    Offered <- SilentAndSet
    MaxLines = 2
    MaxBacklog = 1
    MaxRx = 2
    Upsets = {"reject", "write"}
    MaxUpsets = 1
SPECIFICATION Spec
INVARIANTS
    TypeOK
    PreparedOwned
    SnapshotFaithful
PROPERTIES
    NoFalseEmergency
    OwnAnswer
