CONSTANTS
    MaxCommands = 3
    MaxValue = 2
    Timeout = 3
    Margin = 2
    Lag = 1
    Kinds = {"manual","reset"}
    Offered <- SilentAndSet
    MaxLines = 1
    MaxBacklog = 1
    MaxRx = 2
    Upsets = {}
    MaxUpsets = 0
SPECIFICATION Spec
PROPERTIES
    CommitMatches
