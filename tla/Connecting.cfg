CONSTANTS
    MaxGen = 2
    MaxEvents = 2
    Machines = {"m1"}
    MaxQueue = 3
    MaxStray = 1
    Upsets = {"open", "mute", "slow", "unplug"}
    MaxUpsets = 1
    MaxRequests = 1
SPECIFICATION FairSpec
INVARIANTS
    TypeOK
    LossNoticed
    SettingsAnswer
    EndsOnce
PROPERTIES
    CallsReturn
    AutoConnects
CHECK_DEADLOCK FALSE
