CONSTANTS
    MaxGen = 2
    MaxEvents = 2
    Machines = {"m1"}
    MaxQueue = 3
    MaxStray = 0
    Upsets = {}
    MaxUpsets = 0
    MaxRequests = 2
SPECIFICATION Spec
PROPERTIES
    SuppressionObeyed
CHECK_DEADLOCK FALSE
