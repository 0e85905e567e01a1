CONSTANTS
    Travel = 1
    Contact = 0
    Capacity = 3
    RxCapacity = 1
    MaxLimits = 1
    Withheld = {"query"}
    Holding = {"probe"}
SPECIFICATION FairSpec
INVARIANTS
    PlannerSound
PROPERTIES
    KeepsAccepted
    LimitAnnounced
CHECK_DEADLOCK FALSE
