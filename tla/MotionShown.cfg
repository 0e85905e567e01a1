CONSTANTS
    Travel = 1
    Contact = 0
    Capacity = 3
    RxCapacity = 1
    MaxLimits = 1
    Withheld = {"query"}
    Holding = {"probe"}
SPECIFICATION Spec
INVARIANTS
    IdleMeansAtRest
CHECK_DEADLOCK FALSE
