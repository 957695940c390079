SPECIFICATION AdapterSpec
CONSTANTS
    Instances = {i1, i2, i3}
    MaySlow = TRUE
    MaxCrashes = 1
    MaxRequests = 4
    None = None
INVARIANT CommittedComplete
INVARIANT TrainersBounded
PROPERTY Served
CHECK_DEADLOCK FALSE
