SPECIFICATION Spec
CONSTANTS
    Required = 1
    Trigger = 2
    MaxRequired = 4
    MaxConcurrent = 3
    GenBatches = {0, 2, 4}
    MaxSyncs = 2
    None = None
INVARIANT NoStarvation
CHECK_DEADLOCK FALSE
