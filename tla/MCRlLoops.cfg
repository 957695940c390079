CONSTANTS
    Required = 1
    Trigger = 2
    MaxRequired = 4
    MaxConcurrent = 3
    GenBatches = {0, 2, 4}
    MaxSyncs = 2
    None = None
    EpochBatches = 4
    TotalEpochs = 2
    TotalSteps = 5
    BatchGroups = 2
    Target = 3
    MaxGenBatches = 3
    SaveFreq = 2
    TestFreq = 3
    Relaunches = 2
SPECIFICATION LoopsSpec
INVARIANT WindowDropsBounded
INVARIANT FloorButForOvercount
INVARIANT OnPolicy
INVARIANT RolloutsCurrent
INVARIANT StepIsUpdate
INVARIANT UnsavedBounded
PROPERTY Ends
CHECK_DEADLOCK FALSE
