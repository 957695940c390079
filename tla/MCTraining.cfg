CONSTANTS
    PageSize = 2
    RuleTable <- MCRuleTable
    SystemLen = 1
    PadMultiple = 16
    PadFloor = 2
    OpenLen = 1
    MaxLen = 14
    Items <- MCItems
    MinLen = 2
    Shuffle <- MCShuffle
    Target = 12
    World = 2
    Shapes <- MCShapes
    Draws <- MCDraws
    W0 <- MCW0
    MaxSteps = 4
    LogEvery = 2
    SaveEvery = 2
    MicroBatchesOfRl <- MCMicroBatches
SPECIFICATION MCSpec
INVARIANT UpdateIsPlannedStep
INVARIANT EpochCoversExamples
INVARIANT LabelsBalanced
INVARIANT DocumentsIsolated
INVARIANT SequencesAsServed
PROPERTY Ends
CHECK_DEADLOCK FALSE
