CONSTANTS
    Configs <- MCConfigs
    MaxPack = 2
    Outputs <- MCOutputs
SPECIFICATION ScoringSpec
INVARIANT AskedOnce
INVARIANT FullMarks
CHECK_DEADLOCK FALSE
