SPECIFICATION Spec
CONSTANTS
    PageSize = 2
    RuleTable <- MCRuleTable
    Reqs = {r1, r2}
    Prompts <- MCPrompts
    Shared = 8
    Configs <- MCConfigs
    BlockSize = 4
    SliceMax = 4
    MaxGen = 2
    NoPrompt = NoPrompt
INVARIANT ReadsLiveBlocks
INVARIANT ServeViewIsTrainingView
INVARIANT KVBounded
INVARIANT SliceEndSeesTraining
CHECK_DEADLOCK FALSE
SYMMETRY Symmetry
