SPECIFICATION Spec
CONSTANTS
    PageSize = 2
    RuleTable <- MCRuleTable
    Reqs = {r1, r2}
    Prompts <- MCStatePrompts
    Shared = 8
    Configs <- MCStateConfigs
    BlockSize = 4
    SliceMax = 4
    MaxGen = 2
    NoPrompt = NoPrompt
INVARIANT StateIsScan
CHECK_DEADLOCK FALSE
SYMMETRY Symmetry
