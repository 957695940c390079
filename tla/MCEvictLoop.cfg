SPECIFICATION Spec
CONSTANT Inputs <- MCInputs
INVARIANT LoopIsWindowRule
INVARIANT BudgetAtEveryFrontier
CHECK_DEADLOCK FALSE
