SPECIFICATION Spec
CONSTANTS
    a1 = a1
    a2 = a2
    a3 = a3
    s1 = s1
    e1 = e1
    e2 = e2
    Groups <- MCShared
    Servers = {s1}
    Evaluators = {e1, e2}
    Kinds = {"hf", "vllm"}
    GroupCaps = {0, 2}
    Concurrency = 2
    DHigh = 1
    Retries = 2
    PoolCap = 1
    GenCap = 1
    MaxStarts = 2
    None = None
    Torn = Torn
INVARIANT RecordedOnce
INVARIANT EndedComplete
INVARIANT SummaryCoversRun
INVARIANT OutstandingExact
PROPERTY Ends
CHECK_DEADLOCK FALSE
