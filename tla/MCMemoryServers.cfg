CONSTANTS
    a1 = a1
    a2 = a2
    a3 = a3
    b1 = b1
    p = p
    A = A
    B = B
    Requests = {a1, a2, a3, b1, p}
    Memories = {A, B}
    NoMemory = NoMemory
    MemOf <- MCMemOf
    Absent = Absent
    Asked = Asked
    Failed = Failed
    Docs <- MCDocs
    ReadWindow = 2
    CacheSize = 1
    Window = 1
    BatchSize = 2
    Threshold = 2
    IndexConcurrency = 1
    Length <- MCLength
    Merged = {a1, b1}
    GroupOf <- MCGroupOf
    Questions <- MCQuestions
    Icl = {B}
    MaxBatch = 2
SPECIFICATION Spec
INVARIANT BuildsExplained
INVARIANT BuildersApart
INVARIANT OneIndexTask
PROPERTY KeepsPromise
CHECK_DEADLOCK FALSE
