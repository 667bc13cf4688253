SPECIFICATION Spec
CONSTANTS
    a = a
    b = b
    c = c
    d = d
    t1 = t1
    t2 = t2
    t3 = t3
    w1 = w1
    w2 = w2
    Ids = {a, b, c, d}
    Summaries = {d}
    Workers = {w1, w2}
    Threads = {t1, t2, t3}
    WorkerOf <- ThreadWorker
    NoId = NoId
    Configured = 2
    Default = 3
    Threshold = 3
    Batch = 2
    MaxContexts = 1
    MaxCalls = 4
    MaxNow = 1
    MaxRestarts = 1
SYMMETRY Symmetry
INVARIANTS
    TypeOK
    SharedRecall
    TrackerBounded
CHECK_DEADLOCK FALSE
