SPECIFICATION Spec
CONSTANTS
    t1 = t1
    t2 = t2
    t3 = t3
    w1 = w1
    w2 = w2
    Names = {"User", "fact"}
    User = "User"
    Pairs <- Related
    Workers = {w1, w2}
    Threads = {t1, t2, t3}
    WorkerOf <- ThreadWorker
    MaxRows = 4
    MaxCalls = 4
SYMMETRY Symmetry
INVARIANTS
    TypeOK
    OneCurrent
    IndexCurrent
    RecallCurrent
CHECK_DEADLOCK FALSE
