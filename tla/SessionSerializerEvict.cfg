SPECIFICATION Spec
CONSTANTS
    Tasks = {t1, t2, t3}
    Sessions = {default, a, b, c, d}
    Bypassed = {default}
    Locks = {k1, k2, k3, k4, k5, k6, k7}
    NoLock = NoLock
    NoSession = NoSession
    MaxSessions = 2
    EagerWait = FALSE
SYMMETRY Symmetry
INVARIANTS
    TypeOK
    LockMutex
    NoAbandonedLock
    NoCrossSessionLock
    TableBound
