SPECIFICATION FairSpec
CONSTANTS
    Tasks = {t1, t2, t3}
    Sessions = {default, a, b}
    Bypassed = {default}
    Locks = {k1, k2, k3}
    NoLock = NoLock
    NoSession = NoSession
    MaxSessions = 2
    EagerWait = TRUE
PROPERTIES
    ImplementsTurnQueue
    EventuallyServed
