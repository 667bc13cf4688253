SPECIFICATION FairSpec
CONSTANTS
    Requests = {r1, r2}
    Sessions = {default, a}
    Bypassed = {default}
    Workers = {w1, w2}
    NoTurn = NoTurn
    MaxCrashes = 1
INVARIANTS
    TypeOK
    FailureShown
    RecordedOnce
PROPERTIES
    ErrorSticks
    TurnGivenBack
    RowSettled
CHECK_DEADLOCK FALSE
