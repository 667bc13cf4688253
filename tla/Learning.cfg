SPECIFICATION LSpec
CONSTANTS
    s1 = s1
    s2 = s2
    Commands = {"rg", "rg, unescaped"}
    Tried = {"rg"}
    Kinds <- Calls
    Slashed <- Queries
    Respelled <- Unescaped
    Order <- Transcripts
    Learners = {"learn"}
    Dashboards = {"dashboard"}
    Threshold = 2
    Default = 3
    MaxRules = 1
    Paragraphs = {"own"}
    MaxCalls = 3
    MaxRuns = 3
INVARIANTS
    LTypeOK
    LoopsMeasured
PROPERTIES
    NothingLost
CHECK_DEADLOCK FALSE
