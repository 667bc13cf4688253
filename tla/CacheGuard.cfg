SPECIFICATION Spec
CONSTANTS
    Script <- TwoConversations
    SystemMsgs = {"sys"}
    Forms = {raw, z}
    Raw = raw
    NoMessage = NoMessage
    Workers = {w1, w2}
    NoWorker = NoWorker
    FreezeMessages = 4
    MaxLineages = 2
    TTL = 0
    Expiry = 0
    MaxNow = 1
    MaxTurns = 4
    MaxTimeouts = 0
    MaxRestarts = 1
SYMMETRY Symmetry
INVARIANTS
    TypeOK
    RightContent
PROPERTIES
    PrefixKept
    DerivedNeverShared
CHECK_DEADLOCK FALSE
