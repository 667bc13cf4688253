SPECIFICATION Spec
CONSTANTS
    Script <- Listings
    Lines <- ListingLines
    Nobody = Nobody
    System = {}
    Assistant = {"reply"}
    Diffs = {"diff"}
    Parsed = {"file"}
    Python = {}
    Braced = {}
    Long = {}
    Untidy = {"reply"}
    Progress = {}
    Repeated = {}
    Tables = {}
    Prose = {"ls3"}
    Short = {}
    Excluded = {}
    MaxDelta = 1
    FreezeMessages = 1
    MaxTurns = 4
    MaxTimeouts = 1
    MaxRestarts = 1
INVARIANTS
    TypeOK
    CopyInSight
    DeltaGrounded
CHECK_DEADLOCK FALSE
