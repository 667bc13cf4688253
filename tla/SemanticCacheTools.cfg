SPECIFICATION Spec
CONSTANTS
    Requests = {r1, r2}
    Contexts <- MCContexts
    Query <- MCQuery
    NoQuery = ""
    Continues = {"tool", "result", "folded"}
    Rewritten <- MCRewritten
    MaxEntries = 2
    TTL = 1
    Attempts = 3
    MaxNow = 3
SYMMETRY Symmetry
INVARIANTS
    ToolTurnsExact
CHECK_DEADLOCK FALSE
