SPECIFICATION SLSpec
CONSTANTS
    Processes = {p1, p2}
    Files = {f1, f2, f3, f4}
    NoFile = NoFile
    CompactSize = 2
    Retention = 2
    MaxEvents = 4
    MaxNow = 3
    MaxFaults = 1
SYMMETRY Symmetry
INVARIANTS
    SLTypeOK
    ReportsTrue
CHECK_DEADLOCK FALSE
