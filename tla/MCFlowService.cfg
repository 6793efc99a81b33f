CONSTANTS
    d1 = d1
    d2 = d2
    v1 = v1
    v2 = v2
    Defs = {d1, d2}
    Versions = {v1, v2}
    Runtimes = {"rt"}
    WfOf <- TheWfs
    RtOf <- TheRts
    Absent = Absent
    New = New
    NoDef = NoDef
    Empty = Empty
    Scenarios <- TheScenarios
SPECIFICATION Spec
CHECK_DEADLOCK FALSE
INVARIANT TypeOK QuietRoutesAsAsked QuietStatusIsCurrent
PROPERTY ServiceSettles
