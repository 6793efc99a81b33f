CONSTANTS
    d1 = d1
    d2 = d2
    r1 = r1
    r2 = r2
    w1 = w1
    w2 = w2
    v1 = v1
    v2 = v2
    Nil = Nil
    Defs = {d1, d2}
    Runtimes = {r1, r2}
    Workflows = {w1, w2}
    Versions = {v1}
    Bindings <- NameReused
    Admission = TRUE
    Ephemeral = {}
    MaxLag = 4
    MaxUid = 4
    MaxGen = 1
    MaxFaults = 0
SPECIFICATION Spec
INVARIANT SingleRuntime
CONSTRAINT D2Last
