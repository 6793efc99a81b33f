CONSTANTS
    d1 = d1
    d2 = d2
    r1 = r1
    r2 = r2
    w1 = w1
    w2 = w2
    v1 = v1
    v2 = v2
    Nil = Nil
    Defs = {d1}
    Runtimes = {r1}
    Workflows = {w1, w2}
    Versions = {v1}
    Bindings <- OneName
    Admission = FALSE
    Ephemeral = {r1}
    MaxLag = 1
    MaxUid = 2
    MaxGen = 2
    MaxFaults = 2
SPECIFICATION FairSpec
INVARIANT QuietIsHonest QuietReadyIsCurrent
PROPERTY ConfigMapMovesForward EventuallySettled RuntimeRefFollowsRuntime
