CONSTANTS
    d1 = d1
    d2 = d2
    s1 = s1
    s2 = s2
    w1 = w1
    v1 = v1
    v2 = v2
    r1 = r1
    r2 = r2
    u1 = u1
    u2 = u2
    in1 = in1
    g1 = g1
    g2 = g2
    Nil = Nil
    Defs = {d1}
    Svcs = {s1}
    Workflows = {w1}
    Versions = {v1}
    Runtimes = {r1, r2}
    URLs = {u1, u2, in1}
    External = {u1, u2}
    Definitions <- Labelling
    Services <- OneService
    Goroutines = {g1, g2}
    MaxChanges = 1
    MaxFaults = 1
SPECIFICATION FairSpec
INVARIANT TypeOK QuietTableIsCurrent ReadyMeansRouted
PROPERTY TableMovesForward TableConverges
CHECK_DEADLOCK FALSE
