CONSTANTS
    Own = {p}
    Elsewhere = {q}
    Endpoints = {e1, e2}
    Nil = Nil
    MaxChanges = 2
    r1 = r1
    r2 = r2
    Requests = {r1, r2}
    Versions = {v1, v2}
    URLs = {u1, u2}
    Instances = {i1}
    Leases = {l1}
    Pods = {p1, p2}
    Definitions = {d1, d2}
    Scenarios <- TheScenarios
    MaxLearned = 3
    MaxRestarts = 1
SPECIFICATION ServerSpec
INVARIANT ServerTypeOK
PROPERTY KeepsPromise QueriesReachTheIndex
