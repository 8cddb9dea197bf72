SPECIFICATION Spec
CONSTANTS
    w1 = w1  w2 = w2  c1 = c1  r1 = r1  j1 = j1
    Nobody = Nobody
    Workers = {w1, w2}
    Campaigns = {c1}
    Reproductions = {r1}
    Jobs = {j1}
    Attempts <- MCAttempts
    Target <- MCTarget
    Source <- MCSource
    Faults = FALSE
    MaxStops = 1
INVARIANT
    ReconcilerIsAlone
CHECK_DEADLOCK FALSE
