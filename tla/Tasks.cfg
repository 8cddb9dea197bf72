\* Safety with failing writes and every stop, and liveness without failing writes.
SPECIFICATION EitherSpec
CONSTANTS
    w1 = w1  w2 = w2  c1 = c1  r1 = r1  j1 = j1
    Nobody = Nobody
    Workers = {w1, w2}
    Campaigns = {c1}
    Reproductions = {r1}
    Jobs = {j1}
    Attempts <- MCAttempts
    Target <- MCTarget
    Source <- MCSource
    Faults = TRUE
    MaxStops = 2
INVARIANTS
    SingleExecution
    ExecutedOnce
    NoGhostTask
    ProgressWithinOne
    UnfiledRunIsNewest
    ReproductionKeepsResult
    SlotInv
PROPERTIES
    ImplementsLedger
    EveryTaskEnds
    EveryRunFiled
    SlotIsFreed
CHECK_DEADLOCK FALSE
