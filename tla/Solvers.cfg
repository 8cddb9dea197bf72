\* Every call of a solver: the exact one, guarded below and above the size of the
\* problems; the heuristic one with a greedy and a random restart; and the QAOA
\* search, with a warm-up or without, over two candidates and two draws.
SPECIFICATION SolversSpec
CONSTANTS
    None = None
    Nothing = Nothing
    Refused = Refused
    Problems <- MCProblems
    Sources <- MCSources
    Scores <- MCScores
    Costs = {1, 2}
    Weights = {1, 2}
    StateLimits = {0, 8, 64}
    RestartCounts = {0, 2}
    PassCounts = {0, 1, 3}
    A = A
    B = B
    C = C
    D = D
    E = E
    Unset = Unset
    NotANumber = NotANumber
    MaxVariables = 4
    TrialCounts = {0, 2}
    ShotCounts = {0, 2}
    Expectations = {0, 1}
    Inputs <- MCInputs
    Document <- MCDocument
    Bits <- BasisStates
    Maximizes <- Maximizing
    Accepted <- Admissible
    Meets <- MCMeets
    Objective <- MCObjective
    Energy <- MCEnergy
INVARIANTS
    TypeOK
    IncumbentIsBest
    ExactIsOptimal
    UnconstrainedNeverFails
    RecordHolds
    SearchInv
    ReportedIsBestSample
    SampledOptimumIsReported
    EnergyIsObjective
    OptimumIsFeasible
    HamiltonianIsEnergy
PROPERTIES
    FeasibilityIsKept
    CutClimbs
CHECK_DEADLOCK FALSE
