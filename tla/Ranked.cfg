\* The move of a pass against the sense of the problem.
SPECIFICATION RunSpec
CONSTANTS
    None = None
    Nothing = Nothing
    Refused = Refused
    Problems <- MCProblems
    Sources <- MCSources
    Scores <- MCScores
    Costs = {1, 2}
    Weights = {1, 2}
    StateLimits = {0, 8, 64}
    RestartCounts = {0, 2}
    PassCounts = {0, 1, 3}
INVARIANT RankedBySense
CHECK_DEADLOCK FALSE
