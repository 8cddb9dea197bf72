\* Whether states of equal energy are turned by equal phases.
SPECIFICATION QaoaSpec
CONSTANTS
    A = A
    B = B
    C = C
    D = D
    E = E
    None = None
    Unset = Unset
    NotANumber = NotANumber
    MaxVariables = 4
    TrialCounts = {0, 2}
    ShotCounts = {0, 2}
    Expectations = {0, 1}
    Inputs <- MCInputs
    Document <- MCDocument
    Bits <- BasisStates
    Maximizes <- Maximizing
    Accepted <- Admissible
    Meets <- MCMeets
    Objective <- MCObjective
    Energy <- MCEnergy
INVARIANTS
    CostLayerIsCost
CHECK_DEADLOCK FALSE
