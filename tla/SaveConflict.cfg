SPECIFICATION Spec
CONSTANTS
    campaign = campaign  rerun = rerun  benchmark = benchmark  single = single
    cut = cut  partition = partition
    None = None
    Processes = {benchmark, single}
    Problems = {cut, partition}
    Plan <- MCPlan
    Kind <- MCKind
    CampaignId <- MCCampaignId
    Sense <- MCSense
    Objectives <- MCObjectives
    Optimum <- MCOptimum
INVARIANT
    AttemptsAreKept
CHECK_DEADLOCK FALSE
