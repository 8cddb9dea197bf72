SPECIFICATION Spec
CONSTANTS
    campaign = campaign  rerun = rerun  benchmark = benchmark  single = single
    cut = cut  partition = partition
    None = None
    Processes = {campaign, rerun, benchmark}
    Problems = {cut, partition}
    Plan <- MCPlan
    Kind <- MCKind
    CampaignId <- MCCampaignId
    Sense <- MCSense
    Objectives <- MCObjectives
    Optimum <- MCOptimum
INVARIANTS
    ReferenceIsEarlier
    GapIsTrue
    EvidenceIsComplete
    HistoryInv
PROPERTY
    ImplementsLog
SYMMETRY CampaignSymmetry
CHECK_DEADLOCK FALSE
