\* Campaigns over small matrices, with every selection of their records.
SPECIFICATION ReportSpec
CONSTANTS
    c1 = c1  e1 = e1  e2 = e2
    Exporters = {e1, e2}
    TableNames = {"groups"}
    Tables <- MCTables
    Exported <- MCExported
    Nothing = Nothing
    Unusable = Unusable
    Processes = {c1}
    Definitions <- MCDefinitions
    Supports <- MCSupports
    Generated <- MCGenerated
    Sense <- MCSense
    Objectives <- MCObjectives
    Controls <- MCControls
    Resolved <- MCResolved
    Fits <- MCFits
    Circumstances <- MCCircumstances
    MaxRuns = 5
    MaxSelection = 3
    MaxReproductions <- MCMaxReproductions
SYMMETRY ExporterSymmetry
INVARIANTS
    PairsAreTheSlots
    ControlsMatch
    SettingsAreKept
    QualityIsTrue
    CampaignIsComplete
    CampaignInv
    ComparisonsAreTrue
    PlanIsHonoured
    ReportsAreReproducible
PROPERTIES
    ReportIsWhole
    NothingIsOverwritten
CHECK_DEADLOCK FALSE
