SPECIFICATION Spec
CONSTANTS
    i1 = i1
    i2 = i2
    i3 = i3
    Inputs = {i1, i2, i3}
    Reach <- MCReach
    Seeds <- MCSeeds
    Blocks = {b1, b2, b3}
    Outside = Outside
    Cap = 2
    Iterations = 3
    MaxLog = 2
    None = None
INVARIANTS TypeOK CleanRuns CorpusTellsAll CampaignSurvives
SYMMETRY MCSymmetry
CHECK_DEADLOCK FALSE
