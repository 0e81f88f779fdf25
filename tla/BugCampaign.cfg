SPECIFICATION LinuxSpec
CONSTANTS
    i1 = i1
    i2 = i2
    i3 = i3
    Inputs = {i1, i2, i3}
    Seeds <- MCSeeds
    Reach <- MCReach
    Blocks = {b1, b2}
    Outside = Outside
    Bugs = {k1}
    NullDeref = k1
    Cap = 2
    SeedRuns = 1
    Iterations = 2
    Every = 2
    MaxQueries = 2
    MaxBranches = 2
    MaxLog = 2
    None = None
INVARIANTS LinuxTypeOK RunsAreIsolated BugsAreKept
SYMMETRY MCSymmetry
CHECK_DEADLOCK FALSE
