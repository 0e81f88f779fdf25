SPECIFICATION KoSpec
CONSTANTS
    i1 = i1
    i2 = i2
    read = read
    ioctl = ioctl
    Inputs = {i1, i2}
    Seeds <- MCSeeds
    Cap = 2
    Iterations = 1
    SeedCap = 1
    MaxQueries = 1
    MaxBranches = 1
    MaxLog = 2
    Harvests <- MCHarvests
    Patterns = 2
    MaxOps = 2
    MaxResults = 2
    Options <- MCOptions
    Nothing = Nothing
    Thrown = Thrown
INVARIANTS KoTypeOK ReportIsTrue DriveIsComplete
CHECK_DEADLOCK FALSE
