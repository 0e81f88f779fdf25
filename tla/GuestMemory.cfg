SPECIFICATION MemorySpec
CONSTANTS
    PageSize = 2
    Granularity = 2
    Top = 6
    VaBase = 2
    Mapped <- MCMapped
    Prots <- MCProts
    Bases = {3, 4}
    Sizes = {0, 1, 3}
    Pointers = {4}
    Strict = FALSE
    MaxRegions = 3
VIEW MCView
INVARIANT MemoryTypeOK
PROPERTIES RangeCallsHold GuardFaultsOnce
CHECK_DEADLOCK FALSE
