SPECIFICATION Spec
CONSTANTS
    Owners = {o1, o2, o3}
    Requests <- MCRequests
    HeapSize <- MCHeapSize
    CursorMax <- MCCursorMax
SYMMETRY Symmetry
INVARIANTS TypeOK NoAliasing BlocksCoherent HeldIsTaken
PROPERTY OnlyLocalFreeLeaks
CHECK_DEADLOCK FALSE
