\* One compile at a time, warm-ups at any time, then loads of what it returned.
SPECIFICATION BFairSpec
CONSTANTS
    Compiles = {c1, c2}
    Warmups = {w1, w2}
    Bad = {c2}
    MaxOverlap = 1
    None = None
    PageSize = 4
    Alignment = 2
    Reach = 60
    Span = 16
    Object <- MCObject
    Shapes = {"reader", "tables", "dangling", "unknown", "dropped", "arm"}
    Libraries = {"leaf", "caller"}
    Bases = {24, 200}
    Names = {n1}
    Thunk <- MCThunk
    Stub <- MCStub
    SlotGap = 6
    MaxLoads = 1
INVARIANTS BuildTypeOK CallsKept DriversAreLinked
PROPERTIES EveryCallAnswered ImplementsService
CHECK_DEADLOCK FALSE
