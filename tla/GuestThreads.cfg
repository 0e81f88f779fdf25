SPECIFICATION ObjSpec
CONSTANTS
    Main = main
    Tids = {t1, t2}
    Apcs = {a1, a2, a3}
    Names = {n1}
    MaxCalls = 3
    None = None
INVARIANTS ObjTypeOK CallsNest ObjectsKeepState
PROPERTY WaitDrains
CHECK_DEADLOCK FALSE
