\* Two compiles at once, as the promise-returning interface allows.
SPECIFICATION Spec
CONSTANTS
    Compiles = {c1, c2}
    Warmups = {}
    Bad = {}
    MaxOverlap = 2
    None = None
INVARIANT OwnObject
CHECK_DEADLOCK FALSE
