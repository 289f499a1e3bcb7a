SPECIFICATION CwSpec
CONSTANTS
    CwIrp = {w1, w2}
    CwNone = CwNone
    CwLight = {}
INVARIANT CwCompletedOnce
