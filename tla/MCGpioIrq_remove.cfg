SPECIFICATION Spec
CONSTANTS
    Pin = {p1, p2}
    Cpu = {c1, c2}
    NoCpu = NoCpu
    Caller = {k1}
    LogSize = 2
    MaxFires = 1
    MaxStarts = 1
INVARIANT NoDpcAfterRemove
CHECK_DEADLOCK FALSE
