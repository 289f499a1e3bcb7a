SPECIFICATION Spec
CONSTANTS
    Pin = {p1, p2}
    Cpu = {c1, c2}
    NoCpu = NoCpu
    Caller = {k1, k2}
    LogSize = 2
    MaxFires = 2
    MaxStarts = 2
SYMMETRY Symmetry
INVARIANTS NoPinForgotten LatchedIsServed IsrMapped PinsAsWritten
CHECK_DEADLOCK FALSE
