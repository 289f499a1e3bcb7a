CONSTANTS
    r1 = r1
    r2 = r2
    c1 = c1
    c2 = c2
    Request = {r1, r2}
    Cpu = {c1, c2}
    NoIrp = NoIrp
    Priority = {"Normal"}
    BurstHighMax = 0
    BurstNormalMax = 0
    BurstLowMax = 0
    UlongSize = 2
    MaxRetries = 1
    MaxInterrupts = 1
    MaxSequences = 0
    MaxStops = 1
SPECIFICATION Spec
CHECK_DEADLOCK FALSE
SYMMETRY Symm
INVARIANT
    NoLostIrp
