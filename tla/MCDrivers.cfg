SPECIFICATION MCSpec
CHECK_DEADLOCK FALSE
CONSTANTS
    Request = {q1, q2, q3, q4}
    BurstHighMax = 2
    BurstNormalMax = 2
    BurstLowMax = 1
    UlongSize = 4
    MaxBypass = 6
    CpFile = {f1, f2}
    CpChild = {k1, k2}
    CpBackend = TRUE
    CpSigned = TRUE
    CpReady = TRUE
    CpMaxLeaks = 1
    CwIrp = {w1, w2}
    CwNone = CwNone
    CwLight = {"D1", "D2"}
    CrIrp = {i1, i2}
    CrNoIrp = CrNoIrp
    BpPresent = {1, 2}
    BpAbsent = 3
    BpMaxCount = 2
    BpDepth = 2
    BpMaxCalls = 2
    PecMax = 3
    PecByte = {{}, {0}, {7}, {0, 1, 2, 3, 4, 5, 6, 7}}
    PecAddress = {{2, 3, 5}}
    PecCommand = {{3}, {1, 7}}
    SpClient = {p1, p2}
    XpLen = 2
    XpDepth = 2
    XpTarget = 1
    XpStopCause = "stop"
    XpMaxCalls = 2
    Byte = {x, y}
    Size = 4
    UtWriter = {x1}
    UtCpu = {c1, c2}
    UtSize = 3
    UtMaxBytes = 3
    UlThread = {t1, t2}
    UlConfig = {g1, g2}
    UlDefault = g1
    UlMaxCalls = 3
    EmThread = {e1, e2}
    EmHal = {h1, h2}
    EmSize = 3
    EmBlock = 2
    EmMaxBytes = 4
CONSTRAINT Explored
INVARIANTS
    WorkConserving
    BypassBound
    CpDeletedUnused
    CpHoldsWhatItServes
    CpChildrenCounted
    CpLockBalanced
    CwPowerAgrees
    CwSlotIsPending
    BpOwnAnswers
    PecSound
    SpOkCompleted
    XpOkIsWhole
    UtInOrder
    UlAsConfigured
    EmInOrder
PROPERTIES
    CrHonoursContract
    ImplementsFifo
