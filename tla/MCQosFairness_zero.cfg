CONSTANTS
    r1 = r1
    r2 = r2
    r3 = r3
    r4 = r4
    Request = {r1, r2, r3, r4}
    BurstHighMax = 0
    BurstNormalMax = 0
    BurstLowMax = 0
    UlongSize = 4
    MaxBypass = 6
SYMMETRY Symm
SPECIFICATION Spec
CONSTRAINT BypassConstraint
INVARIANT
    WorkConserving
