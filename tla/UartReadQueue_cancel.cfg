SPECIFICATION Spec
CONSTANTS
    Irp = {r1, r2}
    NoIrp = NoIrp
    Cpu = {c1, c2}
    CompletionLimit = 1
    RxMax = 1
    MaxBytes = 2
INVARIANT CancelSafe
CHECK_DEADLOCK FALSE
