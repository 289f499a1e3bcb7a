SPECIFICATION MCSpec
CHECK_DEADLOCK FALSE
CONSTANTS
    HidIrp = {r1, r2}
    HidNoIrp = none
    HidCpu = {c1, c2}
    HidReportBuffer = TRUE
    HidReportFits = TRUE
    HidMaxStarts = 2
    RpFingers = 5
    RpLens = {1, 2, 3, 9, 10, 17, 23, 24, 31, 38, 64}
    RpFull = 64
    RpBuffer = 136
    RpReportSize = 136
    HtContacts = 4
    HtPlaces = {0, 3}
    HtCharMax = 2
    HtReads = 1
    GsContacts = 2
    GsScales = {0, 1, 2}
    CfValue = {0, 1, 3}
    CfRange <- Ranges
    CfDefault <- Defaults
    HdAddresses = {1, 2, 3}
    HdHeader = 1
    HdFull = 3
    HdDepth = 2
INVARIANTS
    HidStopDrains
    HidInputServed
    HidRemoveReleases
    HidAddUnwinds
    RpExact
    RpGuarded
    HtOneClick
    HtMotionFollows
    GsGesturesSettle
    CfRangesHold
    HdFindsThePad
PROPERTIES
    HidHonoursContract
