CONSTANTS
    CMax = 255
    LeakBound = 8
SPECIFICATION MCSpec
INVARIANTS
    WheelShape
    SmoothShift
PROPERTIES
    LeavesRangeOnlyAtGreen
    GreenOnlyByJump
    KeepsCycling
