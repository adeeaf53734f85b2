CONSTANTS
    Users = {1, 2}
    NSlots = 2
    Hist = 3
    CMax = 3
    GapFrames = 2
    ShiftSpeed = 2
    JumpGain = 5
    StepNum = 1
    StepDen = 6
    UnitsPerLevel = 6
    Points = {0, 6}
    LeakBound = 1
    Dist <- MCDist
    Rises <- MCRises
    Origin = 0
SPECIFICATION MCSpec
INVARIANT StepsMoveTheColour
CHECK_DEADLOCK FALSE
