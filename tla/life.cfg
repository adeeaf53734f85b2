CONSTANTS
    CMax = 3
    ShiftSpeed = 2
    JumpGain = 20
    StepNum = 1
    StepDen = 2
    Points = {0, 1, 2, 5, 9}
    LeakBound = 2
    Dist <- MCDist
    Rises <- MCRises
    Origin = 0
SPECIFICATION MCSpec
INVARIANTS
    TypeOK
PROPERTIES
    HueSpec
    OnlyMotionMoves
    EventuallySent
CHECK_DEADLOCK FALSE
