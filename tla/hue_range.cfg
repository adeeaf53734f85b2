CONSTANTS
    CMax = 255
    LeakBound = 8
SPECIFICATION MCSpec
INVARIANT ColourInRange
