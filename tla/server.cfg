CONSTANTS
    Full = 60
    Near = 5
    Floor = 90
    Intensities = {23, 60}
    Ticks = {2, 5}
    MaxFlashes = 4
    N = 2
    Watched = 2
    Cap = 3
    Greeting = 5
    MaxOnsets = 3
SPECIFICATION FairSpec
INVARIANTS
    TypeOK
    GetNeverBlocks
    NothingLost
    InStep
    HeadsForTarget
PROPERTIES
    OnsetsArrive
    KeepsTicking
    FlashImplemented
    FlashEnds
CHECK_DEADLOCK FALSE
