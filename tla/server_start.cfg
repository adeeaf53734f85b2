CONSTANTS
    Full = 60
    Near = 5
    Floor = 90
    Intensities = {60}
    Ticks = {5}
    MaxFlashes = 3
    N = 2
    Watched = 1
    Cap = 3
    Greeting = 5
    MaxOnsets = 2
SPECIFICATION FairSpec
PROPERTY GetsStarted
CHECK_DEADLOCK FALSE
