CONSTANTS
    Clients = {c1, c2}
    Buffers = {b1, b2, b3, b4, b5}
    None = None
    MaxFree = 3
SYMMETRY Interchangeable
SPECIFICATION Spec
INVARIANT GivenFrameIsKept
CHECK_DEADLOCK FALSE
