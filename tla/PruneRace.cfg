SPECIFICATION Spec
CONSTANTS
    Peers = {a, b}
    Threads = {t}
    NoPeer = NoPeer
    Randomize = FALSE
    Modes = {FALSE}
    MayOverflow = FALSE
    MaxFrames = 1
    HighCap = 1
    LowCap = 1
    CursorModulus = 2
PROPERTIES
    PrunesOnlyDeparted
