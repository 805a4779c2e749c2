SPECIFICATION Spec
CONSTANTS
    Peers = {a, b}
    Threads = {t}
    NoPeer = NoPeer
    Randomize = FALSE
    Modes = {FALSE}
    MayOverflow = FALSE
    MaxFrames = 2
    HighCap = 2
    LowCap = 1
    CursorModulus = 2
PROPERTIES
    DepartedLanesClear
    SteadyHighArrives
