SPECIFICATION Spec
CONSTANTS
    Peers = {a, b}
    Threads = {t, u}
    Broadcast = Broadcast
    Modes = {TRUE, FALSE}
    MayOverflow = FALSE
    MaxFrames = 2
    Fanout = 2
    HighCap = 2
    LowCap = 1
INVARIANTS
    NothingStranded
PROPERTIES
    HighDrains
    SteadyUnicastArrives
    SignalledDrains
