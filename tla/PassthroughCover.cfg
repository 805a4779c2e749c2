SPECIFICATION Spec
CONSTANTS
    Peers = {a, b}
    Threads = {t}
    Broadcast = Broadcast
    Modes = {TRUE}
    MayOverflow = FALSE
    MaxFrames = 2
    Fanout = 2
    HighCap = 1
    LowCap = 1
INVARIANTS
    NoCoverInPassthrough
