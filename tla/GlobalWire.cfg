SPECIFICATION Spec
CONSTANTS
    Peers = {a, b, c}
    Threads = {t}
    Broadcast = Broadcast
    Modes = {FALSE}
    MayOverflow = FALSE
    MaxFrames = 1
    Fanout = 2
    HighCap = 1
    LowCap = 1
INVARIANTS
    DispatchShape
PROPERTIES
    WireSpec
    SteadyBroadcastArrives
