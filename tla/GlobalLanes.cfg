SPECIFICATION Spec
CONSTANTS
    Peers = {a, b}
    Threads = {t}
    Broadcast = Broadcast
    Modes = {TRUE, FALSE}
    MayOverflow = TRUE
    MaxFrames = 3
    Fanout = 2
    HighCap = 2
    LowCap = 2
SYMMETRY PeerSymmetry
INVARIANTS
    TypeOK
    LaneOrder
    HighInOrder
    LowOnce
PROPERTIES
    LateHighOnly
    LossOnlyByPolicy
