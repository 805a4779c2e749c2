SPECIFICATION Spec
CONSTANTS
    Peers = {a, b}
    Threads = {t}
    NoPeer = NoPeer
    Randomize = FALSE
    Modes = {TRUE, FALSE}
    MayOverflow = TRUE
    MaxFrames = 3
    HighCap = 2
    LowCap = 2
    CursorModulus = 3
SYMMETRY PeerSymmetry
INVARIANTS
    TypeOK
    PeerLaneOrder
    PeerHighInOrder
    DrainServesEach
PROPERTIES
    TurnSpec
    PeerLossOnlyByPolicy
