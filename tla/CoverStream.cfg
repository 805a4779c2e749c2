SPECIFICATION Spec
CHECK_DEADLOCK FALSE
CONSTANTS
    Peers = {a, b, c}
    Modulus = 3
    MaxStamps = 8
SYMMETRY PeerSymmetry
INVARIANTS
    GapsAreLosses
    NumbersMatchTicks
    CleanStreams
