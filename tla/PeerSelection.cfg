SPECIFICATION Spec
CONSTANTS
    Peers = {a, b, c, d}
    Fanout = 2
    MaxSlots = 3
    Randomize = FALSE
    MaxWait = 6
    CursorModulus = 4
INVARIANTS
    PickDefined
    TwoTicksSpread
    WaitBound
PROPERTIES
    ReturnsAPick
    SteadyRotation
