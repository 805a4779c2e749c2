SPECIFICATION Spec
CHECK_DEADLOCK FALSE
CONSTANTS
    Conns = {c, d}
    Subs = {s}
    HeaderSize = 1
    IdSize = 1
    FrameSize = 2
    MaxFrameSize = 2
    Sizes = {1, 2, 3}
    Foreign = Foreign
    Capacity = 1
    MaxSent = 2
INVARIANTS
    FailStop
    AgreeingPeersStayUp
    FeedAccounted
PROPERTIES
    EveryFramePasses
