SPECIFICATION Spec
CONSTANTS
    Viewers = {v1, v2, v3}
    Broadcaster = bc
    NoOne = NoOne
    N = 2
    Capacity = 1
    Producers = {x1}
    MaxSeq = 4
    MaxEras = 1
    MaxFaults = 1
INVARIANTS
    Announced
    ViewerNodeIsFed
CHECK_DEADLOCK FALSE
