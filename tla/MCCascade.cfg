SPECIFICATION Spec
CONSTANTS
    Producers = {p1, p2}
    Attempts = {a1, a2, a3}
    MaxFaults = 1
    Viewers = {v1, v2}
    Host = host
    Capacity = 1
INVARIANTS
    RelaysOnce
    AudienceIsPlanned
    LinkFollowsPlan
CHECK_DEADLOCK FALSE
