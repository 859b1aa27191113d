SPECIFICATION BoardSpec
CONSTANTS
    Members = {1, 2, 3}
    Strokes = {s1}
    MaxOps = 2
    FirstMembers = {2}
INVARIANTS
    PresenceAgrees
    NoStrokeTwice
    BoardsAgree
CHECK_DEADLOCK FALSE
