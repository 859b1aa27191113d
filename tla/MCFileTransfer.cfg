SPECIFICATION TransferSpec
CONSTANTS
    Users = {a, me}
    Me = me
    Sender = a
    MaxTroubles = 2
    MaxMoves = 2
    MaxOpens = 1
INVARIANTS
    PresenceTrue
    FileArrives
PROPERTIES
    GoesOffline
CHECK_DEADLOCK FALSE
