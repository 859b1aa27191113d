SPECIFICATION MCSpec
CONSTANTS
    ann = ann
    bob = bob
    dm = dm
    list = list
    Users <- MCUsers
    NoUser = NoUser
    NoCall = NoCall
    CallIds = {c1, c2}
    Convs <- MCConvs
    Mode <- MCMode
    Members <- MCMembers
    Admins <- MCAdmins
    Joins = {j1, j2}
    NoJoin = NoJoin
    MaxPicks = 2
INVARIANTS
    NobodyRingsDead
    Agreement
    ShownIsSent
    DevicesReleased
PROPERTIES
    StaysInCall
CHECK_DEADLOCK FALSE
