SPECIFICATION Spec
CONSTANTS
    ann = ann
    bob = bob
    cat = cat
    dan = dan
    group = group
    list = list
    NoUser = NoUser
    CallIds = {c1}
    Users <- MCUsers
    Convs <- MCConvs
    Mode <- MCMode
    Members <- MCMembers
    Admins <- MCAdmins
INVARIANTS
    EveryoneTold
    LiveCallHasParticipants
PROPERTIES
    KeepsToCallLife
    RingingStops
CHECK_DEADLOCK FALSE
