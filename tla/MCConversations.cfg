SPECIFICATION ConversationSpec
CONSTANTS
    Users = {a, me}
    Me = me
    MaxTroubles = 1
    Kinds = {"dm", "group", "broadcast"}
    Nobody = Nobody
    RequestIds = {1, 2}
    MaxAsks = 2
INVARIANTS
    ListsAgree
    ListConverges
CHECK_DEADLOCK FALSE
