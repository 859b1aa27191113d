SPECIFICATION MCSpec
CONSTANTS
    me = me
    bob = bob
    dm = dm
    mine = mine
    his = his
    NoConv = NoConv
    Me = me
    Users = {me, bob}
    Convs = {dm}
    Messages = {mine, his}
    Conv <- MCConv
    Sender <- MCSender
    Window = 1
    MaxOps = 1
    MaxFaults = 1
    Chats = {a, b}
    NoChat = NoChat
    Notes = {n1, n2}
    MaxUploads = 1
INVARIANTS
    
    SentWhereWritten
CHECK_DEADLOCK FALSE
