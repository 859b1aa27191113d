SPECIFICATION PagesSpec
CONSTANTS
    Peers = {h, g}
    Players = {h}
    MaxShares = 2
    Kinds = {"audio", "video", "screen"}
    NoRecord = NoRecord
    Apps = {"live-streaming", "massive", "call", "room", "webinar", "board"}
INVARIANTS
    DirectoryTrue
    NothingLeftRunning
    ButtonsTrue
PROPERTIES
    GoneLeaves
CHECK_DEADLOCK FALSE
