SPECIFICATION Spec
CONSTANTS
    ann = ann
    bob = bob
    cam = cam
    mic = mic
    Room = Room
    NoOne = NoOne
    Nothing = Nothing
    Peers = {ann, bob}
    Producers = {cam, mic}
    Owner <- MCOwner
    MaxPolls = 1
    LocksExpire = TRUE
    MaxFaults = 1
    MaxTimeouts = 1
INVARIANTS
    OneRouter
    EverybodySeesAll
    NoDeadTile
    AllSettled
PROPERTIES
    TilesStay
CHECK_DEADLOCK FALSE
