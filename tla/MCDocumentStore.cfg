SPECIFICATION Spec
CONSTANTS
    r1 = r1
    r2 = r2
    r3 = r3
    Requests <- MCRequests
    Origin = Origin
    NoOne = NoOne
    Loads <- MCLoads
    LocksExpire = TRUE
    MaxCrashes = 1
    MaxFaults = 1
PROPERTIES
    IsAtomicDocument
    Answered
