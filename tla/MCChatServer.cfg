SPECIFICATION ServerSpec
CONSTANTS
    c1 = c1
    c2 = c2
    alice = alice
    bob = bob
    carol = carol
    Convs <- MCConvs
    Names <- MCNames
    Workloads <- MCWorkloads
    MaxVersion = 2
    MaxFaults = 1
    MaxCrashes = 1
    Requests = {1, 2, 3}
    Free = Free
INVARIANTS
    NothingForgotten
    StopsClean
    AccountsKept
PROPERTIES
    IsWriteBehind
    EventuallyFlushed
