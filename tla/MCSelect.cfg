\* A program whose select has no limit may sleep for ever.
SPECIFICATION FairSpec
CHECK_DEADLOCK FALSE
CONSTANTS
    o1 = o1
    o2 = o2
    Objects = {o1, o2}
    FdMaps <- AnyFds
    Bad = {7}
    FD_SETSIZE = 8
    Tables <- AllTables
    Limits <- NoneZeroTwo
    MaxFaults = 1
    MaxNow = 2
    LastCall = 0
    Ms = 1
    IntMax = 100
INVARIANTS
    DirtyNeverWaits
PROPERTIES
    Exactly
    LimitExact
    Returns
