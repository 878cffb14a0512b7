SPECIFICATION FairSpec
CONSTANTS
    a4 = a4
    b4 = b4
    a6 = a6
    p1 = p1
    p2 = p2
    NoAddr = NoAddr
    Addrs = {a4, b4, a6, p1, p2}
    FamilyOf <- FamilyOfDef
    Hosts <- SomeHosts
    Kinds = {"udp", "unix"}
    Wanted = {1}
    Sizes = {0, 2}
    TimeoutValues = {0, 1}
    MaxCalls = 3
    MaxArrivals = 2
    MaxFaults = 1
    Ms = 1
    IntMax = 100
    MaxNow = 1
PROPERTIES
    SentExact
    ReceivedExact
    Returns
CHECK_DEADLOCK FALSE
