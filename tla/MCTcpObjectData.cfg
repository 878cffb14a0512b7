SPECIFICATION LimitOnceSpec
SYMMETRY Interchangeable
VIEW BetweenCalls
CONSTANTS
    a4 = a4
    b4 = b4
    a6 = a6
    o1 = o1
    o2 = o2
    f1 = f1
    f2 = f2
    NoAddr = NoAddr
    Addrs = {a4, b4, a6}
    FamilyOf <- FamilyOfDef
    Objects = {o1, o2}
    Fds = {f1, f2}
    Hosts <- Mixed
    Local <- NoLocal
    TimeoutValues = {0, 1}
    MaxCalls = 2
    MaxFaults = 1
    Ms = 1
    IntMax = 100
    MaxNow = 1
INVARIANTS
    Owned
    NonBlocking
    WaitsInTime
PROPERTIES
    BothEnds
    ZeroTriesOne
