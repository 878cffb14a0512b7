SPECIFICATION FairSpec
CONSTANTS
    a4 = a4
    b4 = b4
    a6 = a6
    o1 = o1
    o2 = o2
    f1 = f1
    f2 = f2
    NoAddr = NoAddr
    Addrs = {a4}
    FamilyOf <- OneFamily
    Objects = {o1, o2}
    Fds = {f1, f2}
    Hosts <- JustFour
    Local = {}
    TimeoutValues = {1}
    MaxCalls = 1
    MaxFaults = 1
    Ms = 1
    IntMax = 100
    MaxNow = 1
PROPERTIES
    LimitedReturns
