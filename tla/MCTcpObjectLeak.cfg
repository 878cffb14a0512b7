SPECIFICATION Spec
CONSTANTS
    a4 = a4
    b4 = b4
    a6 = a6
    o1 = o1
    o2 = o2
    f1 = f1
    f2 = f2
    NoAddr = NoAddr
    Addrs = {a4, b4, a6}
    FamilyOf <- FamilyOfDef
    Objects = {o1}
    Fds = {f1}
    Hosts <- SixFirst
    Local <- SomeLocal
    TimeoutValues = {}
    MaxCalls = 1
    MaxFaults = 0
    Ms = 1
    IntMax = 100
    MaxNow = 0
INVARIANTS
    NoLeak
