SPECIFICATION FairSpec
CONSTANTS
    Size = 3
    Indices <- FewIndices
    StepSize = 2
    Room = 2
    TimeoutValues = {0, 1}
    StatsValues = {0}
    MaxCalls = 2
    Ms = 1
    IntMax = 100
    MaxFaults = 1
    MaxNow = 1
    LastCall = 0
INVARIANTS
    WireExact
    Accounted
PROPERTIES
    Returns
