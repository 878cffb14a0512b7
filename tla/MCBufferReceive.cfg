\* Half-millisecond ticks: what is left of a limit may be no whole number of milliseconds.
SPECIFICATION FairSpec
CONSTANTS
    Inputs <- InputsDef
    Wanted = {2}
    BufSize = 2
    TimeoutValues = {0, 2}
    StatsValues = {0}
    Ms = 2
    IntMax = 100
    MaxFaults = 1
    MaxNow = 2
    LastCall = 0
INVARIANTS
    BufferHoldsNext
    ReplyExact
    EndsExact
    LimitKept
    NoEarlyTimeout
PROPERTIES
    StreamSpec
    StatsExact
    Returns
