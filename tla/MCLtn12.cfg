\* pump.all stops when it has returned.
SPECIFICATION FairSpec
CHECK_DEADLOCK FALSE
CONSTANTS
    Size = 3
    SourceFilters = 3
    SinkFilters = 2
INVARIANTS
    NeverRaises
    Delivered
PROPERTIES
    Ends
