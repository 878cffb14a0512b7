\* A filter that was given its end is not called again.
SPECIFICATION Spec
CHECK_DEADLOCK FALSE
CONSTANTS
    Filters <- AllFilters
    Alphabet <- Bytes6
    MaxText = 5
    MaxChunk = 2
    Length = 4
INVARIANTS
    Incremental
    RoundTrip
    LinesSafe
    DotTransparent
    EolLines
