SPECIFICATION Spec
CONSTANTS
    Jobs <- TwoPorts
    Blocks = 2
    MaxFaults = 2
INVARIANT ClosedInException
CHECK_DEADLOCK FALSE
