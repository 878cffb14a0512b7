SPECIFICATION Spec
CONSTANTS
    Jobs <- AllJobs
    Blocks = 2
    MaxFaults = 2
INVARIANTS
    Whole
    InStep
    AllClosed
    NoStall
CHECK_DEADLOCK FALSE
