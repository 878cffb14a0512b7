SPECIFICATION Spec
CONSTANTS
    u1 = u1
    u2 = u2
    Urls = {u1, u2}
    Answers <- TimedOut
    Methods = {"GET"}
    Maxima = {0}
    BLOCKSIZE = 2
    Bodies = {}
    MaxFaults = 0
INVARIANTS
    BodyToSink
CHECK_DEADLOCK FALSE
