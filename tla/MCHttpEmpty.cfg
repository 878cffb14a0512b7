SPECIFICATION Spec
CONSTANTS
    u1 = u1
    u2 = u2
    Urls = {u1, u2}
    Answers <- MovedAnswers
    Methods = {"GET"}
    Maxima = {0}
    BLOCKSIZE = 2
    Bodies <- GapBody
    MaxFaults = 0
INVARIANTS
    ChunkedCoding
CHECK_DEADLOCK FALSE
