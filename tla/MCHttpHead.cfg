SPECIFICATION Spec
CONSTANTS
    u1 = u1
    u2 = u2
    Urls = {u1, u2}
    Answers <- MovedAnswers
    Methods = {"HEAD"}
    Maxima = {2}
    BLOCKSIZE = 2
    Bodies = {}
    MaxFaults = 0
INVARIANTS
    HeadDownloadsNothing
CHECK_DEADLOCK FALSE
