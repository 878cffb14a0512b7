SPECIFICATION FairSpec
CONSTANTS
    u1 = u1
    u2 = u2
    Urls = {u1, u2}
    Answers <- SomeAnswers
    Methods = {"GET", "HEAD", "POST"}
    Maxima = {0, 2}
    BLOCKSIZE = 2
    Bodies <- SomeBodies
    MaxFaults = 1
INVARIANTS
    BodyExact
    UploadExact
    ClosedOnReturn
PROPERTIES
    Returns
CHECK_DEADLOCK FALSE
