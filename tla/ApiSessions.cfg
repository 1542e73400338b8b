SPECIFICATION FairSpec
CONSTANTS
    k1 = k1
    u1 = u1
    u2 = u2
    u3 = u3
    p1 = p1
    l1 = l1
    Requests = {u1, u2, u3, p1, l1}
    NoRequest = NoRequest
    Process <- Process2
    Device <- Device2
    Kind <- Kind2
    Size <- Size2
    KnownFirst = {"known"}
    MaxSize = 2
    PoolSize = 2
INVARIANTS TypeOK OkMeansCommitted ConflictOnlyAcrossProcesses UploadBounded
PROPERTIES AnsweredUnlessFirstRequestsOverlap
CHECK_DEADLOCK FALSE
