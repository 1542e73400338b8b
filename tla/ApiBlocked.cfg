SPECIFICATION FairSpec
CONSTANTS
    u1 = u1
    u2 = u2
    u3 = u3
    p1 = p1
    l1 = l1
    k1 = k1
    Requests = {u1, u2, k1}
    NoRequest = NoRequest
    Process <- Process1
    Device <- Device1
    Kind <- Kind1
    Size <- Size2
    KnownFirst = {"known"}
    MaxSize = 2
    PoolSize = 2
PROPERTIES UsersServed
CHECK_DEADLOCK FALSE
