SPECIFICATION FairSpec
CONSTANTS
    Ails = {a1}
    Queues = {q1}
    Objs = {o1, o2}
    Ids = {1}
    None = None
    PullToo = FALSE
    MaxQueue = 0
    MaxAdmin = 1
    MaxCut = 1
INVARIANTS
    TypeOK
    PushAccounted
    ConfigSeen
PROPERTIES
    Delivered
CHECK_DEADLOCK FALSE
