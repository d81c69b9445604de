SPECIFICATION Spec
CONSTANTS
    Ails = {a1}
    Queues = {q1}
    Objs = {o1}
    Ids = {1}
    None = None
    PullToo = TRUE
    MaxQueue = 1
    MaxAdmin = 0
    MaxCut = 1
INVARIANTS
    PullAccounted
CHECK_DEADLOCK FALSE
