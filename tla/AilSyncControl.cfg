SPECIFICATION Spec
CONSTANTS
    Ails = {a1, a2}
    Queues = {q1}
    Objs = {}
    Ids = {1, 2, 3}
    None = None
    PullToo = TRUE
    MaxQueue = 0
    MaxAdmin = 2
    MaxCut = 0
INVARIANTS
    OnePushClient
    ManagerAlive
    NoStrayClient
CONSTRAINT NoRace
SYMMETRY Alike
CHECK_DEADLOCK FALSE
