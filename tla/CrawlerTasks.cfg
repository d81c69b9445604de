SPECIFICATION FairSpec
CHECK_DEADLOCK FALSE
CONSTANTS
    manual = manual
    newDomain = newDomain
    discovery = discovery
    scheduled = scheduled
    None = None
    Tasks = {t1, t2}
    Captures = {c1, c2, c3}
    Reqs = {manual, scheduled}
    Clients = {flask, onion}
    Crawler = crawler
    Prio <- MCPrio
    Scheduled = {scheduled}
    MaxCaptures = 1
    Discovery = FALSE
    MaxCreates = 3
INVARIANTS
    TypeOK
    NoTaskLost
    CrawlerEnds
    SlotLimit
    OneCapture
PROPERTIES
    LifeSpec
    TasksEnd
