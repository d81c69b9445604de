SPECIFICATION DeleteSpec
CONSTANTS
    manual = manual
    newDomain = newDomain
    discovery = discovery
    scheduled = scheduled
    None = None
    Tasks = {t1, t2}
    Captures = {c1, c2, c3, c4}
    Reqs = {scheduled}
    Clients = {flask}
    Crawler = crawler
    Prio <- MCPrio
    Scheduled = {scheduled}
    MaxCaptures = 2
    Discovery = FALSE
    MaxCreates = 2
INVARIANTS
    RemovedFromCache
CHECK_DEADLOCK FALSE
