SPECIFICATION CrashSpec
CONSTANTS
    manual = manual
    newDomain = newDomain
    discovery = discovery
    scheduled = scheduled
    None = None
    Tasks = {t1, t2}
    Captures = {c1, c2}
    Reqs = {discovery, scheduled}
    Clients = {flask}
    Crawler = crawler
    Prio <- MCPrio
    Scheduled = {scheduled}
    MaxCaptures = 2
    Discovery = TRUE
    MaxCreates = 2
INVARIANTS
    CapturesHaveTask
    PolledOrReplaced
    DedupHasTask
SYMMETRY Symmetry
