SPECIFICATION FairSpec
CONSTANTS
    Hunts = {h1}
    Objs <- TwoSources
    Hits <- AllHits
    Custom = {h1}
    Users = {u1}
    Module = Module
    None = None
    LastEvery = 2
    MaxRequests = 4
    MaxStops = 1
INVARIANTS
    TypeOK
    CompletedButCut
    MatchesListed
    CountCovers
    StateListed
    ModuleStops
PROPERTIES
    HuntEnds
CHECK_DEADLOCK FALSE
