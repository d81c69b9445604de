SPECIFICATION Spec
CONSTANTS
    Uuids = {u1, u2}
    Asks <- TwoTypes
    Kinds <- TwoKinds
    Objs = {o1}
    KindOf <- Items
    Hits <- AllHits
    LastDay = 2
    None = None
    MaxRequests = 3
    MaxTaken = 1
INVARIANTS
    TypeOK
    UuidsExact
    TermsUsed
    LevelsExact
    CopyFresh
    MatchesAgree
SYMMETRY Symmetry
CHECK_DEADLOCK FALSE
