SPECIFICATION FairSpec
CONSTANTS
    s1 = s1
    s2 = s2
    s3 = s3
    r1 = r1
    r2 = r2
    Scheds = {s1, s2, s3}
    Tasks = {t1, t2, t3, t4}
    Reqs = {r1, r2}
    ReqOf <- TwoAlike
    None = None
    MaxCreates = 2
INVARIANTS
    TypeOK
    WaitsOrRuns
    StaleOnlyRaced
PROPERTIES
    ScheduleRuns
CHECK_DEADLOCK FALSE
