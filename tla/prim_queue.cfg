CONSTANTS
    Threads = {t1, t2}
    Prims = {p1}
    MaxRequests = 3
    MayFail = TRUE
    None = none
SPECIFICATION FairSpec
INVARIANTS
    DummyMarksRequest
    ReadsSeeWrites
PROPERTIES
    DelayedReturns
    StopCompletes
CHECK_DEADLOCK FALSE
