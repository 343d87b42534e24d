CONSTANTS
    Items = {i1, i2, i3}
    Clients = {c1}
    Workers = {w1, w2}
    Exiter = x
    None = none
    HandleModulus = 2
    HandleRetries = 2
    MaxSets = 2
    CallbackMayWait = TRUE
SPECIFICATION FairSpec
INVARIANTS
    KillWaitIsSynchronous
    SetIsNotLost
PROPERTIES
    CallbackStartsFresh
    KillWaitReturns
    ExitCompletes
CHECK_DEADLOCK FALSE
