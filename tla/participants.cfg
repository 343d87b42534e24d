CONSTANTS
    event = event
    shell = shell
    Threads = {event, shell}
    Users = {user}
    Ups = {u1, u2, u3}
    None = none
    NSlots = 1
    Metas <- MCMetas
    Operations <- MCOperations
    MaxCalls = 2
    MayFail = TRUE
SPECIFICATION FairSpec
INVARIANTS
    ReferencesAccounted
    DestroyedOnce
PROPERTY DestroyReturns
CHECK_DEADLOCK FALSE
