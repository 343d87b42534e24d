CONSTANTS
    Calls = {s1, s2}
    NoCall = noCall
SPECIFICATION SyncFairSpec
INVARIANT UsersHaveContext
PROPERTIES
    SignallerReturns
    ContextsFreed
CHECK_DEADLOCK FALSE
