CONSTANTS
    c1 = c1
    c2 = c2
    o1 = o1
    o2 = o2
    o3 = o3
    EventThread = event
    None = none
    AppObservers = {o1}
    MaxHeld = 2
    Clients = {c1}
    Entries = {e1, e2, e3}
    Observers = {o1, o3}
    MayUse <- OneClient
    Disturbances = {"app", "enable"}
SPECIFICATION FairSpec
INVARIANT NoDanglingEntry
PROPERTY GarbageReclaimed
CHECK_DEADLOCK FALSE
