CONSTANTS
    c1 = c1
    c2 = c2
    o1 = o1
    o2 = o2
    o3 = o3
    EventThread = event
    None = none
    AppObservers = {o1}
    MaxHeld = 2
    Clients = {c1, c2}
    Entries = {e1, e2, e3, e4}
    Observers = {o1, o2, o3}
    MayUse <- OwnObservers
    Disturbances = {}
SPECIFICATION Spec
INVARIANTS
    InUseNodeStays
    NoObserverSkipped
PROPERTY NoCallbackAfterUnregister
CHECK_DEADLOCK FALSE
