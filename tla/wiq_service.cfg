CONSTANTS
    Clients = {c1}
    Worker = worker
    Main = main
    None = none
    Thresholds = {}
    Callbacks = {cb1, cb2}
    Destroys = {}
    OneParticipant = p1
    Items <- MCItems
    Kind <- MCKind
    Participant <- MCParticipant
    Priority <- MCPriority
    Criteria <- MCCriteria
    Delays = {0, 1}
    MaxTime = 1
    MayShutDown = FALSE
SPECIFICATION FairSpec
INVARIANT TimerCoversDeferred
PROPERTIES
    WaitsReturn
    ItemsServed
CHECK_DEADLOCK FALSE
