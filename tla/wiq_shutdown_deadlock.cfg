CONSTANTS
    Clients = {c1}
    Worker = worker
    Main = main
    None = none
    Thresholds = {}
    Callbacks = {cb1}
    Destroys = {d1}
    OneParticipant = p1
    Items <- MCItems
    Kind <- MCKind
    Participant <- MCParticipant
    Priority <- MCPriority
    Criteria <- MCCriteria
    Delays = {0}
    MaxTime = 0
    MayShutDown = TRUE
CHECK_DEADLOCK FALSE
SPECIFICATION FairSpec
PROPERTY ShutDownReturns
