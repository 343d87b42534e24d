CONSTANTS
    Clients = {c1}
    Worker = worker
    Main = main
    None = none
    Thresholds = {th1, th2}
    Callbacks = {cb1}
    Destroys = {d1, d2}
    OneParticipant = p1
    Items <- MCItems
    Kind <- MCKind
    Participant <- MCParticipant
    Priority <- MCPriority
    Criteria <- MCCriteria
    Delays = {0, 1}
    MaxTime = 1
    MayShutDown = TRUE
SYMMETRY Symmetry
SPECIFICATION Spec
INVARIANTS
    ItemsConserved
    CompletionSemaphoreValid
PROPERTY NoOvertaking
CHECK_DEADLOCK FALSE
