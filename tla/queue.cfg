CONSTANTS
    MaxSize = 2
    MaxItems = 4
    MaxCreations = 2
SPECIFICATION FairSpec
INVARIANT NoLostWakeup
PROPERTIES
    ImplementsFifo
    ItemsDelivered
    StopCompletes
CHECK_DEADLOCK FALSE
