CONSTANTS
    Apps = {app}
    Rpc = rpcThread
    None = none
    MaxTrx = 2
    PoolInitial = 1
    PoolMax = 2
    MayFail = TRUE
    MaxIncoming = 1
SPECIFICATION FairSpec
INVARIANTS
    TrxAlive
    NoLostTransaction
    RpcServesAll
    DisconnectReleases
PROPERTIES
    RequestReturns
    DisconnectReturns
CHECK_DEADLOCK FALSE
