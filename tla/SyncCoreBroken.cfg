SPECIFICATION SyncSpec
CONSTANTS
    Hosts = {h1}
    Nobody = Nobody
    Ops = {op}
    Sync = Sync
    MaxRequests = 3
    SpuriousWakeups = FALSE
    Breakable = TRUE
PROPERTIES
    SyncReturns
CHECK_DEADLOCK FALSE
