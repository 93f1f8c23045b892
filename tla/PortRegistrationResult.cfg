SPECIFICATION RegSpec
CONSTANTS
    Names = {a, b}
    BadNames = {bad}
    Flags = {audio}
    GoodFlags = {audio}
    FREE = FREE
    NoName = NoName
    MaxSlots = 4
    Hosts = {host}
    Host = host
    Nobody = Nobody
    Ops = {a, b}
    Sync = Sync
    MaxRequests = 20
    SpuriousWakeups = FALSE
    Breakable = FALSE
    StatusTimedOut = 22
    StatusNoMem = 5
    MaxCalls = 2
    LateEvents = TRUE
INVARIANTS
    ResultIsAPort
CHECK_DEADLOCK FALSE
