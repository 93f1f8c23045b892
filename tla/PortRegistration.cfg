SPECIFICATION RegSpec
CONSTANTS
    Names = {a, b}
    BadNames = {bad}
    Flags = {audio}
    GoodFlags = {audio}
    FREE = FREE
    NoName = NoName
    MaxSlots = 4
    Hosts = {host}
    Host = host
    Nobody = Nobody
    Ops = {a, b}
    Sync = Sync
    MaxRequests = 20
    SpuriousWakeups = TRUE
    Breakable = TRUE
    StatusTimedOut = 22
    StatusNoMem = 5
    MaxCalls = 4
    LateEvents = TRUE
INVARIANTS
    RegTypeOK
    OnlyUnregisterHalfDone
    TableStaysSound
    ActivePortsAnnounced
    NoUndefinedIdRead
PROPERTIES
    CallsReturn
CHECK_DEADLOCK FALSE
