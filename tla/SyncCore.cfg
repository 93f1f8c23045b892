SPECIFICATION SyncSpec
CONSTANTS
    Hosts = {h1, h2}
    Nobody = Nobody
    Ops = {op}
    Sync = Sync
    MaxRequests = 5
    SpuriousWakeups = TRUE
    Breakable = TRUE
INVARIANTS
    SyncTypeOK
    SyncIsBarrier
    AnswerStillToCome
    FailsOnlyWhenOvertaken
PROPERTIES
    SyncReturnsWhileAlive
CHECK_DEADLOCK FALSE
