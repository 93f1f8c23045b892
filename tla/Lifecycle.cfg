SPECIFICATION BackendSpec
CONSTANTS
    Outputs = {"out"}
    Inputs = {"in"}
    Ids = {1, 2, 3, 4}
    NoId = NoId
    Gone = Gone
    MaxEvents = 2
    MaxRequests = 0
INVARIANTS
    LifeTypeOK
    ConnectedOrClosed
    NoProcessAfterDisconnect
    SilentOnlyIfReported
    LinkStands
    LinkGone
PROPERTIES
    LifeCallsReturn
    ImplementsSession
