SPECIFICATION Spec
CONSTANTS
    Conns = {c1, c2}
    Reqs = {1, 2, 3}
    NoConn = NoConn
    MaxBuf = 2
    MaxActive = 2
    Unfinished = {"NPROCESSED"}
INVARIANTS
    PendingOwnsLive
    NoDanglingBev
    HandlerWritesLive
    HooksFollowConnections
    SettledRightly
PROPERTIES
    FinishedIsSettled
    ImplementsService
CHECK_DEADLOCK FALSE
