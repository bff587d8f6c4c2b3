\* /datahub on the server: two clients, two requests, one unread request each.
CONSTANTS
    Conns = {c1, c2}
    NoConn = NoConn
    Reqs = {1, 2}
    MaxBuf = 1
    MaxActive = 2
    Unfinished = {"PROCESSING"}
SPECIFICATION HubSpec
INVARIANTS
    AnsweredWithBoth
    PendingCounts
    OperationMemory
PROPERTIES
    PageSettles
CHECK_DEADLOCK FALSE
