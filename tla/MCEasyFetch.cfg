\* /easyfetch on the server: two clients, three requests, one unread request each.
CONSTANTS
    Conns = {c1, c2}
    NoConn = NoConn
    Reqs = {1, 2, 3}
    MaxBuf = 1
    MaxActive = 2
    Unfinished = {"NPROCESSED"}
SPECIFICATION PageSpec
INVARIANTS
    CallbackMemory
    GoneNeverAnswered
    CallbackBodies
CHECK_DEADLOCK FALSE
