CONSTANTS
    Conns = {c1}
    NoConn = NoConn
    Reqs = {1, 2}
    MaxBuf = 1
    MaxActive = 2
    Unfinished = {"NPROCESSED"}
SPECIFICATION PageSpec
INVARIANT FreesOnlyHeap
CHECK_DEADLOCK FALSE
