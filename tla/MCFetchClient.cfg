\* Two requests, each executed up to twice with a body of one chunk.
CONSTANTS
    Clients = {c1, c2}
    Requests = {r1, r2}
    NoClient = noClient
    NoRequest = noRequest
    MaxRuns = 2
    Chunks <- SomeChunks
    MaxBytes = 1
SPECIFICATION Spec
INVARIANTS
    ExecutingIsInMulti
    EventsFindMemory
    RunsAccountedFor
    FirstRunIsExact
    OnlyOwnCallbackHarms
PROPERTIES
    LoopTakesAll
CHECK_DEADLOCK FALSE
