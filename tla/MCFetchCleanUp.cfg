\* A callback that destroys its request.
CONSTANTS
    Clients = {c1}
    Requests = {r1}
    NoClient = noClient
    NoRequest = noRequest
    MaxRuns = 1
    Chunks <- SomeChunks
    MaxBytes = 1
SPECIFICATION Spec
INVARIANT CallbackMayCleanUp
CHECK_DEADLOCK FALSE
