CONSTANTS
    Streams = {s1}
    NoThread = NoThread
    MaxSessionChanges = 0
    MaxFeeds = 1
    ClientResolves = TRUE
    DataCallbacks = TRUE
    Shutdown = FALSE
    ResourcesFail = FALSE
SPECIFICATION Spec
INVARIANTS
    CallbacksDoNotBlock
CHECK_DEADLOCK FALSE
