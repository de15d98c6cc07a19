CONSTANTS
    Streams = {s1}
    NoThread = NoThread
    MaxSessionChanges = 1
    MaxFeeds = 2
    ClientResolves = FALSE
    DataCallbacks = FALSE
    Shutdown = TRUE
    ResourcesFail = FALSE
SPECIFICATION FairSpec
INVARIANTS
    CleanExit
PROPERTIES
    PromptReachesClients
    ShutdownEnds
    SessionsReachClients
CHECK_DEADLOCK FALSE
