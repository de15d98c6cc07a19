CONSTANTS
    Streams = {s1, s2}
    NoThread = NoThread
    MaxSessionChanges = 0
    MaxFeeds = 1
    ClientResolves = TRUE
    DataCallbacks = TRUE
    Shutdown = TRUE
    ResourcesFail = TRUE
SPECIFICATION Spec
SYMMETRY Symmetry
VIEW SafetyView
INVARIANTS
    TypeOK
    RefsAreExact
    NoUseAfterFree
CHECK_DEADLOCK FALSE
