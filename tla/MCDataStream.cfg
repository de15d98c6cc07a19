CONSTANTS
    Conns = {c1, c2}
    Streams = {s1}
    Names = {n1, n2}
    NoEntry = NoEntry
    MaxSlots = 2
    ResourcesFail = TRUE
SPECIFICATION FairSpec
INVARIANTS
    TypeOK
    OneEntryPerConnection
    FreedAlone
PROPERTIES
    RightSession
    StreamsAreReleased
CHECK_DEADLOCK FALSE
