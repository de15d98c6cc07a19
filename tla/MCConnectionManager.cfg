CONSTANTS
    Conns = {c1, c2, c3}
    Pairable = {c2, c3}
    None = None
SPECIFICATION FairSpec
INVARIANTS
    TypeOK
    SerializedConnect
    ControlFollowsCache
    StateIsHonest
PROPERTIES
    ConnectEnds
CHECK_DEADLOCK FALSE
