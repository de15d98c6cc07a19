CONSTANTS
    Requests = {r1, r2, r3}
    NoRequest = NoRequest
SPECIFICATION FairSpec
INVARIANTS
    TypeOK
    NoUseAfterDestroy
    ListenerStaysArmed
PROPERTIES
    RequestsAreAnswered
    StopEnds
CHECK_DEADLOCK FALSE
