CONSTANTS
    Conns = {c1}
    Streams = {s1}
    Names = {n1}
    NoEntry = NoEntry
    MaxSlots = 1
    ResourcesFail = FALSE
SPECIFICATION Spec
INVARIANTS
    AttachTargetKept
CHECK_DEADLOCK FALSE
