CONSTANTS
    Screens = {s1}
    NLoops = 2
    Session <- SameSession
    MaxAttempts = 1
    MaxTasks = 2
    None = None
SPECIFICATION FairSpec
INVARIANTS
    TypeOK
    OverlayHasLoop
PROPERTIES
    ReconnectSettles
CONSTRAINT NotStray
