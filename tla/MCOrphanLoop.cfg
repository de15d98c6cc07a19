CONSTANTS
    Screens = {s1, s2}
    NLoops = 2
    Session <- OwnSession
    MaxAttempts = 1
    MaxTasks = 4
    None = None
SPECIFICATION FairSpec
PROPERTIES
    OrphansStayAway
