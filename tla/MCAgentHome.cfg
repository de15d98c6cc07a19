CONSTANTS
    Keys = {k1, k2}
    NoKey = NoKey
    Torn = Torn
    KeychainAvailable = TRUE
    Users = {owner, guest}
    Owner = owner
    None = None
SPECIFICATION HSpec
SYMMETRY Symmetry
INVARIANTS
    HTypeOK
    KeyNeverLost
    SameIdentity
    SavedOnExit
    RevokedStayOut
CONSTRAINT
    SoundOnly
CHECK_DEADLOCK FALSE
