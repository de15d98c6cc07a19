\* Three candidates, two identities, revisions up to 2, two events under way.
CONSTANTS
    c1 = c1
    c2 = c2
    c3 = c3
    a = a
    b = b
    p = p
    q = q
    NoPrompt = NoPrompt
    NoId = NoId
    NoSignature = NoSignature
    Candidates <- MCCandidates
    Ids <- MCIds
    InstanceId <- MCInstanceId
    Signature <- MCSignature
    MaxRevision = 2
    MaxWire = 2
SPECIFICATION PSpec
INVARIANTS
    OverlayAgrees
PROPERTIES
    OverlayGoesAway
    NewPromptIsShown
CHECK_DEADLOCK FALSE
