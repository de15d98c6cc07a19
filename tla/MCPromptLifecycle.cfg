\* Three candidates, three identities, the code's two absence snapshots,
\* allocations that may fail, and revisions up to 3.
CONSTANTS
    c1 = c1
    c2 = c2
    c3 = c3
    a = a
    b = b
    x = x
    NoPrompt = NoPrompt
    NoId = NoId
    Candidates <- MCCandidates
    Ids <- MCIds
    InstanceId <- MCInstanceId
    AbsenceSnapshots = 2
    AllocOutcomes = {TRUE, FALSE}
    MaxRevision = 3
SPECIFICATION Spec
INVARIANTS
    TypeOK
    ViewMatchesActive
    OverlayIsFresh
    ResolvedStaysQuiet
PROPERTIES
    DistinctPromptIsShown
    GoneIsEarned
    ImplementsEvents
