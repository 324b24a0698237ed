\* One call at a time; a Graph that returns three rows at most.
SPECIFICATION Spec
CONSTANTS
    Query <- MCQuery
    Tree <- MCTree
    Asked <- MCLimits
    GraphRowLimit = 3
    MaxMatched = 5
    Call <- MCCall
INVARIANTS
    CutAnswersSaySo
    OnlyScopedSent
    RefusalsExact
    NothingDropped
    RecordedIsSent
    DeterminationKept
