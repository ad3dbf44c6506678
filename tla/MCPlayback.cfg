SPECIFICATION Spec
CONSTANTS
    a = a
    a2 = a2
    b = b
    c = c
    recA = recA
    recB = recB
    NoRec = NoRec
    Nothing = Nothing
    Files <- MCFiles
    RecordingOf <- MCRecOf
    Methods <- MCMethods
    Lists <- MCLists
    Prefer <- MCPrefer
    QueueMax = 3
    HistoryMax = 4
    MaxEvents = 4
    MaxFlight = 2
CHECK_DEADLOCK FALSE
INVARIANTS
    TypeOK
    OneOfEach
    ClaimIsCurrent
    RenderedDescribesState
    SourceFollowsClaim
PROPERTIES
    AdvanceTakesFirstPin
    ReloadKeepsQueue
