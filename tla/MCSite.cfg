SPECIFICATION Spec
CONSTANTS
    m1 = m1
    m2 = m2
    m3 = m3
    Keys = {m1, m2}
    Started = {m1}
    FileConcurrency = 1
    NoKey = NoKey
    MaxPicks = 3
    MaxRuns = 2
    Tunes = {m1, m2, m3}
    NoTune = NoTune
    MaxCalls = 3
    U32Max = 5
    MaxZipTracks = 2
    MaxZipBytes = 9
    MaxRows = 3
    RowSizes <- MCRowSizes
    ChunkSizes = {1, 3}
    Songs = {m1, m2}
    NoSong = NoSong
    Tags = {m1, m2, m3}
    TagCap = 2
    Queries = {m1, m2}
    MaxMoves = 4
    Uploads = {1, 2, 3}
    Copies <- MCCopies
    Likely <- MCLikely
    Printless = {3}
    MaxJobs = 2
    MaxMerges = 2
    MaxTurns = 2
    Sheets = {m1, m2, m3}
    NoSheet = NoSheet
    MaxTaps = 6
    Picked = {m1, m2, m3}
    MaxBreaks = 2
    FileSizes = {2, 3, 4, 5, 6, 7, 8}
    Threshold = 3
    PartSize = 2
    OldPartSizes = {2, 3}
    MaxParts = 3
    PartConcurrency = 2
    PresignChunk = 2
    MaxFaults = 2
    Catalogue <- MCCatalogue
    Draw <- MCDraw
    Needs = {2, 5}
CHECK_DEADLOCK FALSE
INVARIANTS
    SiteTypeOK
    ListTellsRun
    OneRun
    SaidInCrate
    ArchiveIsWhole
    PickerListsCreated
    ControlsSettle
    TracksHold
    PageFollowsOverlays
    ReadTellsHeader
    PartsAreTheFile
    TailIsChain
PROPERTIES
    HiddenStayBehind
    PageShowsCommitted
    ResolveJoins
    RunEnds
