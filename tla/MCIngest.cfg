SPECIFICATION Spec
CONSTANTS
    f1 = f1
    r1 = r1
    r2 = r2
    u1 = u1
    u2 = u2
    Files <- MCFiles
    Reqs <- MCReqs
    UploadIds <- MCUploadIds
    Ops <- MCOps
    NoFile = NoFile
    NoUpload = NoUpload
    MaxRequests = 4
    DeleteOrphans = FALSE
    DeletePending = TRUE
SYMMETRY MCSymmetry
INVARIANTS
    TypeOK
    SweepOnlyDead
    ReconcileOnlyDead
    LiveWasClaimed
    SentAfterFinalize
    AbandonedHasNoUrls
PROPERTIES
    ImplementsFileState
