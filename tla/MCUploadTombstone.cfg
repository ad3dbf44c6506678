SPECIFICATION FairUSpec
CONSTANTS
    f1 = f1
    r1 = r1
    r2 = r2
    u1 = u1
    s1 = s1
    Files <- MCFiles
    Reqs <- MCReqs
    UploadIds <- MCUploadIds
    Sessions <- MCSessions
    FileOf <- MCFileOf
    Ops <- MCOps
    NoFile = NoFile
    NoUpload = NoUpload
    NoReq = NoReq
    MaxRequests = 3
    DeleteOrphans = FALSE
    DeletePending = FALSE
    LoseReplies = FALSE
PROPERTIES
    TombstoneReclaimed
