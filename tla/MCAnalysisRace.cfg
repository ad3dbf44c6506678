SPECIFICATION Spec
CONSTANTS
    f1 = f1
    m1 = m1
    m2 = m2
    Files <- MCFiles
    Msgs <- MCMsgs
    Poisoned <- MCNone
    NoFile = NoFile
    Lease = 10
    StuckAfter = 60
    CronEvery = 60
    MaxRetries = 5
    DeadRetries = 3
    OkFalseMax = 3
    MaxDelay = 5
    MaxRun = 1
    MaxFaults = 0
    MaxExtra = 1
INVARIANTS
    OneRun
