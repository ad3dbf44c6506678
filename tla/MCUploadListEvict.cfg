SPECIFICATION Spec
CONSTANTS
    k1 = k1
    k2 = k2
    k3 = k3
    Keys = {k1, k2, k3}
    Started = {k1}
    FileConcurrency = 2
    NoKey = NoKey
    MaxPicks = 3
    MaxRuns = 2
CHECK_DEADLOCK FALSE
INVARIANTS
    NeverEvictsInFlight
