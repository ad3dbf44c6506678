SPECIFICATION OverlaysSpec
CONSTANTS
    Sheets = {a}
    NoSheet = NoSheet
    MaxTaps = 4
CHECK_DEADLOCK FALSE
INVARIANTS
    ScrimTakesTap
