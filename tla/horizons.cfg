SPECIFICATION ForecastSpec
CONSTANTS
    Forecasters = {w1, w2}
    LastSlot = 8
    Day = 4
    Window = 4
    Observations <- MCObservations
    Requests <- MCHorizons
    Faults = {"raises", "othertype", "short", "twice", "backward", "outside", "overconfident", "crossed", "huge", "negative", "unknown"}
    MaxRuns = 3
    MaxCrashes = 1
    Absent = Absent
SYMMETRY MCSymmetry
INVARIANTS
    NoMoreThanForecast
    FailureRecorded
PROPERTIES
    NeverOlder
CHECK_DEADLOCK FALSE
