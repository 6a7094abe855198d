SPECIFICATION Spec
CONSTANTS
    Workers = {w1, w2}
    Node <- Nodes
    Parent <- ParentOf
    Feeder <- FeederOf
    Transformer = {"t", "u"}
    Twins <- SomeTwins
    Baseline <- Evening
    Trades <- OneTrade
    VoltageBand = 5
    LoadingPct = 100
    Captures <- Late
    MaxRuns = 2
    MaxEdits = 1
    Engines = {"adapter", "other"}
    None = None
SYMMETRY Alike
INVARIANTS
    AcceptedIsCleared
    LatestJudgesNewest
CHECK_DEADLOCK FALSE
