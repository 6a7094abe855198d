SPECIFICATION IngestSpec
CONSTANTS
    Workers = {w1, w2}
    Series = {"site", "asset"}
    Uploads <- MixedAndGaps
    Strict = FALSE
    Threshold = 1
    MaxTime = 3
    MaxUploads = 3
    None = None
    Blank = Blank
INVARIANTS
    StoredOnce
    BatchLikeCalls
CHECK_DEADLOCK FALSE
