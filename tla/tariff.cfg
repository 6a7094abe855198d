SPECIFICATION PriceSpec
CONSTANTS
    Bands <- MCBands
    Offset = 11
    Threshold = 70
    CongestionMax = 25
    Uncertainty = 10
    Unknown = 5
    Incentive = 5
    RepriceAt = 2
    BasePrices = {1, 10, 55000}
    Deliveries = {7, 21, 25, 32}
    Loadings = {70, 73, 85, 130}
    Confidences = {0, 85, 100}
    Feeders = {"f1"}
    Unmeasured = Unmeasured
INVARIANTS
    NeverFree
PROPERTIES
    WorseNeverCheaper
CHECK_DEADLOCK FALSE
