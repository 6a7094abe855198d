SPECIFICATION Spec
CONSTANTS
    Workers = {w1, w2}
    Committed = 100
    Hours = 1
    Delivered <- Late
    Price <- Steep
    Unit = 100
    Policy <- Charging
    Judgements = {"safe"}
    Requests = {"price", "reconcile", "settle"}
    MaxRows = 3
    MaxStamp = 3
    None = None
INVARIANTS
    OneStands
    LedgerBalances
    PaysCurrentPrice
CHECK_DEADLOCK FALSE
