SPECIFICATION Spec
CONSTANTS
    Sites = {"asha", "ravi"}
    Prosumers = {"asha"}
    Founders = {"asha"}
    Requests = {"r1"}
    Quantities = {1, 2}
    Prices = {1, 2}
    Scenarios = {"normal", "missing"}
    Controls = {"step", "deliver", "recover", "scenario"}
    SlotsPerDay = 1
    Backfill = 1
    Horizon = 2
    MaxOrders = 3
    MaxTrades = 2
    Paisa = 2
    Surplus <- MCSurplus
    Profile <- MCProfile
INVARIANTS
    TypeOK
    ReservedWithinSurplus
    FilledByTrades
    TradeTerms
    RequestBuysOnce
    SettledOnce
    JournalBalances
    MeterSpentOnce
    PaidWithinLimits
PROPERTIES
    EvidencePermanent
CHECK_DEADLOCK FALSE
