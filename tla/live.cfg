SPECIFICATION FairSpec
CONSTANTS
    Sites = {"asha", "ravi"}
    Prosumers = {"asha"}
    Founders = {"asha", "ravi"}
    Requests = {}
    Quantities = {1}
    Prices = {1}
    Scenarios = {"normal", "missing"}
    Controls = {"play", "live", "scenario"}
    SlotsPerDay = 1
    Backfill = 3
    Horizon = 3
    MaxOrders = 2
    MaxTrades = 1
    Paisa = 1
    Surplus <- MCSurplus
    Profile <- MCProfile
PROPERTIES
    LiveSettlement
CHECK_DEADLOCK FALSE
