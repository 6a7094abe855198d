SPECIFICATION Spec
CONSTANTS
    Workers = {w1, w2}
    Dates = {d1}
    Offers <- Evening
    CanBuy <- Sites
    CanSell <- Sites
    Surplus <- Ample
    Engine <- AnyTrades
INVARIANTS
    PairTradedOnce
    EnergyCommittedOnce
    BestFirst
PROPERTIES
    SessionMovesOn
CHECK_DEADLOCK FALSE
