SPECIFICATION FairSpec
CONSTANTS
    Requests = {"place", "clear", "settle"}
    Workers = {w1, w2, w3}
    Locked = {w1, w2}
    Operators = {o1, o2}
    Nothing = Nothing
    MaxEvents = 3
    MaxAlterations = 1
INVARIANTS
    ChainIsLine
    RequestsWhole
    IntactUnlessAltered
PROPERTIES
    HistoryKept
    RequestsEnd
CHECK_DEADLOCK FALSE
