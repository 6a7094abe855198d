SPECIFICATION Spec
CONSTANTS
    Conns = {c1}
    On <- OneChannel
    Threads = {t1,t2}
    Kinds <- GridAndTelemetry
    MaxEvents = 4
    Depth = 2
INVARIANTS
    InOrder
PROPERTIES
    Converges
CHECK_DEADLOCK FALSE
