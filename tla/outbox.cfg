SPECIFICATION FairSpec
CONSTANTS
    Receipts = {r1, r2}
    Workers = {w1, w2}
    Nobody = Nobody
    Batch = 2
    MaxFaults = 3
INVARIANTS
    ConfirmedIsRecorded
    SentAgainOnlyAfterFault
PROPERTIES
    PublicationKept
    Published
CHECK_DEADLOCK FALSE
