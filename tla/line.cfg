\* Three batches, two handlers, two failures.
SPECIFICATION FairSpec
CONSTANTS
    u1 = u1
    u2 = u2
    b1 = b1
    b2 = b2
    b3 = b3
    Users <- MCUsers
    Batches <- MCBatches
    Content <- MCContent
    Workers = {w1, w2}
    MaxFailures = 2
    MaxClock = 1
INVARIANTS
    TypeOK
    AckedReflected
    RowsComeFromEvents
PROPERTIES
    RowsOnlyMoveOn
    StatusSpec
    EventuallyConverged
