\* Two processes, three migrations, an interruption of each kind.
SPECIFICATION FairSpec
CONSTANTS
    Procs = {p1, p2}
    MaxFiles = 3
    MaxFailures = 2
    MaxSignals = 1
    CarefulOperator = TRUE
INVARIANTS
    TypeOK
    MutualExclusion
    RecordsInOrder
    DriftBounded
PROPERTIES
    RecordedOnlyWhenBuilt
    RollsBackLastGroup
    ExitZeroMeansApplied
    ReleasesOwnLock
    CommandsEnd
