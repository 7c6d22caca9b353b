\* A signal arrives; nothing fails on its own and nobody is killed.
SPECIFICATION Spec
CONSTANTS
    Procs = {p1, p2}
    MaxFiles = 1
    MaxFailures = 0
    MaxSignals = 1
    CarefulOperator = TRUE
PROPERTIES
    ReturnReleases
