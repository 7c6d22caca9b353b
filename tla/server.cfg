\* Three requests that may never end; signal, timeout and failure at any moment.
SPECIFICATION FairSpec
CONSTANTS
    Requests = {r1, r2, r3}
INVARIANTS
    TypeOK
    NilMeansDrained
    ErrorHasCause
PROPERTIES
    StopEndsProcess
\* The process ends.
CHECK_DEADLOCK FALSE
