\* Three concurrent requests of every kind, clients that go away.
SPECIFICATION Spec
CONSTANTS
    Requests = {r1, r2, r3}
INVARIANTS
    TypeOK
    ErrorsUnified
    OwnError
    LoggedIsSent
SYMMETRY Symmetry
\* Every request is answered once.
CHECK_DEADLOCK FALSE
