\* Three checkers, one more than app.go has.
SPECIFICATION FairSpec
CONSTANTS
    Checkers = {postgres, redis, other}
INVARIANTS
    TypeOK
    NoSendAfterClose
    ReportExact
PROPERTIES
    ReportComes
\* Check returns.
CHECK_DEADLOCK FALSE
