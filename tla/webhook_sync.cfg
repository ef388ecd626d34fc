\* One item of which PayPal may decide anything, also twice; one request at a time.
SPECIFICATION FairSpec
CONSTANTS
    Item = {i1}
    Handler = {h1}
    Nothing = Nothing
    Late = {i1}
    Verdicts <- AnyVerdicts
    Busy = TRUE
    MaxIncidents = 1
INVARIANTS
    SuccessIsPaid
PROPERTIES
    LedgerCatchesUp
\* Commands, incidents and verdicts run out: the system may stop.
CHECK_DEADLOCK FALSE
