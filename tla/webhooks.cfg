\* Two requests at once, one item that may be unclaimed before it is paid.
SPECIFICATION Spec
CONSTANTS
    Item = {i1}
    Handler = {h1, h2}
    Nothing = Nothing
    Late = {i1}
    Verdicts <- LatePayees
    Busy = FALSE
    MaxIncidents = 1
SYMMETRY Interchangeable
INVARIANTS
    OneWithdrawalUnlessBlind
PROPERTIES
    AckedIsApplied
\* Commands, incidents and verdicts run out: the system may stop.
CHECK_DEADLOCK FALSE
