\* Two operator calls, the payout harness and one reconcile-held call share one
\* account; the bank executes at most two payments.
SPECIFICATION Spec
CONSTANTS
    Operator = {o1, o2}
    Harness = {h}
    Seeder = {s1}
    Amounts = {1, 2}
    RowAmount = 1
    Allocated = 2
    AutoRef = AutoRef
    MayCrash = TRUE
    Outside = {1}
    MaxReceived = 2
    MaxPaid = 2
INVARIANTS
    BooksAreBacked
    SettlementIsBooked
    ExecutedIsKnown
    SerialReleasesAreCovered
PROPERTIES
    HeldLeavesOnlyInitiated
SYMMETRY Interchangeable
